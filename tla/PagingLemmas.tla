---------------------------- MODULE PagingLemmas ----------------------------
(***************************************************************************)
(* Lemmas about the operators of Paging: page numbers and their digits,    *)
(* walks through entries, what one more table or one other entry does to   *)
(* every walk, the creation of the tables a page lacks, and the lists of   *)
(* what init_paging maps.                                                  *)
(*                                                                         *)
(* The walks are restated with the root and the entries as parameters, so  *)
(* that one lemma speaks of entries before, between and after the steps of *)
(* a handler.                                                              *)
(***************************************************************************)
EXTENDS Paging, NatSets, SequenceTheorems, FiniteSetTheorems

\* The sizes of the tables and the bounds are numbers that make sense.
LEMMA SizesTyped ==
    /\ Fanout \in Nat /\ Fanout >= 2 /\ Levels \in Nat /\ Levels >= 1
    /\ StackReach \in Nat /\ MaxEarly \in Nat \ {0} /\ MaxMaps \in Nat \ {0}
BY ConstantsAssumption DEF ConstantsAssumption

\* The recursive equation of Span has a solution: by induction, since a
\* definition with CHOOSE says nothing before this is known.
LEMMA SpanExists ==
    \E s : s = [n \in 0 .. Levels |-> IF n = 0 THEN 1 ELSE Fanout * s[n - 1]]
<1> DEFINE S == {m \in Nat : \E s : s = [n \in 0 .. m |-> IF n = 0 THEN 1 ELSE Fanout * s[n - 1]]}
<1>1. 0 \in S
  <2> DEFINE s == [n \in 0 .. 0 |-> 1]
  <2>1. s = [n \in 0 .. 0 |-> IF n = 0 THEN 1 ELSE Fanout * s[n - 1]]
      OBVIOUS
  <2> HIDE DEF s
  <2> QED BY <2>1
<1>2. ASSUME NEW m \in S PROVE m + 1 \in S
  <2>1. PICK g : g = [n \in 0 .. m |-> IF n = 0 THEN 1 ELSE Fanout * g[n - 1]]
      OBVIOUS
  <2>2. m \in Nat /\ m + 1 \in Nat
      OBVIOUS
  <2> DEFINE h == [n \in 0 .. m + 1 |-> IF n = 0 THEN 1 ELSE Fanout * g[n - 1]]
  <2>3. ASSUME NEW n \in 0 .. m + 1, n # 0 PROVE h[n - 1] = g[n - 1]
    <3>1. n - 1 \in 0 .. m /\ n - 1 \in 0 .. m + 1
        BY <2>2, <2>3
    <3>2. g[n - 1] = IF n - 1 = 0 THEN 1 ELSE Fanout * g[n - 1 - 1]
        BY <2>1, <3>1
    <3>3. h[n - 1] = IF n - 1 = 0 THEN 1 ELSE Fanout * g[n - 1 - 1]
        BY <3>1
    <3> QED BY <3>2, <3>3
  <2>4. h = [n \in 0 .. m + 1 |-> IF n = 0 THEN 1 ELSE Fanout * h[n - 1]]
    <3> SUFFICES ASSUME NEW n \in 0 .. m + 1
                 PROVE  (IF n = 0 THEN 1 ELSE Fanout * g[n - 1]) = (IF n = 0 THEN 1 ELSE Fanout * h[n - 1])
        OBVIOUS
    <3> HIDE DEF h
    <3> QED BY <2>3
  <2> HIDE DEF h
  <2> QED BY <2>2, <2>4
<1>3. S \in SUBSET Nat
    OBVIOUS
<1> HIDE DEF S
<1>4. Levels \in S
    BY <1>1, <1>2, <1>3, SetInduction, SizesTyped
<1> QED BY <1>4 DEF S

\* An entry one level up stands for Fanout times as many pages: the shifts by
\* 39, 30, 21 and 12 (paging.c:53-56).
LEMMA SpanIs ==
    /\ Span[0] = 1
    /\ \A n \in 0 .. Levels - 1 : Span[n + 1] = Fanout * Span[n]
<1>1. Span = [n \in 0 .. Levels |-> IF n = 0 THEN 1 ELSE Fanout * Span[n - 1]]
    BY SpanExists DEF Span
<1>2. Levels \in Nat /\ Levels >= 1
    BY SizesTyped
<1> HIDE DEF Span
<1>5. \A k \in 0 .. Levels : Span[k] = IF k = 0 THEN 1 ELSE Fanout * Span[k - 1]
    BY <1>1
<1>3. Span[0] = 1
    BY <1>2, <1>5
<1>4. ASSUME NEW n \in 0 .. Levels - 1 PROVE Span[n + 1] = Fanout * Span[n]
  <2>1. n + 1 \in 0 .. Levels /\ n + 1 # 0 /\ n + 1 - 1 = n
      BY <1>2
  <2> DEFINE k == n + 1
             j == k - 1
  <2>2. k \in 0 .. Levels /\ k # 0 /\ j = n
      BY <2>1
  <2> HIDE DEF k
  <2>3. Span[k] = Fanout * Span[j]
      BY <1>5, <2>2
  <2> QED BY <2>2, <2>3 DEF k
<1> QED BY <1>3, <1>4

\* An entry stands for at least one page (paging.c:53-56).
LEMMA SpanTyped == \A n \in 0 .. Levels : Span[n] \in Nat \ {0}
<1> DEFINE S == {m \in Nat : m \in 0 .. Levels => Span[m] \in Nat \ {0}}
<1>1. 0 \in S
    BY SpanIs
<1>2. ASSUME NEW m \in S PROVE m + 1 \in S
  <2> SUFFICES ASSUME m + 1 \in 0 .. Levels PROVE Span[m + 1] \in Nat \ {0}
      OBVIOUS
  <2>1. m \in 0 .. Levels - 1 /\ m \in 0 .. Levels /\ Span[m] \in Nat \ {0}
      BY SizesTyped
  <2>2. Span[m + 1] = Fanout * Span[m]
      BY <2>1, SpanIs
  <2> DEFINE x == Span[m]
  <2>3. x \in Nat \ {0}
      BY <2>1
  <2> HIDE DEF x
  <2>4. Fanout * x \in Nat \ {0}
      BY <2>3, SizesTyped
  <2> QED BY <2>2, <2>4 DEF x
<1>3. S \in SUBSET Nat
    OBVIOUS
<1> HIDE DEF S
<1>4. S = Nat
    BY <1>1, <1>2, <1>3, SetInduction
<1> QED BY <1>4, SizesTyped DEF S

\* What is left of whole multiples and a remainder is the remainder.
LEMMA Division ==
    ASSUME NEW a \in Nat, NEW M \in Nat \ {0}, NEW x \in Nat, x < M
    PROVE  (a * M + x) % M = x
<1> DEFINE v == a * M + x
           q == v \div M
           r == v % M
<1>1. v \in Nat
    OBVIOUS
<1>2. q \in Nat /\ r \in 0 .. M - 1 /\ v = M * q + r
    BY <1>1
<1>3. a * M + x = M * q + r
    BY <1>2
<1> HIDE DEF v, q, r
<1>4. q = a
  <2>1. CASE q >= a + 1
    <3>1. M * q >= M * (a + 1)
        BY <1>2, <2>1
    <3>2. M * (a + 1) = a * M + M
        OBVIOUS
    <3> QED BY <1>2, <1>3, <3>1, <3>2
  <2>2. CASE a >= q + 1
    <3>1. M * a >= M * (q + 1)
        BY <1>2, <2>2
    <3>2. M * (q + 1) = M * q + M /\ M * a = a * M
        BY <1>2
    <3> QED BY <1>2, <1>3, <3>1, <3>2
  <2> QED BY <1>2, <2>1, <2>2
<1>5. r = x
    BY <1>2, <1>3, <1>4
<1> QED BY <1>5 DEF r, v

\* A number's remainder is one more digit and the remainder below it: how
\* shift and mask take a page number apart (paging.c:53-56).
LEMMA Digit ==
    ASSUME NEW v \in Nat, NEW s \in Nat \ {0}, NEW f \in Nat \ {0}
    PROVE  v % (f * s) = ((v \div s) % f) * s + (v % s)
<1> DEFINE q == v \div s
           r == v % s
           a == q \div f
           b == q % f
<1>1. q \in Nat /\ r \in 0 .. s - 1 /\ v = s * q + r
    OBVIOUS
<1>2. a \in Nat /\ b \in 0 .. f - 1 /\ q = f * a + b
    BY <1>1
<1> HIDE DEF q, r, a, b
<1>3. v = a * (f * s) + (b * s + r)
  <2>1. s * (f * a + b) = a * (f * s) + b * s
      BY <1>2
  <2> QED BY <1>1, <1>2, <2>1
<1>4. b * s + r \in Nat /\ b * s + r < f * s
  <2>1. b * s <= (f - 1) * s
      BY <1>2
  <2>2. (f - 1) * s = f * s - s
      OBVIOUS
  <2>3. b * s \in Nat
      BY <1>2
  <2> QED BY <1>1, <2>1, <2>2, <2>3
<1>5. f * s \in Nat \ {0}
    OBVIOUS
<1> DEFINE x == b * s + r
           M == f * s
<1>6. x \in Nat /\ x < M /\ M \in Nat \ {0} /\ v = a * M + x
    BY <1>3, <1>4, <1>5
<1> HIDE DEF x, M
<1>7. v % M = x
    BY <1>2, <1>6, Division
<1> QED BY <1>7 DEF x, M, b, q, r

\* Page numbers below WalkPages can be told apart by a walk, all wrapped page
\* numbers exist, and NoFrame is none of them.
LEMMA PagesTyped ==
    /\ WalkPages \in Nat \ {0} /\ VirtPages \in Nat \ {0} /\ WalkPages < VirtPages
    /\ NoFrame = VirtPages
    /\ \A v \in Nat : Wrap(v) \in Virt
<1>1. WalkPages \in Nat \ {0}
    BY SpanTyped, SizesTyped DEF WalkPages
<1>2. VirtPages \in Nat \ {0} /\ WalkPages < VirtPages
    BY <1>1 DEF VirtPages
<1>3. \A v \in Nat : Wrap(v) \in Virt
    BY <1>2 DEF Wrap, Virt
<1> QED BY <1>1, <1>2, <1>3 DEF NoFrame

\* An index lies within a table (paging.c:53-56, the mask 0x1FF).
LEMMA IndexTyped ==
    ASSUME NEW v \in Nat, NEW l \in 1 .. Levels
    PROVE  Index(v, l) \in 0 .. Fanout - 1
<1>1. Levels - l \in 0 .. Levels
    BY SizesTyped
<1> DEFINE s == Span[Levels - l]
           q == v \div s
<1>2. s \in Nat \ {0}
    BY <1>1, SpanTyped
<1> HIDE DEF s
<1>3. q \in Nat
    BY <1>2
<1> HIDE DEF q
<1>4. q % Fanout \in 0 .. Fanout - 1
    BY <1>3, SizesTyped
<1> QED BY <1>4 DEF Index, q, s

\* The walks of v and w take the same turns at the first l levels.
Agree(v, w, l) == \A k \in 1 .. l : Index(v, k) = Index(w, k)

\* The tables cannot tell v and w apart.
Same(v, w) == Agree(v, w, Levels)

\* Pages with the same indices at all levels are the same up to the bits above
\* bit 47, which no index holds (paging.c:53-56): by induction over the levels.
LEMMA SamePage ==
    ASSUME NEW v \in Nat, NEW w \in Nat, Same(v, w)
    PROVE  v % WalkPages = w % WalkPages
<1> DEFINE S == {m \in Nat : m \in 0 .. Levels => v % Span[m] = w % Span[m]}
<1>1. 0 \in S
  <2>1. v % 1 = w % 1
      OBVIOUS
  <2> QED BY <2>1, SpanIs
<1>2. ASSUME NEW m \in S PROVE m + 1 \in S
  <2> SUFFICES ASSUME m + 1 \in 0 .. Levels PROVE v % Span[m + 1] = w % Span[m + 1]
      OBVIOUS
  <2>1. m \in 0 .. Levels - 1 /\ m \in 0 .. Levels /\ v % Span[m] = w % Span[m]
      BY SizesTyped
  <2>2. Levels - m \in 1 .. Levels /\ Levels - (Levels - m) = m
      BY <2>1, SizesTyped
  <2>3. Index(v, Levels - m) = Index(w, Levels - m)
      BY <2>2 DEF Same, Agree
  <2> DEFINE s == Span[m]
             a == (v \div s) % Fanout
             b == (w \div s) % Fanout
  <2>4. a = b
      BY <2>2, <2>3 DEF Index
  <2>5. s \in Nat \ {0} /\ Span[m + 1] = Fanout * s /\ v % s = w % s
      BY <2>1, SpanTyped, SpanIs
  <2>6. Fanout \in Nat \ {0}
      BY SizesTyped
  <2>7. v % (Fanout * s) = a * s + (v % s) /\ w % (Fanout * s) = b * s + (w % s)
    <3> HIDE DEF s
    <3> QED BY <2>5, <2>6, Digit
  <2> HIDE DEF a, b, s
  <2> QED BY <2>4, <2>5, <2>7
<1>3. S \in SUBSET Nat
    OBVIOUS
<1> HIDE DEF S
<1>4. S = Nat
    BY <1>1, <1>2, <1>3, SetInduction
<1> QED BY <1>4, SizesTyped DEF S, WalkPages

\* The other way round: pages that differ below bit 48 are told apart.
LEMMA NotSame ==
    ASSUME NEW v \in Virt, NEW w \in Virt, v % WalkPages # w % WalkPages
    PROVE  ~Same(v, w)
<1>1. v \in Nat /\ w \in Nat
    BY PagesTyped DEF Virt
<1> QED BY <1>1, SamePage

-----------------------------------------------------------------------------
\* The frame in entry i of table t.
Follow(m, t, i) == IF <<t, i>> \in DOMAIN m THEN m[<<t, i>>] ELSE NoFrame

\* g holds the first n tables of page v.
IsWalk(n, r, m, v, g) ==
    g = [l \in 1 .. n |-> IF l = 1 THEN r ELSE Follow(m, g[l - 1], Index(v, l - 1))]

\* Path, for any root and entries.
Walk(r, m, v) == CHOOSE g : IsWalk(Levels, r, m, v, g)

\* Translate, for any root and entries.
Leaf(r, m, v) == Follow(m, Walk(r, m, v)[Levels], Index(v, Levels))

\* The equation of a walk has a solution, by induction over the levels: what
\* the MMU's walk, four dependent reads (paging.c:509-567), finds.
LEMMA WalkExists ==
    ASSUME NEW r, NEW m, NEW v, NEW n \in Nat
    PROVE  \E g : IsWalk(n, r, m, v, g)
<1> DEFINE S == {k \in Nat : \E g : IsWalk(k, r, m, v, g)}
<1>1. 0 \in S
  <2>1. 1 .. 0 = {}
      OBVIOUS
  <2> DEFINE g == [l \in 1 .. 0 |-> r]
  <2>2. g = [l \in 1 .. 0 |-> IF l = 1 THEN r ELSE Follow(m, g[l - 1], Index(v, l - 1))]
      BY <2>1
  <2> HIDE DEF g
  <2> QED BY <2>2 DEF IsWalk
<1>2. ASSUME NEW k \in S PROVE k + 1 \in S
  <2>1. PICK g : g = [l \in 1 .. k |-> IF l = 1 THEN r ELSE Follow(m, g[l - 1], Index(v, l - 1))]
      BY DEF IsWalk
  <2>2. k \in Nat /\ k + 1 \in Nat
      OBVIOUS
  <2> DEFINE h == [l \in 1 .. k + 1 |-> IF l = 1 THEN r ELSE Follow(m, g[l - 1], Index(v, l - 1))]
  <2>3. ASSUME NEW l \in 1 .. k + 1, l # 1 PROVE h[l - 1] = g[l - 1]
    <3>1. l - 1 \in 1 .. k /\ l - 1 \in 1 .. k + 1
        BY <2>2, <2>3
    <3>2. g[l - 1] = IF l - 1 = 1 THEN r ELSE Follow(m, g[l - 1 - 1], Index(v, l - 1 - 1))
        BY <2>1, <3>1
    <3>3. h[l - 1] = IF l - 1 = 1 THEN r ELSE Follow(m, g[l - 1 - 1], Index(v, l - 1 - 1))
        BY <3>1
    <3> QED BY <3>2, <3>3
  <2>4. h = [l \in 1 .. k + 1 |-> IF l = 1 THEN r ELSE Follow(m, h[l - 1], Index(v, l - 1))]
    <3> SUFFICES ASSUME NEW l \in 1 .. k + 1
                 PROVE  (IF l = 1 THEN r ELSE Follow(m, g[l - 1], Index(v, l - 1)))
                         = (IF l = 1 THEN r ELSE Follow(m, h[l - 1], Index(v, l - 1)))
        OBVIOUS
    <3> HIDE DEF h
    <3> QED BY <2>3
  <2> HIDE DEF h
  <2> QED BY <2>2, <2>4 DEF IsWalk
<1>3. S \in SUBSET Nat
    OBVIOUS
<1> HIDE DEF S
<1>4. S = Nat
    BY <1>1, <1>2, <1>3, SetInduction
<1> QED BY <1>4 DEF S

\* A walk starts at the root and follows one entry at each level
\* (paging.c:519, 528, 537).
LEMMA WalkIs ==
    ASSUME NEW r, NEW m, NEW v
    PROVE  /\ Walk(r, m, v)[1] = r
           /\ \A l \in 1 .. Levels - 1 :
                 Walk(r, m, v)[l + 1] = Follow(m, Walk(r, m, v)[l], Index(v, l))
<1> DEFINE g == Walk(r, m, v)
<1>1. IsWalk(Levels, r, m, v, g)
    BY WalkExists, SizesTyped DEF Walk
<1> HIDE DEF g
<1>2. g = [l \in 1 .. Levels |-> IF l = 1 THEN r ELSE Follow(m, g[l - 1], Index(v, l - 1))]
    BY <1>1 DEF IsWalk
<1>5. \A k \in 1 .. Levels : g[k] = IF k = 1 THEN r ELSE Follow(m, g[k - 1], Index(v, k - 1))
    BY <1>2
<1>3. g[1] = r
  <2>1. 1 \in 1 .. Levels
      BY SizesTyped
  <2> QED BY <1>5, <2>1
<1>4. ASSUME NEW l \in 1 .. Levels - 1 PROVE g[l + 1] = Follow(m, g[l], Index(v, l))
  <2>1. l + 1 \in 1 .. Levels /\ l + 1 # 1 /\ l + 1 - 1 = l
      BY SizesTyped
  <2> DEFINE k == l + 1
             j == k - 1
  <2>2. k \in 1 .. Levels /\ k # 1 /\ j = l
      BY <2>1
  <2> HIDE DEF k
  <2>3. g[k] = Follow(m, g[j], Index(v, j))
      BY <1>5, <2>2
  <2> QED BY <2>2, <2>3 DEF k
<1> QED BY <1>3, <1>4 DEF g

\* Path and Translate are walks from pml4 (paging.c:519, 561).
LEMMA PathIs == \A m, v : Path(m, v) = Walk(Root, m, v) /\ Translate(m, v) = Leaf(Root, m, v)
BY DEF Path, Walk, IsWalk, Follow, Translate, Leaf

\* So they are after a step (paging.c:519, 561).
LEMMA PathIsNext ==
    \A v : Path(mem, v)' = Walk(Root, mem, v)' /\ Translate(mem, v)' = Leaf(Root, mem, v)'
BY DEF Path, Walk, IsWalk, Follow, Translate, Leaf

-----------------------------------------------------------------------------
\* The first n frames of kmalloc.
Allotted(r, n) == r .. r + n - 1

\* Every entry is in a table that some walk comes to, at the index it uses.
Owned(r, m) ==
    \A e \in DOMAIN m : \E v \in Virt, l \in 1 .. Levels :
        Walk(r, m, v)[l] # NoFrame /\ e = <<Walk(r, m, v)[l], Index(v, l)>>

\* Every table is one of the first n frames of kmalloc.
Within(r, m, n) ==
    \A v \in Virt, l \in 1 .. Levels : Walk(r, m, v)[l] \in Allotted(r, n) \union {NoFrame}

\* A table serves one level, and only walks that took the same turns so far.
Apart(r, m) ==
    \A v, w \in Virt, k, l \in 1 .. Levels :
        Walk(r, m, v)[k] = Walk(r, m, w)[l] /\ Walk(r, m, v)[k] # NoFrame =>
            k = l /\ Agree(v, w, l - 1)

\* No present entry is absent.
Solid(m) == \A e \in DOMAIN m : m[e] # NoFrame

\* The entries m are a tree of tables below r, made of the first n frames.
Tree(r, m, n) ==
    /\ r \in Nat /\ n \in Nat \ {0} /\ r + n <= NoFrame
    /\ IsFiniteSet(DOMAIN m) /\ Solid(m)
    /\ Owned(r, m) /\ Within(r, m, n) /\ Apart(r, m)

\* Walks that take the same turns come to the same tables (paging.c:61-86).
LEMMA AgreeWalk ==
    ASSUME NEW r, NEW m, NEW v, NEW w, NEW l \in 1 .. Levels, Agree(v, w, l - 1)
    PROVE  Walk(r, m, v)[l] = Walk(r, m, w)[l]
<1> DEFINE S == {k \in Nat : k + 1 \in 1 .. l => Walk(r, m, v)[k + 1] = Walk(r, m, w)[k + 1]}
<1>1. 0 \in S
    BY WalkIs
<1>2. ASSUME NEW k \in S PROVE k + 1 \in S
  <2> SUFFICES ASSUME k + 1 + 1 \in 1 .. l
               PROVE  Walk(r, m, v)[k + 1 + 1] = Walk(r, m, w)[k + 1 + 1]
      OBVIOUS
  <2> DEFINE j == k + 1
  <2>1. j \in 1 .. Levels - 1 /\ j \in 1 .. l - 1 /\ Walk(r, m, v)[j] = Walk(r, m, w)[j]
      BY SizesTyped
  <2> HIDE DEF j
  <2>2. Index(v, j) = Index(w, j)
      BY <2>1 DEF Agree
  <2>3. Walk(r, m, v)[j + 1] = Walk(r, m, w)[j + 1]
      BY <2>1, <2>2, WalkIs
  <2> QED BY <2>3 DEF j
<1>3. S \in SUBSET Nat
    OBVIOUS
<1> HIDE DEF S
<1>4. S = Nat
    BY <1>1, <1>2, <1>3, SetInduction
<1> DEFINE j == l - 1
<1>5. j \in Nat /\ j + 1 = l /\ j + 1 \in 1 .. l
    BY SizesTyped
<1> HIDE DEF j
<1> QED BY <1>4, <1>5 DEF S

\* A frame that kmalloc has not handed out yet is no table and holds no entry
\* (alloc_table zeroes it: paging.c:36-41).
LEMMA NoEntry ==
    ASSUME NEW r, NEW m, NEW n, Tree(r, m, n), NEW t, t \notin Allotted(r, n), NEW i
    PROVE  <<t, i>> \notin DOMAIN m
<1> SUFFICES ASSUME <<t, i>> \in DOMAIN m PROVE FALSE
    OBVIOUS
<1>1. PICK v \in Virt, l \in 1 .. Levels :
        Walk(r, m, v)[l] # NoFrame /\ <<t, i>> = <<Walk(r, m, v)[l], Index(v, l)>>
    BY DEF Tree, Owned
<1>2. t = Walk(r, m, v)[l]
    BY <1>1
<1> QED BY <1>1, <1>2 DEF Tree, Within

\* Every table a walk comes to is a frame of kmalloc's (paging.c:22-45).
LEMMA TablesAllotted ==
    ASSUME NEW r, NEW m, NEW n, Tree(r, m, n), NEW v \in Virt, NEW l \in 1 .. Levels,
           Walk(r, m, v)[l] # NoFrame
    PROVE  Walk(r, m, v)[l] \in Allotted(r, n)
BY DEF Tree, Within

\* A walk that reaches the lowest level has come to a table at each
\* (paging.c:562-566).
LEMMA WalkWhole ==
    ASSUME NEW r, NEW m, NEW n, Tree(r, m, n), NEW v \in Virt, Walk(r, m, v)[Levels] # NoFrame,
           NEW l \in 1 .. Levels
    PROVE  Walk(r, m, v)[l] # NoFrame
<1> SUFFICES ASSUME Walk(r, m, v)[l] = NoFrame PROVE FALSE
    OBVIOUS
<1>1. NoFrame \notin Allotted(r, n)
    BY PagesTyped DEF Allotted, Tree
<1> DEFINE S == {j \in Nat : l + j <= Levels => Walk(r, m, v)[l + j] = NoFrame}
<1>2. 0 \in S
  <2>1. l + 0 = l
      OBVIOUS
  <2> QED BY <2>1
<1>3. ASSUME NEW j \in S PROVE j + 1 \in S
  <2> DEFINE k == l + j
  <2> SUFFICES ASSUME l + (j + 1) <= Levels PROVE Walk(r, m, v)[l + (j + 1)] = NoFrame
      OBVIOUS
  <2>1. k \in 1 .. Levels - 1 /\ l + (j + 1) = k + 1 /\ Walk(r, m, v)[k] = NoFrame
      BY SizesTyped
  <2> HIDE DEF k
  <2>2. Walk(r, m, v)[k + 1] = Follow(m, Walk(r, m, v)[k], Index(v, k))
      BY <2>1, WalkIs
  <2> DEFINE i == Index(v, k)
  <2> HIDE DEF i
  <2>3. <<NoFrame, i>> \notin DOMAIN m
      BY <1>1, NoEntry
  <2> QED BY <2>1, <2>2, <2>3 DEF Follow, i
<1>4. S \in SUBSET Nat
    OBVIOUS
<1> HIDE DEF S
<1>5. S = Nat
    BY <1>2, <1>3, <1>4, SetInduction
<1> DEFINE j == Levels - l
<1>6. j \in Nat /\ l + j = Levels
    BY SizesTyped
<1> HIDE DEF j
<1>7. Walk(r, m, v)[l + j] = NoFrame
  <2>1. j \in S /\ l + j <= Levels
      BY <1>5, <1>6, SizesTyped
  <2> QED BY <2>1 DEF S
<1> QED BY <1>6, <1>7

\* Two walks that use the same entry are at the same level and have taken the
\* same turns (paging.c:61-86): no entry serves two pages' paths otherwise.
LEMMA OneEntry ==
    ASSUME NEW r, NEW m, NEW n, Tree(r, m, n), NEW v \in Virt, NEW w \in Virt,
           NEW k \in 1 .. Levels, NEW l \in 1 .. Levels,
           Walk(r, m, v)[k] = Walk(r, m, w)[l], Walk(r, m, v)[k] # NoFrame, Index(v, k) = Index(w, l)
    PROVE  k = l /\ Agree(v, w, l)
<1>1. k = l /\ Agree(v, w, l - 1)
    BY DEF Tree, Apart
<1>2. \A j \in 1 .. l : j \in 1 .. l - 1 \/ j = l
    OBVIOUS
<1> QED BY <1>1, <1>2 DEF Agree

\* A tree stays one when kmalloc hands frames to somebody else
\* (shell.c, elf.c:155).
LEMMA MoreFrames ==
    ASSUME NEW r, NEW m, NEW n, Tree(r, m, n), NEW k \in Nat, n <= k, r + k <= NoFrame
    PROVE  Tree(r, m, k)
<1>1. r \in Nat /\ n \in Nat \ {0} /\ k \in Nat \ {0}
    BY DEF Tree
<1>2. Allotted(r, n) \subseteq Allotted(r, k)
    BY <1>1 DEF Allotted
<1>3. Within(r, m, k)
    BY <1>2 DEF Tree, Within
<1> QED BY <1>1, <1>3 DEF Tree

\* The PML4 alone is a tree that maps nothing (paging.c:101).
LEMMA EmptyTree ==
    ASSUME NEW r \in Nat, r + 1 <= NoFrame
    PROVE  Tree(r, <<>>, 1) /\ \A v \in Virt : Leaf(r, <<>>, v) = NoFrame
<1> DEFINE m == <<>>
<1>0. DOMAIN m = {} /\ \A x, i : Follow(m, x, i) = NoFrame
    BY DEF Follow
<1> HIDE DEF m
<1>1. ASSUME NEW v, NEW l \in 1 .. Levels
      PROVE  Walk(r, m, v)[l] = IF l = 1 THEN r ELSE NoFrame
  <2>1. CASE l = 1
      BY <2>1, WalkIs
  <2>2. CASE l # 1
    <3> DEFINE j == l - 1
    <3>1. j \in 1 .. Levels - 1 /\ j + 1 = l
        BY <2>2, SizesTyped
    <3> HIDE DEF j
    <3>2. Walk(r, m, v)[j + 1] = NoFrame
        BY <1>0, <3>1, WalkIs
    <3> QED BY <2>2, <3>1, <3>2
  <2> QED BY <2>1, <2>2
<1>2. r \in Allotted(r, 1) /\ NoFrame \in Nat
    BY PagesTyped DEF Allotted
<1>3. Owned(r, m) /\ Solid(m)
    BY <1>0 DEF Owned, Solid
<1>4. Within(r, m, 1)
    BY <1>1, <1>2 DEF Within
<1>5. Apart(r, m)
    BY <1>1 DEF Apart, Agree
<1>6. IsFiniteSet(DOMAIN m)
    BY <1>0, FS_EmptySet
<1>7. \A v \in Virt : Leaf(r, m, v) = NoFrame
    BY <1>0 DEF Leaf
<1> QED BY <1>3, <1>4, <1>5, <1>6, <1>7 DEF Tree, m

-----------------------------------------------------------------------------
\* A write to one entry is seen by a read of that entry and by no other
\* (paging.c:65, 74, 83, 89).
LEMMA FollowPut ==
    ASSUME NEW m, NEW t, NEW i, NEW f, NEW p, p = Put(m, <<t, i>>, f), NEW x, NEW j
    PROVE  Follow(p, x, j) = IF x = t /\ j = i THEN f ELSE Follow(m, x, j)
<1>1. /\ DOMAIN p = DOMAIN m \union {<<t, i>>} /\ p[<<t, i>>] = f
      /\ \A e \in DOMAIN m : e # <<t, i>> => p[e] = m[e]
    BY DEF Put
<1>2. CASE x = t /\ j = i
    BY <1>1, <1>2 DEF Follow
<1>3. CASE ~(x = t /\ j = i)
  <2>1. <<x, j>> # <<t, i>>
      BY <1>3
  <2> QED BY <1>1, <1>3, <2>1 DEF Follow
<1> QED BY <1>2, <1>3

\* A fresh table in an absent entry lengthens the walks that come through that
\* entry by one, and changes no other walk (paging.c:62-67).
LEMMA TableWalks ==
    ASSUME NEW r, NEW m, NEW n, Tree(r, m, n), NEW v \in Virt, NEW l \in 1 .. Levels - 1,
           NEW t, t = Walk(r, m, v)[l], t # NoFrame, <<t, Index(v, l)>> \notin DOMAIN m,
           NEW f, f = r + n, f < NoFrame, NEW p, p = Put(m, <<t, Index(v, l)>>, f),
           NEW w \in Virt, NEW h \in 1 .. Levels
    PROVE  Walk(r, p, w)[h] = IF h = l + 1 /\ Agree(v, w, l) THEN f ELSE Walk(r, m, w)[h]
<1> DEFINE Goal(j) == Walk(r, p, w)[j] = IF j = l + 1 /\ Agree(v, w, l) THEN f ELSE Walk(r, m, w)[j]
           S == {k \in Nat : k + 1 \in 1 .. Levels => Goal(k + 1)}
<1>0. Levels \in Nat /\ l \in 1 .. Levels /\ l # 0
    BY SizesTyped
<1>1. 0 \in S
  <2>1. Goal(1)
      BY <1>0, WalkIs
  <2> HIDE DEF Goal
  <2> QED BY <2>1
<1>2. ASSUME NEW k \in S PROVE k + 1 \in S
  <2> DEFINE j == k + 1
  <2> SUFFICES ASSUME j + 1 \in 1 .. Levels PROVE Goal(j + 1)
      OBVIOUS
  <2>1. j \in 1 .. Levels - 1 /\ j \in 1 .. Levels /\ Goal(j)
      BY <1>0
  <2> HIDE DEF j
  <2> DEFINE x == Walk(r, m, w)[j]
             i == Index(w, j)
  <2>2. Walk(r, p, w)[j + 1] = Follow(p, Walk(r, p, w)[j], i) /\ Walk(r, m, w)[j + 1] = Follow(m, x, i)
      BY <2>1, WalkIs
  <2>3. CASE j = l + 1 /\ Agree(v, w, l)
    <3>1. Walk(r, p, w)[j] = f
        BY <2>1, <2>3
    <3>2. f \notin Allotted(r, n) /\ f # t /\ NoFrame \notin Allotted(r, n) /\ NoFrame # t
      <4>1. t \in Allotted(r, n)
          BY <1>0 DEF Tree, Within
      <4> QED BY <4>1 DEF Allotted, Tree
    <3>3. Follow(p, f, i) = NoFrame
      <4>1. <<f, i>> \notin DOMAIN m
          BY <3>2, NoEntry
      <4> QED BY <3>2, <4>1, FollowPut DEF Follow
    <3>4. Walk(r, m, w)[l] = t
      <4>1. Agree(v, w, l - 1)
          BY <2>3, <1>0 DEF Agree
      <4> QED BY <1>0, <4>1, AgreeWalk
    <3>5. x = NoFrame
      <4>1. x = Follow(m, t, Index(w, l))
          BY <2>3, <3>4, WalkIs
      <4>2. Index(w, l) = Index(v, l)
          BY <2>3, <1>0 DEF Agree
      <4> QED BY <4>1, <4>2 DEF Follow
    <3>6. Follow(m, x, i) = NoFrame
        BY <3>2, <3>5, NoEntry DEF Follow
    <3>7. j + 1 # l + 1
        BY <2>1, <2>3
    <3> QED BY <2>2, <3>1, <3>3, <3>6, <3>7
  <2>4. CASE ~(j = l + 1 /\ Agree(v, w, l))
    <3>1. Walk(r, p, w)[j] = x
        BY <2>1, <2>4
    <3>2. Walk(r, p, w)[j + 1] = IF x = t /\ i = Index(v, l) THEN f ELSE Follow(m, x, i)
        BY <2>2, <3>1, FollowPut
    <3>3. x = t /\ i = Index(v, l) => j + 1 = l + 1 /\ Agree(v, w, l)
      <4> SUFFICES ASSUME x = t, i = Index(v, l) PROVE j = l /\ Agree(v, w, l)
          OBVIOUS
      <4>1. Walk(r, m, v)[l] = Walk(r, m, w)[j] /\ Index(v, l) = Index(w, j)
          OBVIOUS
      <4> HIDE DEF x, i
      <4> QED BY <1>0, <2>1, <4>1, OneEntry
    <3>4. j + 1 = l + 1 /\ Agree(v, w, l) => x = t /\ i = Index(v, l)
      <4> SUFFICES ASSUME j + 1 = l + 1, Agree(v, w, l) PROVE x = t /\ i = Index(v, l)
          OBVIOUS
      <4>1. j = l
          BY <2>1
      <4>2. Agree(v, w, l - 1) /\ Index(v, l) = Index(w, l)
          BY <1>0 DEF Agree
      <4>3. Walk(r, m, v)[l] = Walk(r, m, w)[l]
          BY <1>0, <4>2, AgreeWalk
      <4> QED BY <4>1, <4>2, <4>3
    <3> HIDE DEF x, i
    <3> QED BY <2>2, <3>2, <3>3, <3>4 DEF x, i
  <2> QED BY <2>3, <2>4
<1>3. S \in SUBSET Nat
    OBVIOUS
<1> HIDE DEF S
<1>4. S = Nat
    BY <1>1, <1>2, <1>3, SetInduction
<1> DEFINE j == h - 1
<1>5. j \in Nat /\ j + 1 = h /\ j + 1 \in 1 .. Levels
    BY <1>0
<1> HIDE DEF j, Goal
<1>6. Goal(h)
    BY <1>4, <1>5 DEF S
<1> QED BY <1>6 DEF Goal

\* With a fresh table in an absent entry (paging.c:62-85, 470-495) the tables
\* are still a tree and no page's translation has changed.
LEMMA TableAdded ==
    ASSUME NEW r, NEW m, NEW n, Tree(r, m, n), NEW v \in Virt, NEW l \in 1 .. Levels - 1,
           NEW t, t = Walk(r, m, v)[l], t # NoFrame, <<t, Index(v, l)>> \notin DOMAIN m,
           NEW f, f = r + n, f < NoFrame, NEW p, p = Put(m, <<t, Index(v, l)>>, f)
    PROVE  /\ Tree(r, p, n + 1)
           /\ \A w \in Virt, h \in 1 .. Levels :
                 Walk(r, p, w)[h] = IF h = l + 1 /\ Agree(v, w, l) THEN f ELSE Walk(r, m, w)[h]
           /\ \A w \in Virt : Leaf(r, p, w) = Leaf(r, m, w)
<1>0. Levels \in Nat /\ l \in 1 .. Levels /\ l + 1 \in 1 .. Levels
    BY SizesTyped
<1>1. \A w \in Virt, h \in 1 .. Levels :
        Walk(r, p, w)[h] = IF h = l + 1 /\ Agree(v, w, l) THEN f ELSE Walk(r, m, w)[h]
    BY TableWalks
<1>2. /\ r \in Nat /\ n \in Nat \ {0} /\ n + 1 \in Nat \ {0} /\ f \notin Allotted(r, n)
      /\ r + (n + 1) <= NoFrame /\ NoFrame \in Nat /\ NoFrame \notin Allotted(r, n)
      /\ Allotted(r, n + 1) = Allotted(r, n) \union {f} /\ t \in Allotted(r, n)
  <2>1. r \in Nat /\ n \in Nat \ {0} /\ NoFrame \in Nat /\ r + n <= NoFrame
      BY PagesTyped DEF Tree
  <2>2. t \in Allotted(r, n)
      BY <1>0 DEF Tree, Within
  <2> QED BY <2>1, <2>2 DEF Allotted
<1>3. \A w \in Virt, h \in 1 .. Levels : Walk(r, m, w)[h] # f
    BY <1>2 DEF Tree, Within
<1>4. IsFiniteSet(DOMAIN p)
  <2>1. DOMAIN p = DOMAIN m \union {<<t, Index(v, l)>>}
      BY DEF Put
  <2> QED BY <2>1, FS_AddElement DEF Tree
<1>5. Within(r, p, n + 1) /\ Solid(p)
  <2>1. Within(r, p, n + 1)
      BY <1>1, <1>2 DEF Tree, Within
  <2>2. Solid(p)
    <3>1. f # NoFrame
        BY <1>2
    <3> QED BY <3>1 DEF Tree, Solid, Put
  <2> QED BY <2>1, <2>2
<1>6. Owned(r, p)
  <2> SUFFICES ASSUME NEW e \in DOMAIN p
               PROVE  \E w \in Virt, h \in 1 .. Levels :
                         Walk(r, p, w)[h] # NoFrame /\ e = <<Walk(r, p, w)[h], Index(w, h)>>
      BY DEF Owned
  <2>1. CASE e = <<t, Index(v, l)>>
    <3>1. Walk(r, p, v)[l] = t
        BY <1>0, <1>1
    <3> QED BY <1>0, <2>1, <3>1
  <2>2. CASE e \in DOMAIN m
    <3>1. PICK w \in Virt, h \in 1 .. Levels :
             Walk(r, m, w)[h] # NoFrame /\ e = <<Walk(r, m, w)[h], Index(w, h)>>
        BY <2>2 DEF Tree, Owned
    <3>2. ~(h = l + 1 /\ Agree(v, w, l))
      <4> SUFFICES ASSUME h = l + 1, Agree(v, w, l) PROVE FALSE
          OBVIOUS
      <4>1. Walk(r, m, v)[l] = Walk(r, m, w)[l] /\ Index(v, l) = Index(w, l)
        <5>1. Agree(v, w, l - 1) /\ Index(v, l) = Index(w, l)
            BY <1>0 DEF Agree
        <5> QED BY <1>0, <5>1, AgreeWalk
      <4>2. Walk(r, m, w)[l + 1] = NoFrame
          BY <4>1, WalkIs DEF Follow
      <4> QED BY <3>1, <4>2
    <3>3. Walk(r, p, w)[h] = Walk(r, m, w)[h]
        BY <1>1, <3>2
    <3> QED BY <3>1, <3>3
  <2>3. DOMAIN p = DOMAIN m \union {<<t, Index(v, l)>>}
      BY DEF Put
  <2> QED BY <2>1, <2>2, <2>3
<1>7. Apart(r, p)
  <2> SUFFICES ASSUME NEW w \in Virt, NEW x \in Virt, NEW h \in 1 .. Levels, NEW k \in 1 .. Levels,
                      Walk(r, p, w)[h] = Walk(r, p, x)[k], Walk(r, p, w)[h] # NoFrame
               PROVE  h = k /\ Agree(w, x, h - 1)
      BY DEF Apart, Agree
  <2>1. CASE h = l + 1 /\ Agree(v, w, l)
    <3>1. Walk(r, p, x)[k] = f
        BY <1>1, <2>1
    <3>2. k = l + 1 /\ Agree(v, x, l)
        BY <1>1, <1>3, <3>1
    <3>3. h - 1 = l
        BY <1>0, <2>1
    <3> QED BY <2>1, <3>2, <3>3 DEF Agree
  <2>2. CASE ~(h = l + 1 /\ Agree(v, w, l))
    <3>1. Walk(r, p, w)[h] = Walk(r, m, w)[h]
        BY <1>1, <2>2
    <3>2. Walk(r, p, x)[k] = Walk(r, m, x)[k]
        BY <1>1, <1>3, <3>1
    <3> QED BY <3>1, <3>2 DEF Tree, Apart
  <2> QED BY <2>1, <2>2
<1>8. ASSUME NEW w \in Virt PROVE Leaf(r, p, w) = Leaf(r, m, w)
  <2> DEFINE x == Walk(r, m, w)[Levels]
             i == Index(w, Levels)
  <2>0. Levels \in 1 .. Levels /\ l # Levels
      BY <1>0
  <2>1. CASE Levels = l + 1 /\ Agree(v, w, l)
    <3>1. Walk(r, p, w)[Levels] = f
        BY <1>1, <2>0, <2>1
    <3>2. Walk(r, m, v)[l] = Walk(r, m, w)[l] /\ Index(v, l) = Index(w, l)
      <4>1. Agree(v, w, l - 1) /\ Index(v, l) = Index(w, l)
          BY <1>0, <2>1 DEF Agree
      <4> QED BY <1>0, <4>1, AgreeWalk
    <3>3. x = NoFrame
        BY <2>1, <3>2, WalkIs DEF Follow
    <3>4. Follow(m, x, i) = NoFrame /\ Follow(m, f, i) = NoFrame
        BY <1>2, <3>3, NoEntry DEF Follow
    <3>5. Follow(p, f, i) = NoFrame
        BY <1>2, <3>4, FollowPut
    <3> QED BY <3>1, <3>4, <3>5 DEF Leaf
  <2>2. CASE ~(Levels = l + 1 /\ Agree(v, w, l))
    <3>1. Walk(r, p, w)[Levels] = x
        BY <1>1, <2>0, <2>2
    <3>2. Follow(p, x, i) = IF x = t /\ i = Index(v, l) THEN f ELSE Follow(m, x, i)
        BY FollowPut
    <3>3. ~(x = t /\ i = Index(v, l))
      <4> SUFFICES ASSUME x = t, i = Index(v, l) PROVE FALSE
          OBVIOUS
      <4>1. Walk(r, m, v)[l] = Walk(r, m, w)[Levels] /\ Index(v, l) = Index(w, Levels)
          OBVIOUS
      <4>2. l = Levels
          BY <1>0, <2>0, <4>1, OneEntry
      <4> QED BY <2>0, <4>2
    <3> HIDE DEF x, i
    <3>4. Follow(p, x, i) = Follow(m, x, i)
        BY <3>2, <3>3
    <3> QED BY <3>1, <3>4 DEF Leaf, x, i
  <2> QED BY <2>1, <2>2
<1>9. Tree(r, p, n + 1)
    BY <1>2, <1>4, <1>5, <1>6, <1>7 DEF Tree
<1> QED BY <1>1, <1>8, <1>9

\* A change of one entry of a lowest table changes no table and no page's
\* translation but the one the entry belongs to (paging.c:89, 550, 567).
LEMMA LeafChanged ==
    ASSUME NEW r, NEW m, NEW n, Tree(r, m, n), NEW v \in Virt,
           NEW t, t = Walk(r, m, v)[Levels], t # NoFrame, NEW i, i = Index(v, Levels), NEW p,
           \A x, j : (x = t /\ j = i) \/ Follow(p, x, j) = Follow(m, x, j),
           DOMAIN p \subseteq DOMAIN m \union {<<t, i>>}, Solid(p)
    PROVE  /\ Tree(r, p, n)
           /\ \A w \in Virt, h \in 1 .. Levels : Walk(r, p, w)[h] = Walk(r, m, w)[h]
           /\ \A w \in Virt : Leaf(r, p, w) = IF Same(v, w) THEN Follow(p, t, i) ELSE Leaf(r, m, w)
<1>0. Levels \in Nat /\ Levels \in 1 .. Levels
    BY SizesTyped
<1>1. ASSUME NEW w \in Virt, NEW h \in 1 .. Levels PROVE Walk(r, p, w)[h] = Walk(r, m, w)[h]
  <2> DEFINE S == {k \in Nat : k + 1 \in 1 .. Levels => Walk(r, p, w)[k + 1] = Walk(r, m, w)[k + 1]}
  <2>1. 0 \in S
      BY WalkIs
  <2>2. ASSUME NEW k \in S PROVE k + 1 \in S
    <3> DEFINE j == k + 1
    <3> SUFFICES ASSUME j + 1 \in 1 .. Levels PROVE Walk(r, p, w)[j + 1] = Walk(r, m, w)[j + 1]
        OBVIOUS
    <3>1. j \in 1 .. Levels - 1 /\ j \in 1 .. Levels /\ j # Levels /\ Walk(r, p, w)[j] = Walk(r, m, w)[j]
        BY <1>0
    <3> HIDE DEF j
    <3> DEFINE x == Walk(r, m, w)[j]
               y == Index(w, j)
    <3>2. Walk(r, p, w)[j + 1] = Follow(p, x, y) /\ Walk(r, m, w)[j + 1] = Follow(m, x, y)
        BY <3>1, WalkIs
    <3>3. ~(x = t /\ y = i)
      <4> SUFFICES ASSUME x = t, y = i PROVE FALSE
          OBVIOUS
      <4>1. Walk(r, m, v)[Levels] = Walk(r, m, w)[j] /\ Index(v, Levels) = Index(w, j)
          OBVIOUS
      <4>2. Levels = j
          BY <1>0, <3>1, <4>1, OneEntry
      <4> QED BY <3>1, <4>2
    <3> QED BY <3>2, <3>3
  <2>3. S \in SUBSET Nat
      OBVIOUS
  <2> HIDE DEF S
  <2>4. S = Nat
      BY <2>1, <2>2, <2>3, SetInduction
  <2> DEFINE j == h - 1
  <2>5. j \in Nat /\ j + 1 = h /\ j + 1 \in 1 .. Levels
      BY <1>0
  <2> HIDE DEF j
  <2> QED BY <2>4, <2>5 DEF S
<1>2. ASSUME NEW w \in Virt
      PROVE  Leaf(r, p, w) = IF Same(v, w) THEN Follow(p, t, i) ELSE Leaf(r, m, w)
  <2> DEFINE x == Walk(r, m, w)[Levels]
             y == Index(w, Levels)
  <2>1. Leaf(r, p, w) = Follow(p, x, y)
      BY <1>0, <1>1 DEF Leaf
  <2>2. CASE Same(v, w)
    <3>1. Agree(v, w, Levels - 1) /\ y = i
        BY <1>0, <2>2 DEF Same, Agree
    <3>2. x = t
        BY <1>0, <3>1, AgreeWalk
    <3> QED BY <2>1, <2>2, <3>1, <3>2
  <2>3. CASE ~Same(v, w)
    <3>1. ~(x = t /\ y = i)
      <4> SUFFICES ASSUME x = t, y = i PROVE FALSE
          OBVIOUS
      <4>1. Walk(r, m, v)[Levels] = Walk(r, m, w)[Levels] /\ Index(v, Levels) = Index(w, Levels)
          OBVIOUS
      <4>2. Agree(v, w, Levels)
          BY <1>0, <4>1, OneEntry
      <4> QED BY <2>3, <4>2 DEF Same
    <3> QED BY <2>1, <2>3, <3>1 DEF Leaf
  <2> QED BY <2>2, <2>3
<1>3. IsFiniteSet(DOMAIN p)
  <2>1. IsFiniteSet(DOMAIN m \union {<<t, i>>})
      BY FS_AddElement DEF Tree
  <2> QED BY <2>1, FS_Subset
<1>4. Owned(r, p)
  <2> SUFFICES ASSUME NEW e \in DOMAIN p
               PROVE  \E w \in Virt, h \in 1 .. Levels :
                         Walk(r, p, w)[h] # NoFrame /\ e = <<Walk(r, p, w)[h], Index(w, h)>>
      BY DEF Owned
  <2>1. \E w \in Virt, h \in 1 .. Levels :
           Walk(r, m, w)[h] # NoFrame /\ e = <<Walk(r, m, w)[h], Index(w, h)>>
    <3>1. CASE e \in DOMAIN m
        BY <3>1 DEF Tree, Owned
    <3>2. CASE e = <<t, i>>
        BY <1>0, <3>2
    <3> QED BY <3>1, <3>2
  <2> QED BY <1>1, <2>1
<1>5. Within(r, p, n)
    BY <1>1 DEF Tree, Within
<1>6. Apart(r, p)
    BY <1>1 DEF Tree, Apart
<1> QED BY <1>1, <1>2, <1>3, <1>4, <1>5, <1>6 DEF Tree

\* So does a write of a frame to it (paging.c:89, 550).
LEMMA LeafPut ==
    ASSUME NEW r, NEW m, NEW n, Tree(r, m, n), NEW v \in Virt,
           NEW t, t = Walk(r, m, v)[Levels], t # NoFrame, NEW f, f # NoFrame, NEW p,
           p = Put(m, <<t, Index(v, Levels)>>, f)
    PROVE  /\ Tree(r, p, n)
           /\ \A w \in Virt, h \in 1 .. Levels : Walk(r, p, w)[h] = Walk(r, m, w)[h]
           /\ \A w \in Virt : Leaf(r, p, w) = IF Same(v, w) THEN f ELSE Leaf(r, m, w)
<1> DEFINE i == Index(v, Levels)
<1>1. \A x, j : Follow(p, x, j) = IF x = t /\ j = i THEN f ELSE Follow(m, x, j)
    BY FollowPut
<1>2. DOMAIN p \subseteq DOMAIN m \union {<<t, i>>}
    BY DEF Put
<1>3. Follow(p, t, i) = f
    BY <1>1
<1>5. Solid(p)
    BY DEF Tree, Solid, Put
<1>4. \A x, j : (x = t /\ j = i) \/ Follow(p, x, j) = Follow(m, x, j)
    BY <1>1
<1> HIDE DEF i
<1> QED BY <1>2, <1>3, <1>4, <1>5, LeafChanged DEF i

\* The entries m with e cleared.
Without(m, e) == [x \in DOMAIN m \ {e} |-> m[x]]

\* So does clearing it (paging.c:567).
LEMMA LeafCleared ==
    ASSUME NEW r, NEW m, NEW n, Tree(r, m, n), NEW v \in Virt,
           NEW t, t = Walk(r, m, v)[Levels], t # NoFrame, NEW p,
           p = Without(m, <<t, Index(v, Levels)>>)
    PROVE  /\ Tree(r, p, n)
           /\ \A w \in Virt, h \in 1 .. Levels : Walk(r, p, w)[h] = Walk(r, m, w)[h]
           /\ \A w \in Virt : Leaf(r, p, w) = IF Same(v, w) THEN NoFrame ELSE Leaf(r, m, w)
<1> DEFINE i == Index(v, Levels)
<1>1. ASSUME NEW x, NEW j PROVE (x = t /\ j = i) \/ Follow(p, x, j) = Follow(m, x, j)
  <2> SUFFICES ASSUME ~(x = t /\ j = i) PROVE Follow(p, x, j) = Follow(m, x, j)
      OBVIOUS
  <2> DEFINE e == <<x, j>>
  <2>1. e # <<t, i>>
      OBVIOUS
  <2>2. (e \in DOMAIN p <=> e \in DOMAIN m) /\ (e \in DOMAIN m => p[e] = m[e])
      BY <2>1 DEF Without
  <2> QED BY <2>2 DEF Follow
<1>2. DOMAIN p \subseteq DOMAIN m \union {<<t, i>>}
    BY DEF Without
<1>3. Follow(p, t, i) = NoFrame
    BY DEF Follow, Without
<1>4. Solid(p)
    BY DEF Tree, Solid, Without
<1> HIDE DEF i
<1> QED BY <1>1, <1>2, <1>3, <1>4, LeafChanged DEF i

-----------------------------------------------------------------------------
\* One level of Grow: the table that is there, or a fresh one.
Deeper(r, i, p) ==
    IF <<p.table, i>> \in DOMAIN p.mem
    THEN [p EXCEPT !.table = p.mem[<<p.table, i>>]]
    ELSE [mem |-> Put(p.mem, <<p.table, i>>, r + p.used),
          used |-> p.used + 1,
          table |-> r + p.used]

\* g holds what Grow has done at each of the first d levels.
IsGrowth(d, b, r, m, n, v, g) ==
    g = [l \in 1 .. d |-> IF l = 1 THEN [mem |-> m, used |-> n, table |-> r]
                          ELSE Deeper(b, Index(v, l - 1), g[l - 1])]

\* The equation of Grow has a solution, by induction over the levels
\* (paging.c:61-86, 519-537).
LEMMA GrowthExists ==
    ASSUME NEW b, NEW r, NEW m, NEW n, NEW v, NEW d \in Nat
    PROVE  \E g : IsGrowth(d, b, r, m, n, v, g)
<1> DEFINE First == [mem |-> m, used |-> n, table |-> r]
           S == {k \in Nat : \E g : IsGrowth(k, b, r, m, n, v, g)}
<1>1. 0 \in S
  <2>1. 1 .. 0 = {}
      OBVIOUS
  <2> DEFINE g == [l \in 1 .. 0 |-> First]
  <2>2. g = [l \in 1 .. 0 |-> IF l = 1 THEN First ELSE Deeper(b, Index(v, l - 1), g[l - 1])]
      BY <2>1
  <2> HIDE DEF g
  <2> QED BY <2>2 DEF IsGrowth
<1>2. ASSUME NEW k \in S PROVE k + 1 \in S
  <2>1. PICK g : g = [l \in 1 .. k |-> IF l = 1 THEN First ELSE Deeper(b, Index(v, l - 1), g[l - 1])]
      BY DEF IsGrowth
  <2>2. k \in Nat /\ k + 1 \in Nat
      OBVIOUS
  <2> DEFINE h == [l \in 1 .. k + 1 |-> IF l = 1 THEN First ELSE Deeper(b, Index(v, l - 1), g[l - 1])]
  <2> HIDE DEF First
  <2>3. ASSUME NEW l \in 1 .. k + 1, l # 1 PROVE h[l - 1] = g[l - 1]
    <3>1. l - 1 \in 1 .. k /\ l - 1 \in 1 .. k + 1
        BY <2>2, <2>3
    <3>2. g[l - 1] = IF l - 1 = 1 THEN First ELSE Deeper(b, Index(v, l - 1 - 1), g[l - 1 - 1])
        BY <2>1, <3>1
    <3>3. h[l - 1] = IF l - 1 = 1 THEN First ELSE Deeper(b, Index(v, l - 1 - 1), g[l - 1 - 1])
        BY <3>1
    <3> QED BY <3>2, <3>3
  <2>4. h = [l \in 1 .. k + 1 |-> IF l = 1 THEN First ELSE Deeper(b, Index(v, l - 1), h[l - 1])]
    <3> SUFFICES ASSUME NEW l \in 1 .. k + 1
                 PROVE  (IF l = 1 THEN First ELSE Deeper(b, Index(v, l - 1), g[l - 1]))
                         = (IF l = 1 THEN First ELSE Deeper(b, Index(v, l - 1), h[l - 1]))
        OBVIOUS
    <3> HIDE DEF h
    <3> QED BY <2>3
  <2> HIDE DEF h
  <2>5. k + 1 \in Nat /\ IsGrowth(k + 1, b, r, m, n, v, h)
      BY <2>2, <2>4 DEF IsGrowth, First
  <2> QED BY <2>5
<1>3. S \in SUBSET Nat
    OBVIOUS
<1> HIDE DEF S
<1>4. S = Nat
    BY <1>1, <1>2, <1>3, SetInduction
<1> QED BY <1>4 DEF S

\* What Grow has achieved when it has come to level l: entries a, k frames, and
\* table t.
Grown(r, m, n, v, l, a, k, t) ==
    /\ k \in Nat /\ n <= k /\ k <= n + l - 1
    /\ Tree(r, a, k)
    /\ t = Walk(r, a, v)[l] /\ t # NoFrame
    /\ \A w \in Virt : Leaf(r, a, w) = Leaf(r, m, w)
    /\ \A w \in Virt, h \in 1 .. Levels :
          Walk(r, a, w)[h] = Walk(r, m, w)[h] \/ Walk(r, a, w)[h] \in r + n .. r + k - 1
    /\ \A e \in DOMAIN a : a[e] \in r + n .. r + k - 1 \/ (e \in DOMAIN m /\ a[e] = m[e])

\* At the root nothing is done yet (paging.c:62).
LEMMA GrownFirst ==
    ASSUME NEW r, NEW m, NEW n, Tree(r, m, n), NEW v \in Virt
    PROVE  Grown(r, m, n, v, 1, m, n, r)
<1>1. r \in Nat /\ n \in Nat \ {0} /\ r + n <= NoFrame /\ NoFrame \in Nat
    BY PagesTyped DEF Tree
<1> QED BY <1>1, WalkIs DEF Grown

\* One level further down a table is found or made (paging.c:70-77), in entries
\* that are a tree still.
LEMMA GrownDeeper ==
    ASSUME NEW r, NEW m, NEW n, Tree(r, m, n), NEW v \in Virt, r + n + Levels - 1 <= NoFrame,
           NEW l \in 1 .. Levels - 1, NEW a, NEW k, NEW t, Grown(r, m, n, v, l, a, k, t),
           NEW p, p = [mem |-> a, used |-> k, table |-> t], NEW q, q = Deeper(r, Index(v, l), p)
    PROVE  \E b, j, u : q = [mem |-> b, used |-> j, table |-> u] /\ Grown(r, m, n, v, l + 1, b, j, u)
<1> DEFINE i == Index(v, l)
           e == <<t, i>>
           f == r + k
<1>0. /\ Levels \in Nat /\ NoFrame \in Nat /\ l \in 1 .. Levels /\ l + 1 \in 1 .. Levels
      /\ r \in Nat /\ n \in Nat \ {0} /\ k \in Nat /\ n <= k /\ k <= n + l - 1
    BY SizesTyped, PagesTyped DEF Tree, Grown
<1>1. /\ Tree(r, a, k) /\ t = Walk(r, a, v)[l] /\ t # NoFrame
      /\ \A w \in Virt : Leaf(r, a, w) = Leaf(r, m, w)
      /\ \A w \in Virt, h \in 1 .. Levels :
            Walk(r, a, w)[h] = Walk(r, m, w)[h] \/ Walk(r, a, w)[h] \in r + n .. r + k - 1
      /\ \A x \in DOMAIN a : a[x] \in r + n .. r + k - 1 \/ (x \in DOMAIN m /\ a[x] = m[x])
    BY DEF Grown
<1>2. p.mem = a /\ p.used = k /\ p.table = t
    OBVIOUS
<1>3. CASE e \in DOMAIN a
  <2> DEFINE u == a[e]
  <2>1. q = [mem |-> a, used |-> k, table |-> u]
    <3>1. q = [p EXCEPT !.table = u]
        BY <1>2, <1>3 DEF Deeper
    <3> HIDE DEF u
    <3> QED BY <3>1
  <2>2. u = Walk(r, a, v)[l + 1]
      BY <1>1, <1>3, WalkIs DEF Follow
  <2>3. u # NoFrame
      BY <1>1, <1>3 DEF Tree, Solid
  <2>4. k <= n + (l + 1) - 1
      BY <1>0
  <2> HIDE DEF u
  <2>5. Grown(r, m, n, v, l + 1, a, k, u)
      BY <1>0, <1>1, <2>2, <2>3, <2>4 DEF Grown
  <2> QED BY <2>1, <2>5
<1>4. CASE e \notin DOMAIN a
  <2> DEFINE b == Put(a, e, f)
  <2>1. q = [mem |-> b, used |-> k + 1, table |-> f]
      BY <1>2, <1>4 DEF Deeper
  <2>2. f < NoFrame
      BY <1>0
  <2>3. /\ Tree(r, b, k + 1)
        /\ \A w \in Virt, h \in 1 .. Levels :
              Walk(r, b, w)[h] = IF h = l + 1 /\ Agree(v, w, l) THEN f ELSE Walk(r, a, w)[h]
        /\ \A w \in Virt : Leaf(r, b, w) = Leaf(r, a, w)
    <3> HIDE DEF f, b
    <3>1. f = r + k /\ b = Put(a, <<t, Index(v, l)>>, f)
        BY DEF f, b
    <3> QED BY <1>1, <1>4, <2>2, <3>1, TableAdded
  <2>4. Walk(r, b, v)[l + 1] = f
      BY <1>0, <2>3 DEF Agree
  <2>5. f \in r + n .. r + (k + 1) - 1 /\ \A x \in r + n .. r + k - 1 : x \in r + n .. r + (k + 1) - 1
      BY <1>0
  <2>6. DOMAIN b = DOMAIN a \union {e} /\ b[e] = f /\ \A x \in DOMAIN a : x # e => b[x] = a[x]
      BY DEF Put
  <2>7. k + 1 \in Nat /\ n <= k + 1 /\ k + 1 <= n + (l + 1) - 1
      BY <1>0
  <2> HIDE DEF b, f
  <2>8. \A w \in Virt : Leaf(r, b, w) = Leaf(r, m, w)
      BY <1>1, <2>3
  <2>9. \A w \in Virt, h \in 1 .. Levels :
           Walk(r, b, w)[h] = Walk(r, m, w)[h] \/ Walk(r, b, w)[h] \in r + n .. r + (k + 1) - 1
      BY <1>1, <2>3, <2>5
  <2>10. \A x \in DOMAIN b : b[x] \in r + n .. r + (k + 1) - 1 \/ (x \in DOMAIN m /\ b[x] = m[x])
      BY <1>1, <2>5, <2>6
  <2>11. Grown(r, m, n, v, l + 1, b, k + 1, f)
      BY <2>2, <2>3, <2>4, <2>7, <2>8, <2>9, <2>10, <1>0 DEF Grown
  <2> QED BY <2>1, <2>11
<1> QED BY <1>3, <1>4

\* The tables of a page are all there after map_range's or get_next_table's
\* three levels (paging.c:61-86, 519-537), the entries are a tree, and no page's
\* translation has changed: by induction over the levels.
LEMMA GrowIs ==
    ASSUME NEW r, r = layout.first, NEW m, NEW n, Tree(r, m, n), NEW v \in Virt,
           r + n + Levels - 1 <= NoFrame
    PROVE  \E a, k, t : /\ Grow(m, n, v) = [mem |-> a, used |-> k, table |-> t]
                        /\ Grown(r, m, n, v, Levels, a, k, t)
<1>0. Levels \in Nat /\ Levels \in 1 .. Levels /\ Root = r /\ \A k \in Nat : Frame(k) = r + k
  <2>1. r + 0 = r
      BY DEF Tree
  <2> QED BY <2>1, SizesTyped DEF Root, Frame
<1>1. PICK g : /\ Grow(m, n, v) = g[Levels]
               /\ g = [l \in 1 .. Levels |-> IF l = 1 THEN [mem |-> m, used |-> n, table |-> r]
                                             ELSE Deeper(r, Index(v, l - 1), g[l - 1])]
  <2>1. PICK h : IsGrowth(Levels, layout.first, Root, m, n, v, h)
      BY <1>0, GrowthExists
  <2> DEFINE g == CHOOSE x : IsGrowth(Levels, layout.first, Root, m, n, v, x)
  <2>2. IsGrowth(Levels, layout.first, Root, m, n, v, g)
      BY <2>1
  <2>3. Grow(m, n, v) = g[Levels]
      BY DEF IsGrowth, Grow, Deeper, Frame
  <2> HIDE DEF g
  <2>4. g = [l \in 1 .. Levels |-> IF l = 1 THEN [mem |-> m, used |-> n, table |-> Root]
                                   ELSE Deeper(layout.first, Index(v, l - 1), g[l - 1])]
      BY <2>2 DEF IsGrowth
  <2> QED BY <1>0, <2>3, <2>4
<1>2. /\ g[1] = [mem |-> m, used |-> n, table |-> r]
      /\ \A l \in 1 .. Levels - 1 : g[l + 1] = Deeper(r, Index(v, l), g[l])
  <2> DEFINE F == [mem |-> m, used |-> n, table |-> r]
  <2> HIDE DEF F
  <2>1. \A k \in 1 .. Levels : g[k] = IF k = 1 THEN F ELSE Deeper(r, Index(v, k - 1), g[k - 1])
      BY <1>1 DEF F
  <2>2. g[1] = F
      BY <1>0, <2>1
  <2>3. ASSUME NEW l \in 1 .. Levels - 1 PROVE g[l + 1] = Deeper(r, Index(v, l), g[l])
    <3> DEFINE k == l + 1
               j == k - 1
    <3>1. k \in 1 .. Levels /\ k # 1 /\ j = l
        BY <1>0
    <3> HIDE DEF k
    <3>2. g[k] = Deeper(r, Index(v, j), g[j])
        BY <2>1, <3>1
    <3> QED BY <3>1, <3>2 DEF k
  <2> QED BY <2>2, <2>3 DEF F
<1> DEFINE Sound(l) == \E a, k, t : /\ g[l] = [mem |-> a, used |-> k, table |-> t]
                                    /\ Grown(r, m, n, v, l, a, k, t)
           S == {j \in Nat : j + 1 \in 1 .. Levels => Sound(j + 1)}
<1>3. 0 \in S
  <2>1. Sound(1)
      BY <1>2, GrownFirst
  <2> HIDE DEF Sound
  <2> QED BY <2>1
<1> HIDE DEF Sound
<1>4. ASSUME NEW j \in S PROVE j + 1 \in S
  <2> DEFINE l == j + 1
  <2> SUFFICES ASSUME l + 1 \in 1 .. Levels PROVE Sound(l + 1)
      OBVIOUS
  <2>1. l \in 1 .. Levels - 1 /\ Sound(l)
      BY <1>0
  <2> HIDE DEF l
  <2>2. PICK a, k, t : g[l] = [mem |-> a, used |-> k, table |-> t] /\ Grown(r, m, n, v, l, a, k, t)
      BY <2>1 DEF Sound
  <2>3. g[l + 1] = Deeper(r, Index(v, l), g[l])
      BY <1>2, <2>1
  <2>4. \E b, i, u : g[l + 1] = [mem |-> b, used |-> i, table |-> u]
                     /\ Grown(r, m, n, v, l + 1, b, i, u)
      BY <2>1, <2>2, <2>3, GrownDeeper
  <2> QED BY <2>4 DEF Sound
<1>5. S \in SUBSET Nat
    OBVIOUS
<1> HIDE DEF S
<1>6. S = Nat
    BY <1>3, <1>4, <1>5, SetInduction
<1>7. Sound(Levels)
  <2> DEFINE j == Levels - 1
  <2>1. j \in Nat /\ j + 1 = Levels
      BY <1>0, SizesTyped
  <2> HIDE DEF j
  <2>2. Sound(j + 1)
      BY <1>0, <1>6, <2>1 DEF S
  <2> QED BY <2>1, <2>2
<1> QED BY <1>1, <1>7 DEF Sound

\* Entries that were written hold page-sized frame numbers (paging.c:65-89).
LEMMA ValuesTyped ==
    ASSUME NEW r, NEW m, NEW n, NEW v, NEW a, NEW k, NEW t, Grown(r, m, n, v, Levels, a, k, t),
           r \in Nat, n \in Nat, \A x \in DOMAIN m : m[x] \in Virt, NEW e, NEW f \in Virt, NEW p, p = Put(a, e, f)
    PROVE  p = [x \in DOMAIN p |-> p[x]] /\ \A x \in DOMAIN p : p[x] \in Virt
<1>1. k \in Nat /\ r + k <= NoFrame /\ NoFrame \in Nat /\ NoFrame = VirtPages
    BY PagesTyped DEF Grown, Tree
<1>2. \A y \in r + n .. r + k - 1 : y \in Virt
    BY <1>1 DEF Virt
<1>3. \A x \in DOMAIN a : a[x] \in Virt
    BY <1>2 DEF Grown
<1>4. p = [x \in DOMAIN a \union {e} |-> IF x = e THEN f ELSE a[x]]
    BY DEF Put
<1> QED BY <1>3, <1>4

-----------------------------------------------------------------------------
\* g holds the tables of the first n levels, as Tables finds them.
IsLevels(n, r, m, g) ==
    g = [k \in 1 .. n |-> IF k = 1 THEN {r} ELSE {m[e] : e \in {d \in DOMAIN m : d[1] \in g[k - 1]}}]

\* The equation of Tables has a solution, by induction over the levels
\* (paging.c:61-86).
LEMMA LevelsExist ==
    ASSUME NEW r, NEW m, NEW n \in Nat
    PROVE  \E g : IsLevels(n, r, m, g)
<1> DEFINE S == {k \in Nat : \E g : IsLevels(k, r, m, g)}
           Below(X) == {m[e] : e \in {d \in DOMAIN m : d[1] \in X}}
<1>1. 0 \in S
  <2>1. 1 .. 0 = {}
      OBVIOUS
  <2> DEFINE g == [k \in 1 .. 0 |-> {r}]
  <2> HIDE DEF Below
  <2>2. g = [k \in 1 .. 0 |-> IF k = 1 THEN {r} ELSE Below(g[k - 1])]
      BY <2>1
  <2> HIDE DEF g
  <2> QED BY <2>2 DEF IsLevels, Below
<1>2. ASSUME NEW j \in S PROVE j + 1 \in S
  <2>1. PICK g : g = [k \in 1 .. j |-> IF k = 1 THEN {r} ELSE Below(g[k - 1])]
      BY DEF IsLevels
  <2>2. j \in Nat /\ j + 1 \in Nat
      OBVIOUS
  <2> DEFINE h == [k \in 1 .. j + 1 |-> IF k = 1 THEN {r} ELSE Below(g[k - 1])]
  <2> HIDE DEF Below
  <2>3. ASSUME NEW k \in 1 .. j + 1, k # 1 PROVE h[k - 1] = g[k - 1]
    <3>1. k - 1 \in 1 .. j /\ k - 1 \in 1 .. j + 1
        BY <2>2, <2>3
    <3>2. g[k - 1] = IF k - 1 = 1 THEN {r} ELSE Below(g[k - 1 - 1])
        BY <2>1, <3>1
    <3>3. h[k - 1] = IF k - 1 = 1 THEN {r} ELSE Below(g[k - 1 - 1])
        BY <3>1
    <3> QED BY <3>2, <3>3
  <2>4. h = [k \in 1 .. j + 1 |-> IF k = 1 THEN {r} ELSE Below(h[k - 1])]
    <3> SUFFICES ASSUME NEW k \in 1 .. j + 1
                 PROVE  (IF k = 1 THEN {r} ELSE Below(g[k - 1])) = (IF k = 1 THEN {r} ELSE Below(h[k - 1]))
        OBVIOUS
    <3> HIDE DEF h
    <3> QED BY <2>3
  <2> HIDE DEF h
  <2>5. IsLevels(j + 1, r, m, h)
      BY <2>4 DEF IsLevels, Below
  <2> QED BY <2>2, <2>5
<1>3. S \in SUBSET Nat
    OBVIOUS
<1> HIDE DEF S
<1>4. S = Nat
    BY <1>1, <1>2, <1>3, SetInduction
<1> QED BY <1>4 DEF S

\* The tables that walks come to at level l.
Level(r, m, l) == {Walk(r, m, v)[l] : v \in Virt} \ {NoFrame}

\* The entries of one level's tables lead to the next level's (paging.c:68-77).
LEMMA LevelBelow ==
    ASSUME NEW r, NEW m, NEW n, Tree(r, m, n), NEW l \in 1 .. Levels - 1
    PROVE  {m[e] : e \in {d \in DOMAIN m : d[1] \in Level(r, m, l)}} = Level(r, m, l + 1)
<1> DEFINE k == l + 1
<1>1. l \in 1 .. Levels /\ k \in 1 .. Levels
    BY SizesTyped
<1>2. \A v : Walk(r, m, v)[k] = Follow(m, Walk(r, m, v)[l], Index(v, l))
    BY WalkIs
<1> HIDE DEF k
<1>3. ASSUME NEW e \in DOMAIN m, e[1] \in Level(r, m, l) PROVE m[e] \in Level(r, m, k)
  <2>1. PICK w \in Virt : e[1] = Walk(r, m, w)[l] /\ e[1] # NoFrame
      BY <1>3 DEF Level
  <2>2. PICK v \in Virt, j \in 1 .. Levels : Walk(r, m, v)[j] # NoFrame /\ e = <<Walk(r, m, v)[j], Index(v, j)>>
      BY DEF Tree, Owned
  <2>3. e[1] = Walk(r, m, v)[j]
      BY <2>2
  <2>4. j = l
    <3>1. Apart(r, m) /\ l \in 1 .. Levels
        BY <1>1 DEF Tree
    <3>2. Walk(r, m, v)[j] = Walk(r, m, w)[l] /\ Walk(r, m, v)[j] # NoFrame
        BY <2>1, <2>2, <2>3
    <3> QED BY <3>1, <3>2 DEF Apart
  <2>5. m[e] = Walk(r, m, v)[k] /\ m[e] # NoFrame
      BY <1>2, <2>2, <2>4 DEF Follow, Tree, Solid
  <2> QED BY <2>5 DEF Level
<1>4. ASSUME NEW x \in Level(r, m, k) PROVE \E e \in DOMAIN m : e[1] \in Level(r, m, l) /\ x = m[e]
  <2>1. PICK v \in Virt : x = Walk(r, m, v)[k] /\ x # NoFrame
      BY DEF Level
  <2> DEFINE t == Walk(r, m, v)[l]
             e == <<t, Index(v, l)>>
  <2>2. e \in DOMAIN m /\ x = m[e]
      BY <1>2, <2>1 DEF Follow
  <2>3. t \in Allotted(r, n) /\ NoFrame \notin Allotted(r, n)
    <3>1. NoFrame \notin Allotted(r, n)
        BY PagesTyped DEF Allotted, Tree
    <3> HIDE DEF t
    <3>2. t \in Allotted(r, n)
        BY <2>2, NoEntry
    <3> QED BY <3>1, <3>2
  <2>4. e[1] = t /\ t \in Level(r, m, l)
      BY <2>3 DEF Level
  <2> HIDE DEF e
  <2> QED BY <2>2, <2>4
<1>5. {m[e] : e \in {d \in DOMAIN m : d[1] \in Level(r, m, l)}} = Level(r, m, k)
    BY <1>3, <1>4
<1> QED BY <1>5 DEF k

\* Tables finds the tables that walks come to (paging.c:61-86).
LEMMA TablesAre ==
    ASSUME Tree(Root, mem, used), NEW l \in 1 .. Levels
    PROVE  Tables(l) = Level(Root, mem, l)
<1> DEFINE g == CHOOSE x : IsLevels(Levels, Root, mem, x)
           Below(X) == {mem[e] : e \in {d \in DOMAIN mem : d[1] \in X}}
<1>1. IsLevels(Levels, Root, mem, g)
    BY LevelsExist, SizesTyped
<1>2. Tables(l) = g[l]
    BY DEF Tables, IsLevels
<1> HIDE DEF g
<1>3. g = [k \in 1 .. Levels |-> IF k = 1 THEN {Root} ELSE Below(g[k - 1])]
    BY <1>1 DEF IsLevels
<1>4. \A X, j : X = Level(Root, mem, j) /\ j \in 1 .. Levels - 1 => Below(X) = Level(Root, mem, j + 1)
    BY LevelBelow
<1> HIDE DEF Below
<1>5. \A k \in 1 .. Levels : g[k] = IF k = 1 THEN {Root} ELSE Below(g[k - 1])
    BY <1>3
<1> DEFINE S == {j \in Nat : j + 1 \in 1 .. Levels => g[j + 1] = Level(Root, mem, j + 1)}
<1>6. 0 \in S
  <2>1. 1 \in 1 .. Levels /\ 0 + 1 = 1
      BY SizesTyped
  <2>2. g[1] = {Root}
      BY <1>5, <2>1
  <2>3. Root # NoFrame
      BY PagesTyped DEF Tree
  <2>4. Level(Root, mem, 1) = {Root}
    <3>1. \A v : Walk(Root, mem, v)[1] = Root
        BY WalkIs
    <3>2. 0 \in Virt
        BY PagesTyped DEF Virt
    <3> QED BY <2>3, <3>1, <3>2 DEF Level
  <2> QED BY <2>1, <2>2, <2>4
<1>7. ASSUME NEW j \in S PROVE j + 1 \in S
  <2> DEFINE k == j + 1
             i == k + 1
  <2> SUFFICES ASSUME i \in 1 .. Levels PROVE g[i] = Level(Root, mem, i)
      OBVIOUS
  <2>1. k \in 1 .. Levels - 1 /\ k \in 1 .. Levels /\ i # 1 /\ i - 1 = k
      BY SizesTyped
  <2>2. g[k] = Level(Root, mem, k)
      BY <2>1
  <2> HIDE DEF k
  <2>3. Below(g[k]) = Level(Root, mem, i)
      BY <1>4, <2>1, <2>2
  <2> HIDE DEF i
  <2>4. g[i] = Below(g[i - 1])
      BY <1>5, <2>1
  <2> QED BY <2>1, <2>3, <2>4
<1>8. S \in SUBSET Nat
    OBVIOUS
<1> HIDE DEF S
<1>9. S = Nat
    BY <1>6, <1>7, <1>8, SetInduction
<1>10. g[l] = Level(Root, mem, l)
  <2> DEFINE j == l - 1
  <2>1. j \in Nat /\ j + 1 = l
      OBVIOUS
  <2> HIDE DEF j
  <2>2. j + 1 \in 1 .. Levels => g[j + 1] = Level(Root, mem, j + 1)
      BY <1>9, <2>1 DEF S
  <2> QED BY <2>1, <2>2
<1> QED BY <1>2, <1>10

\* Each present entry above the lowest level has a table of its own
\* (paging.c:62-85: alloc_table for each that is absent).
LEMMA OneTableEach ==
    ASSUME NEW r, NEW m, NEW n, Tree(r, m, n), NEW l \in 1 .. Levels - 1,
           NEW E, E = {e \in DOMAIN m : e[1] \in Level(r, m, l)},
           NEW T, T = {m[e] : e \in E}
    PROVE  Cardinality(T) = Cardinality(E)
<1> DEFINE f == [e \in E |-> m[e]]
           k == l + 1
<1>1. l \in 1 .. Levels /\ k \in 1 .. Levels /\ k - 1 = l /\ l \in Nat
    BY SizesTyped
<1>2. \A v : Walk(r, m, v)[k] = Follow(m, Walk(r, m, v)[l], Index(v, l))
    BY WalkIs
<1> HIDE DEF k
<1>3. ASSUME NEW e \in E
      PROVE  \E v \in Virt : e = <<Walk(r, m, v)[l], Index(v, l)>> /\ m[e] = Walk(r, m, v)[k] /\ m[e] # NoFrame
  <2>1. PICK w \in Virt : e[1] = Walk(r, m, w)[l] /\ e[1] # NoFrame /\ e \in DOMAIN m
      BY DEF Level
  <2>2. PICK v \in Virt, j \in 1 .. Levels : Walk(r, m, v)[j] # NoFrame /\ e = <<Walk(r, m, v)[j], Index(v, j)>>
      BY <2>1 DEF Tree, Owned
  <2>3. e[1] = Walk(r, m, v)[j]
      BY <2>2
  <2>4. j = l
    <3>1. Apart(r, m) /\ l \in 1 .. Levels
        BY <1>1 DEF Tree
    <3>2. Walk(r, m, v)[j] = Walk(r, m, w)[l] /\ Walk(r, m, v)[j] # NoFrame
        BY <2>1, <2>2, <2>3
    <3> QED BY <3>1, <3>2 DEF Apart
  <2>5. m[e] = Walk(r, m, v)[k] /\ m[e] # NoFrame
      BY <1>2, <2>1, <2>2, <2>4 DEF Follow, Tree, Solid
  <2> QED BY <2>2, <2>4, <2>5
<1>4. ASSUME NEW d \in E, NEW e \in E, m[d] = m[e] PROVE d = e
  <2>1. PICK v \in Virt : d = <<Walk(r, m, v)[l], Index(v, l)>> /\ m[d] = Walk(r, m, v)[k] /\ m[d] # NoFrame
      BY <1>3
  <2>2. PICK w \in Virt : e = <<Walk(r, m, w)[l], Index(w, l)>> /\ m[e] = Walk(r, m, w)[k] /\ m[e] # NoFrame
      BY <1>3
  <2>3. Agree(v, w, l)
    <3>1. Apart(r, m)
        BY DEF Tree
    <3>2. Walk(r, m, v)[k] = Walk(r, m, w)[k] /\ Walk(r, m, v)[k] # NoFrame
        BY <1>4, <2>1, <2>2
    <3>3. Agree(v, w, k - 1)
        BY <1>1, <3>1, <3>2 DEF Apart
    <3> QED BY <1>1, <3>3
  <2>4. Index(v, l) = Index(w, l)
      BY <1>1, <2>3 DEF Agree
  <2>5. Agree(v, w, l - 1)
      BY <1>1, <2>3 DEF Agree
  <2>6. Walk(r, m, v)[l] = Walk(r, m, w)[l]
      BY <1>1, <2>5, AgreeWalk
  <2> QED BY <2>1, <2>2, <2>4, <2>6
<1>5. f \in Surjection(E, T) /\ f \in Injection(E, T)
    BY <1>4 DEF Surjection, Injection, IsInjective
<1>6. IsFiniteSet(E)
  <2>1. IsFiniteSet(DOMAIN m) /\ E \in SUBSET DOMAIN m
      BY DEF Tree
  <2> QED BY <2>1, FS_Subset
<1> HIDE DEF f
<1> QED BY <1>5, <1>6, FS_Surjection

-----------------------------------------------------------------------------
\* Two lists of mappings, one after the other (paging.c:113-133).
LEMMA Joined ==
    ASSUME NEW B, NEW s \in Seq(B), NEW t \in Seq(B)
    PROVE  /\ s \o t \in Seq(B) /\ Len(s \o t) = Len(s) + Len(t)
           /\ Range(s \o t) = Range(s) \union Range(t)
BY ConcatProperties, RangeConcatenation

\* f holds the first lists of s, joined.
IsFlat(n, s, f) == f = [i \in 0 .. n |-> IF i = 0 THEN <<>> ELSE f[i - 1] \o s[i]]

\* The equation of Flat has a solution, by induction: the mappings that each
\* turn of a loop makes (paging.c:280-340).
LEMMA FlatExists ==
    ASSUME NEW s, NEW n \in Nat
    PROVE  \E f : IsFlat(n, s, f)
<1> DEFINE S == {k \in Nat : \E f : IsFlat(k, s, f)}
<1>1. 0 \in S
  <2> DEFINE f == [i \in 0 .. 0 |-> <<>>]
  <2>1. f = [i \in 0 .. 0 |-> IF i = 0 THEN <<>> ELSE f[i - 1] \o s[i]]
      OBVIOUS
  <2> HIDE DEF f
  <2> QED BY <2>1 DEF IsFlat
<1>2. ASSUME NEW k \in S PROVE k + 1 \in S
  <2>1. PICK g : g = [i \in 0 .. k |-> IF i = 0 THEN <<>> ELSE g[i - 1] \o s[i]]
      BY DEF IsFlat
  <2>2. k \in Nat /\ k + 1 \in Nat
      OBVIOUS
  <2> DEFINE h == [i \in 0 .. k + 1 |-> IF i = 0 THEN <<>> ELSE g[i - 1] \o s[i]]
  <2>3. ASSUME NEW i \in 0 .. k + 1, i # 0 PROVE h[i - 1] = g[i - 1]
    <3>1. i - 1 \in 0 .. k /\ i - 1 \in 0 .. k + 1
        BY <2>2, <2>3
    <3>2. g[i - 1] = IF i - 1 = 0 THEN <<>> ELSE g[i - 1 - 1] \o s[i - 1]
        BY <2>1, <3>1
    <3>3. h[i - 1] = IF i - 1 = 0 THEN <<>> ELSE g[i - 1 - 1] \o s[i - 1]
        BY <3>1
    <3> QED BY <3>2, <3>3
  <2>4. h = [i \in 0 .. k + 1 |-> IF i = 0 THEN <<>> ELSE h[i - 1] \o s[i]]
    <3> SUFFICES ASSUME NEW i \in 0 .. k + 1
                 PROVE  (IF i = 0 THEN <<>> ELSE g[i - 1] \o s[i])
                         = (IF i = 0 THEN <<>> ELSE h[i - 1] \o s[i])
        OBVIOUS
    <3> HIDE DEF h
    <3> QED BY <2>3
  <2> HIDE DEF h
  <2> QED BY <2>2, <2>4 DEF IsFlat
<1>3. S \in SUBSET Nat
    OBVIOUS
<1> HIDE DEF S
<1>4. S = Nat
    BY <1>1, <1>2, <1>3, SetInduction
<1> QED BY <1>4 DEF S

\* f[i] is the first i of the n lists of s, joined.
Joins(s, n, f) == f[0] = <<>> /\ \A i \in 0 .. n - 1 : f[i + 1] = f[i] \o s[i + 1]

\* Flat joins one list at a time (paging.c:280-340).
LEMMA FlatIs ==
    ASSUME NEW s, NEW n \in Nat, Len(s) = n
    PROVE  \E f : Flat(s) = f[n] /\ Joins(s, n, f)
<1> DEFINE f == CHOOSE g : IsFlat(Len(s), s, g)
<1>1. IsFlat(n, s, f)
    BY FlatExists
<1>2. Flat(s) = f[n]
    BY DEF Flat, IsFlat
<1> HIDE DEF f
<1>3. \A k \in 0 .. n : f[k] = IF k = 0 THEN <<>> ELSE f[k - 1] \o s[k]
    BY <1>1 DEF IsFlat
<1>4. f[0] = <<>>
    BY <1>3
<1>5. ASSUME NEW i \in 0 .. n - 1 PROVE f[i + 1] = f[i] \o s[i + 1]
  <2> DEFINE k == i + 1
             j == k - 1
  <2>1. k \in 0 .. n /\ k # 0 /\ j = i
      OBVIOUS
  <2> HIDE DEF k
  <2>2. f[k] = f[j] \o s[k]
      BY <1>3, <2>1
  <2> QED BY <2>1, <2>2 DEF k
<1> QED BY <1>2, <1>4, <1>5 DEF Joins

\* The mappings of all turns of a loop are mappings (paging.c:236-275, 280-352).
LEMMA FlatTyped ==
    ASSUME NEW B, NEW s \in Seq(Seq(B))
    PROVE  Flat(s) \in Seq(B)
<1> DEFINE n == Len(s)
<1>0. n \in Nat /\ \A i \in 1 .. n : s[i] \in Seq(B)
    OBVIOUS
<1>p. PICK f : Flat(s) = f[n] /\ Joins(s, n, f)
    BY ONLY <1>0, FlatIs
<1> HIDE DEF n
<1>1. /\ Flat(s) = f[n] /\ f[0] = <<>>
      /\ \A i \in 0 .. n - 1 : f[i + 1] = f[i] \o s[i + 1]
    BY <1>p DEF Joins
<1> DEFINE S == {k \in Nat : k \in 0 .. n => f[k] \in Seq(B)}
<1>2. 0 \in S
  <2>1. <<>> \in Seq(B)
      BY EmptySeq
  <2> QED BY <1>1, <2>1
<1>3. ASSUME NEW k \in S PROVE k + 1 \in S
  <2> SUFFICES ASSUME k + 1 \in 0 .. n PROVE f[k + 1] \in Seq(B)
      OBVIOUS
  <2>1. k \in 0 .. n - 1 /\ f[k] \in Seq(B) /\ k + 1 \in 1 .. n
      BY <1>0
  <2>2. f[k + 1] = f[k] \o s[k + 1] /\ s[k + 1] \in Seq(B)
      BY <1>0, <1>1, <2>1
  <2> DEFINE a == f[k]
             b == s[k + 1]
  <2>3. a \in Seq(B) /\ b \in Seq(B) /\ f[k + 1] = a \o b
      BY <2>1, <2>2
  <2> HIDE DEF a, b
  <2> QED BY <2>3, ConcatProperties
<1>4. S \in SUBSET Nat
    OBVIOUS
<1> HIDE DEF S
<1>5. S = Nat
    BY <1>2, <1>3, <1>4, SetInduction
<1> QED BY <1>0, <1>1, <1>5 DEF S

\* A loop that turns once makes that turn's mappings (paging.c:280, 346).
LEMMA FlatOne ==
    ASSUME NEW B, NEW b \in Seq(B), NEW s, Len(s) = 1, s[1] = b
    PROVE  Flat(s) = b
<1> DEFINE n == Len(s)
           z == n - 1
<1>1. n = 1 /\ Len(s) = n /\ s[1] = b /\ z = 0 /\ n \in Nat
    OBVIOUS
<1>p. PICK f : Flat(s) = f[n] /\ Joins(s, n, f)
    BY ONLY <1>1, FlatIs
<1> HIDE DEF n
<1>2. Flat(s) = f[n] /\ f[0] = <<>> /\ \A i \in 0 .. n - 1 : f[i + 1] = f[i] \o s[i + 1]
    BY <1>p DEF Joins
<1>3. z \in 0 .. n - 1 /\ z + 1 = n
    BY <1>1
<1>4. f[n] = f[z] \o s[n]
  <2> HIDE DEF z
  <2>1. f[z + 1] = f[z] \o s[z + 1]
      BY <1>2, <1>3
  <2> QED BY <1>3, <2>1
<1>5. f[n] = <<>> \o b
    BY <1>1, <1>2, <1>4
<1> QED BY <1>2, <1>5, ConcatEmptySeq

\* With two mappings in each turn a loop makes twice as many as it has turns
\* (paging.c:280-340).
LEMMA FlatTwo ==
    ASSUME NEW B, NEW s \in Seq(Seq(B)), \A i \in 1 .. Len(s) : Len(s[i]) = 2
    PROVE  Len(Flat(s)) = 2 * Len(s)
<1> DEFINE n == Len(s)
<1>0. n \in Nat /\ \A i \in 1 .. n : s[i] \in Seq(B) /\ Len(s[i]) = 2
    OBVIOUS
<1>p. PICK f : Flat(s) = f[n] /\ Joins(s, n, f)
    BY ONLY <1>0, FlatIs
<1> HIDE DEF n
<1>1. /\ Flat(s) = f[n] /\ f[0] = <<>>
      /\ \A i \in 0 .. n - 1 : f[i + 1] = f[i] \o s[i + 1]
    BY <1>p DEF Joins
<1> DEFINE S == {k \in Nat : k \in 0 .. n => f[k] \in Seq(B) /\ Len(f[k]) = 2 * k}
<1>2. 0 \in S
  <2>1. <<>> \in Seq(B) /\ Len(<<>>) = 0
      BY EmptySeq
  <2>2. f[0] \in Seq(B) /\ Len(f[0]) = 0
      BY <1>1, <2>1
  <2>3. 2 * 0 = 0
      OBVIOUS
  <2> HIDE DEF n
  <2> QED BY <2>2, <2>3
<1>3. ASSUME NEW k \in S PROVE k + 1 \in S
  <2> SUFFICES ASSUME k + 1 \in 0 .. n PROVE f[k + 1] \in Seq(B) /\ Len(f[k + 1]) = 2 * (k + 1)
      OBVIOUS
  <2>1. k \in 0 .. n - 1 /\ f[k] \in Seq(B) /\ Len(f[k]) = 2 * k /\ k + 1 \in 1 .. n
      BY <1>0
  <2>2. f[k + 1] = f[k] \o s[k + 1] /\ s[k + 1] \in Seq(B) /\ Len(s[k + 1]) = 2
      BY <1>0, <1>1, <2>1
  <2> DEFINE a == f[k]
             b == s[k + 1]
  <2>3. a \in Seq(B) /\ b \in Seq(B) /\ f[k + 1] = a \o b /\ Len(a) = 2 * k /\ Len(b) = 2
      BY <2>1, <2>2
  <2> HIDE DEF a, b
  <2>4. a \o b \in Seq(B) /\ Len(a \o b) = Len(a) + Len(b)
      BY <2>3, Joined
  <2>5. Len(a) + Len(b) = 2 * (k + 1)
      BY <2>1, <2>3
  <2> QED BY <2>3, <2>4, <2>5
<1>4. S \in SUBSET Nat
    OBVIOUS
<1> HIDE DEF S
<1>5. S = Nat
    BY <1>2, <1>3, <1>4, SetInduction
<1>6. Len(f[n]) = 2 * n
    BY <1>0, <1>5 DEF S
<1> QED BY <1>1, <1>6 DEF n

\* map_range makes one mapping for each page (paging.c:49).
LEMMA RangeTyped ==
    ASSUME NEW B, NEW x \in Nat, NEW y \in Nat, x <= y,
           \A v \in x .. y - 1 : Request(v, Direct(Wrap(v))) \in B
    PROVE  MapRange(x, y) \in Seq(B)
<1> DEFINE n == y - x
           s == MapRange(x, y)
<1>1. n \in Nat
    OBVIOUS
<1>2. s = [i \in 1 .. n |-> Request(x + i - 1, Direct(Wrap(x + i - 1)))]
    BY DEF MapRange
<1>3. ASSUME NEW i \in 1 .. n PROVE s[i] \in B
  <2> DEFINE v == x + i - 1
  <2>1. v \in x .. y - 1
      BY <1>1
  <2>2. s[i] = Request(v, Direct(Wrap(v)))
      BY <1>2
  <2> HIDE DEF v
  <2> QED BY <2>1, <2>2
<1> HIDE DEF n, s
<1>4. s \in [1 .. n -> B]
    BY <1>2, <1>3
<1>5. s \in Seq(B)
    BY <1>1, <1>4
<1> QED BY <1>5 DEF s

\* map_range leaves no page of its range out (paging.c:49).
LEMMA RangeHas ==
    \A x, y \in Nat : \A v \in 0 .. y - 1 :
        Request(x + v, Direct(Wrap(x + v))) \in Range(MapRange(x, x + y))
<1> SUFFICES ASSUME NEW x \in Nat, NEW y \in Nat, NEW v \in 0 .. y - 1
             PROVE  Request(x + v, Direct(Wrap(x + v))) \in Range(MapRange(x, x + y))
    OBVIOUS
<1> DEFINE i == v + 1
           n == (x + y) - x
           w == x + i - 1
           s == MapRange(x, x + y)
<1>1. i \in 1 .. n /\ w = x + v
    OBVIOUS
<1>2. s = [j \in 1 .. n |-> Request(x + j - 1, Direct(Wrap(x + j - 1)))]
    BY DEF MapRange
<1> HIDE DEF n, s
<1>3. s[i] = Request(w, Direct(Wrap(w)))
    BY <1>1, <1>2
<1> HIDE DEF i
<1>4. i \in DOMAIN s
    BY <1>1, <1>2
<1>5. s[i] = Request(x + v, Direct(Wrap(x + v)))
    BY <1>1, <1>3
<1>6. s[i] \in Range(s)
    BY <1>4 DEF Range
<1> QED BY <1>5, <1>6 DEF s

\* A range of one page is one mapping (paging.c:349, 351).
LEMMA RangeOne ==
    ASSUME NEW x \in Nat
    PROVE  MapRange(x, x + 1) = <<Request(x, Direct(Wrap(x)))>>
<1> DEFINE n == (x + 1) - x
           a == Request(x, Direct(Wrap(x)))
<1>1. n = 1
    OBVIOUS
<1>2. MapRange(x, x + 1) = [j \in 1 .. n |-> Request(x + j - 1, Direct(Wrap(x + j - 1)))]
    BY DEF MapRange
<1> HIDE DEF n
<1>3. \A j \in 1 .. n : x + j - 1 = x
    BY <1>1
<1>4. MapRange(x, x + 1) = [j \in 1 .. 1 |-> a]
    BY <1>1, <1>2, <1>3
<1> HIDE DEF a
<1> QED BY <1>4 DEF a

\* Each table noted is mapped four times, twice in each of two loops
\* (paging.c:280-352).
LEMMA EarlyTyped ==
    ASSUME NEW B, early \in Seq(Nat),
           \A i \in 1 .. Len(early) :
              /\ Request(early[i], early[i]) \in B /\ Request(Hhdm + early[i], early[i]) \in B
              /\ Request(early[i], Direct(Wrap(early[i]))) \in B
              /\ Request(Hhdm + early[i], Direct(Wrap(Hhdm + early[i]))) \in B
    PROVE  EarlyTables \in Seq(B) /\ Len(EarlyTables) = 4 * Len(early)
<1> DEFINE n == Len(early)
           Two(f) == MapRange(f, f + 1) \o MapRange(Hhdm + f, Hhdm + f + 1)
           s == [i \in DOMAIN early |-> Both(early[i])]
           t == [i \in DOMAIN early |-> Two(early[i])]
<1>1. n \in Nat /\ DOMAIN early = 1 .. n /\ \A i \in 1 .. n : early[i] \in Nat
    OBVIOUS
<1>2. Hhdm \in Nat
    BY ConstantsAssumption, PagesTyped DEF ConstantsAssumption
<1>3. EarlyTables = Flat(s) \o Flat(t)
    BY DEF EarlyTables
<1>4. ASSUME NEW i \in 1 .. n
      PROVE  /\ Both(early[i]) \in Seq(B) /\ Len(Both(early[i])) = 2
             /\ Two(early[i]) \in Seq(B) /\ Len(Two(early[i])) = 2
  <2> DEFINE f == early[i]
             h == Hhdm + f
             a == Request(f, f)
             b == Request(h, f)
             c == Request(f, Direct(Wrap(f)))
             d == Request(h, Direct(Wrap(h)))
  <2>1. f \in Nat /\ h \in Nat /\ a \in B /\ b \in B /\ c \in B /\ d \in B
      BY <1>1, <1>2
  <2>2. Both(f) = <<a, b>>
      BY DEF Both
  <2>3. MapRange(f, f + 1) = <<c>> /\ MapRange(h, h + 1) = <<d>>
    <3> HIDE DEF f, h
    <3> QED BY <2>1, RangeOne
  <2>4. Two(f) = <<c>> \o <<d>>
    <3>1. Two(f) = MapRange(f, f + 1) \o MapRange(h, h + 1)
        OBVIOUS
    <3> QED BY <2>3, <3>1
  <2> HIDE DEF a, b, c, d
  <2>5. <<a, b>> \in Seq(B) /\ Len(<<a, b>>) = 2
      BY <2>1
  <2>6. <<c>> \in Seq(B) /\ <<d>> \in Seq(B) /\ Len(<<c>>) = 1 /\ Len(<<d>>) = 1
      BY <2>1
  <2>7. <<c>> \o <<d>> \in Seq(B) /\ Len(<<c>> \o <<d>>) = 2
      BY <2>6, ConcatProperties
  <2> HIDE DEF Two
  <2> QED BY <2>2, <2>4, <2>5, <2>7
<1> HIDE DEF Two
<1>5. s \in [1 .. n -> Seq(B)] /\ t \in [1 .. n -> Seq(B)]
      /\ \A i \in 1 .. n : Len(s[i]) = 2 /\ Len(t[i]) = 2
    BY <1>1, <1>4
<1>6. DOMAIN s = 1 .. n /\ DOMAIN t = 1 .. n
    BY <1>1
<1> HIDE DEF s, t, n
<1>7. s \in Seq(Seq(B)) /\ t \in Seq(Seq(B)) /\ Len(s) = n /\ Len(t) = n
  <2> DEFINE Q == Seq(B)
  <2> HIDE DEF Q
  <2>1. s \in [1 .. n -> Q] /\ t \in [1 .. n -> Q]
      BY <1>5 DEF Q
  <2>2. s \in Seq(Q) /\ t \in Seq(Q) /\ Len(s) = n /\ Len(t) = n
      BY <1>1, <1>6, <2>1
  <2> QED BY <2>2 DEF Q
<1>8. Flat(s) \in Seq(B) /\ Flat(t) \in Seq(B)
    BY <1>7, FlatTyped
<1>9. Len(Flat(s)) = 2 * n /\ Len(Flat(t)) = 2 * n
    BY <1>5, <1>7, FlatTwo
<1>10. Flat(s) \o Flat(t) \in Seq(B) /\ Len(Flat(s) \o Flat(t)) = Len(Flat(s)) + Len(Flat(t))
    BY <1>8, ConcatProperties
<1> QED BY <1>1, <1>3, <1>9, <1>10 DEF n

\* The last two mappings of init_paging are those of the PML4, the one table
\* noted then (paging.c:346-352).
LEMMA EarlyEnd ==
    ASSUME NEW B, NEW f \in Nat, early = <<f>>,
           Request(f, f) \in B, Request(Hhdm + f, f) \in B,
           Request(f, Direct(Wrap(f))) \in B, Request(Hhdm + f, Direct(Wrap(Hhdm + f))) \in B
    PROVE  \E x \in Seq(B) :
              EarlyTables = x \o <<Request(f, Direct(Wrap(f))), Request(Hhdm + f, Direct(Wrap(Hhdm + f)))>>
<1> DEFINE h == Hhdm + f
           a == Request(f, f)
           b == Request(h, f)
           c == Request(f, Direct(Wrap(f)))
           d == Request(h, Direct(Wrap(h)))
           s == [i \in DOMAIN early |-> Both(early[i])]
           t == [i \in DOMAIN early |-> MapRange(early[i], early[i] + 1)
                                            \o MapRange(Hhdm + early[i], Hhdm + early[i] + 1)]
<1>1. f \in Nat /\ h \in Nat /\ a \in B /\ b \in B /\ c \in B /\ d \in B
    BY ConstantsAssumption, PagesTyped DEF ConstantsAssumption
<1>2. DOMAIN early = 1 .. 1 /\ early[1] = f
    OBVIOUS
<1>3. EarlyTables = Flat(s) \o Flat(t)
    BY DEF EarlyTables
<1>4. s = [i \in 1 .. 1 |-> <<a, b>>] /\ s[1] = <<a, b>>
    BY <1>2 DEF Both
<1>5. t = [i \in 1 .. 1 |-> MapRange(f, f + 1) \o MapRange(h, h + 1)]
    BY <1>2
<1> HIDE DEF s, t
<1>6. MapRange(f, f + 1) = <<c>> /\ MapRange(h, h + 1) = <<d>>
  <2> HIDE DEF h
  <2>1. MapRange(f, f + 1) = <<c>>
      BY <1>1, RangeOne
  <2>2. MapRange(h, h + 1) = <<d>>
      BY <1>1, RangeOne
  <2> QED BY <2>1, <2>2
<1> HIDE DEF a, b, c, d, h
<1>7. <<a, b>> \in Seq(B) /\ <<c>> \o <<d>> \in Seq(B) /\ <<c>> \o <<d>> = <<c, d>>
  <2>1. <<a, b>> \in Seq(B) /\ <<c>> \in Seq(B) /\ <<d>> \in Seq(B) /\ <<c, d>> \in Seq(B)
      BY <1>1
  <2>2. <<c>> \o <<d>> \in Seq(B)
      BY <2>1, Joined
  <2>3. <<c>> \o <<d>> = <<c, d>>
    <3> DEFINE x == <<c>>
               y == <<d>>
               z == x \o y
               w == <<c, d>>
    <3>1. x \in Seq(B) /\ y \in Seq(B) /\ Len(x) = 1 /\ Len(y) = 1 /\ x[1] = c /\ y[1] = d
        BY <2>1
    <3>2. w \in Seq(B) /\ Len(w) = 2 /\ w[1] = c /\ w[2] = d
        BY <2>1
    <3> HIDE DEF x, y, w
    <3>3. z \in Seq(B) /\ Len(z) = 2 /\ z[1] = c /\ z[2] = d
      <4>1. /\ x \o y \in Seq(B) /\ Len(x \o y) = Len(x) + Len(y)
            /\ \A i \in 1 .. Len(x) + Len(y) : (x \o y)[i] = IF i <= Len(x) THEN x[i] ELSE y[i - Len(x)]
          BY <3>1, ConcatProperties
      <4>2. \A i \in 1 .. 2 : z[i] = IF i <= 1 THEN x[i] ELSE y[i - 1]
          BY <3>1, <4>1
      <4> HIDE DEF z
      <4>3. z[1] = x[1] /\ z[2] = y[2 - 1]
          BY <4>2
      <4> QED BY <3>1, <4>1, <4>3 DEF z
    <3> HIDE DEF z
    <3>4. \A i \in 1 .. 2 : z[i] = w[i]
        BY <3>2, <3>3
    <3>5. z = w
        BY <3>2, <3>3, <3>4, SeqEqual
    <3> QED BY <3>5 DEF x, y, z, w
  <2> QED BY <2>1, <2>2, <2>3
<1>8. Flat(s) = <<a, b>>
  <2> DEFINE y == <<a, b>>
  <2>1. y \in Seq(B) /\ s = [i \in 1 .. 1 |-> y]
      BY <1>4, <1>7
  <2> HIDE DEF y
  <2>2. Len(s) = 1 /\ s[1] = y
      BY <2>1
  <2>3. Flat(s) = y
      BY <2>1, <2>2, FlatOne
  <2> QED BY <2>3 DEF y
<1>9. Flat(t) = <<c, d>>
  <2> DEFINE y == <<c>> \o <<d>>
  <2>1. y \in Seq(B) /\ t = [i \in 1 .. 1 |-> y]
      BY <1>5, <1>6, <1>7
  <2> HIDE DEF y
  <2>2. Len(t) = 1 /\ t[1] = y
      BY <2>1
  <2>3. Flat(t) = y
      BY <2>1, <2>2, FlatOne
  <2> QED BY <1>7, <2>3 DEF y
<1> QED BY <1>3, <1>7, <1>8, <1>9 DEF c, d, h

\* Aligning a page to 2MB never raises it (paging.c:118, 123).
LEMMA AlignIs == \A v \in Nat : Align(v) \in Nat /\ Align(v) <= v
<1> SUFFICES ASSUME NEW v \in Nat PROVE Align(v) \in Nat /\ Align(v) <= v
    OBVIOUS
<1>1. Fanout \in Nat \ {0}
    BY SizesTyped
<1>2. v % Fanout \in Nat /\ v % Fanout <= v
  <2> DEFINE q == v \div Fanout
             k == v % Fanout
  <2>1. k \in 0 .. Fanout - 1 /\ q \in Nat /\ v = Fanout * q + k
      BY <1>1
  <2>2. Fanout * q \in Nat
      BY <1>1, <2>1
  <2> HIDE DEF q, k
  <2>3. k <= v
      BY <2>1, <2>2, <1>1
  <2> QED BY <2>1, <2>3, <1>1 DEF k
<1> QED BY <1>2 DEF Align

\* Tables are noted after those already noted, up to MAX_EARLY_PAGE_TABLES
\* (add_early_page_table).
LEMMA CappedIs ==
    ASSUME NEW S, NEW s \in Seq(S), NEW t \in Seq(S), Len(s) <= MaxEarly
    PROVE  /\ Capped(s \o t) \in Seq(S)
           /\ Len(s) <= Len(Capped(s \o t)) /\ Len(Capped(s \o t)) <= MaxEarly
<1> DEFINE u == s \o t
           n == IF Len(u) < MaxEarly THEN Len(u) ELSE MaxEarly
<1>1. u \in Seq(S) /\ Len(u) = Len(s) + Len(t) /\ Len(s) \in Nat /\ Len(t) \in Nat
    BY Joined
<1> HIDE DEF u
<1>2. n \in Nat /\ Len(s) <= n /\ n <= MaxEarly /\ n <= Len(u) /\ \A i \in 1 .. n : u[i] \in S
    BY <1>1, SizesTyped
<1> HIDE DEF n
<1>3. SubSeq(u, 1, n) \in Seq(S) /\ Len(SubSeq(u, 1, n)) = IF 1 <= n THEN n - 1 + 1 ELSE 0
    BY <1>2, SubSeqProperties
<1>4. Capped(u) = SubSeq(u, 1, n)
    BY DEF Capped, n
<1>5. Capped(u) \in Seq(S) /\ Len(Capped(u)) = n
    BY <1>2, <1>3, <1>4
<1> QED BY <1>2, <1>5 DEF u
=============================================================================
