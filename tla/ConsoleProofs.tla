---------------------------- MODULE ConsoleProofs ----------------------------
EXTENDS Console, FiniteSetTheorems, SequenceTheorems, NatSets

(***************************************************************************)
(* Theorems about Console, for every screen of two rows or more, every     *)
(* number of values, every table of keys and whatever scripts and commands *)
(* write.  Next takes keys, but a key's text goes through a parser byte    *)
(* by byte, so the inductive invariant has a conjunct for the terminal     *)
(* that every byte keeps:                                                  *)
(*   TermOK    the queue has one item for each cell that has a change      *)
(*             coming, hence no more than the screen has cells; margins,   *)
(*             cursor, saved cursor and the parser's numbers are in range; *)
(*   ScreenOK  away from where the cursor was drawn last, the picture is   *)
(*             the grid.                                                   *)
(* A byte is a Step: it keeps TermOK, and leaves what is on the screen to  *)
(* the flush behind it.  What a byte is made of is classed by what it may  *)
(* change: Drawn only what is coming, Wrote also the cursor, Moved leaves  *)
(* that on the screen or just behind a row, Coloured only the colours.     *)
(* The loops are recursive functions, and one induction shows that the     *)
(* equations of all of them have solutions (Turn, TurnsExist): the         *)
(* library's theorems that would say so take an operator as a parameter.   *)
(***************************************************************************)

\* The terminal's fields (flanterm.h, fb.h).
Fields == DOMAIN FlantermInit

\* Their names.
LEMMA FieldNames ==
    /\ {"grid", "pend", "queue", "overrun", "shown", "fg", "bg", "x", "y", "oldX", "oldY"} \subseteq Fields
    /\ {"cursorOn", "escape", "csi", "osc", "oscEscape", "discard", "digits", "private", "insert",
        "offset", "values"} \subseteq Fields
    /\ {"bold", "bgBold", "reverse", "unicode", "select", "charsets", "charset", "primary", "back",
        "savedX", "savedY", "top", "bottom", "saved"} \subseteq Fields
BY DEF Fields, FlantermInit, Over, Reinit, FbInit

\* u is t but for the fields in S.
But(t, u, S) == DOMAIN u = DOMAIN t /\ \A f \in Fields \ S : u[f] = t[f]

\* The widths of the screen.
LEMMA ScreenTyped ==
    /\ Cols \in Nat \ {0} /\ Rows \in Nat \ {0, 1} /\ Rows * Cols \in Nat
    /\ Cells = 0 .. Rows * Cols - 1
<1>1. Cols \in Nat \ {0} /\ Rows \in Nat \ {0, 1}
    BY ScreenAssumption DEF ScreenAssumption
<1>2. Rows * Cols \in Nat
    BY <1>1
<1> QED BY <1>1, <1>2 DEF Cells

\* The queue: an item for each cell that has a change coming (fb.c:517-543).
QueueOK(t) ==
    /\ DOMAIN t.pend \subseteq Cells
    /\ t.queue \in Seq(Int)
    /\ Len(t.queue) = Cardinality(DOMAIN t.pend)

\* The cell of a position, and back (fb.c:524, 559, 605).
LEMMA CellOf ==
    ASSUME NEW x \in Nat, NEW y \in Nat, x < Cols, y < Rows
    PROVE  y * Cols + x \in Cells
<1>1. Cols \in Nat /\ Rows \in Nat
    BY ScreenTyped
<1>2. (y + 1) * Cols <= Rows * Cols
    BY <1>1
<1>3. (y + 1) * Cols = y * Cols + Cols /\ y * Cols \in Nat /\ Rows * Cols \in Nat
    BY <1>1
<1> QED BY <1>1, <1>2, <1>3 DEF Cells

\* A queue has no more items than the screen has cells (fb.c:1083).
LEMMA QueueFits ==
    ASSUME NEW t, QueueOK(t)
    PROVE  IsFiniteSet(DOMAIN t.pend) /\ Len(t.queue) \in 0 .. Rows * Cols
<1>1. IsFiniteSet(Cells) /\ Cardinality(Cells) = Rows * Cols
  <2>1. Rows * Cols \in Nat
      BY ScreenTyped
  <2>2. IsFiniteSet(0 .. Rows * Cols - 1) /\ Cardinality(0 .. Rows * Cols - 1) = Rows * Cols
      BY <2>1, FS_Interval
  <2> QED BY <2>2, ScreenTyped
<1>2. IsFiniteSet(DOMAIN t.pend) /\ Cardinality(DOMAIN t.pend) <= Cardinality(Cells)
    BY <1>1, FS_Subset DEF QueueOK
<1>3. Cardinality(DOMAIN t.pend) \in Nat
    BY <1>2, FS_CardinalityType
<1> QED BY <1>1, <1>2, <1>3, ScreenTyped DEF QueueOK

\* u is t after some cells were pushed to the queue.
Drawn(t, u) == QueueOK(u) /\ But(t, u, {"pend", "queue"})

\* An item for a cell that had none (fb.c:526-542).
LEMMA QueuedIs ==
    ASSUME NEW t, DOMAIN t = Fields, QueueOK(t), NEW i \in Cells, i \notin DOMAIN t.pend, NEW ch
    PROVE  /\ Drawn(t, Queued(t, i, ch))
           /\ Queued(t, i, ch).pend = Over([j \in {i} |-> ch], t.pend)
<1> DEFINE u == Queued(t, i, ch)
<1>1. /\ u.pend = Over([j \in {i} |-> ch], t.pend) /\ u.queue = Append(t.queue, i)
      /\ But(t, u, {"pend", "queue"})
    BY FieldNames DEF Queued, But
<1>2. DOMAIN u.pend = DOMAIN t.pend \union {i}
    BY <1>1 DEF Over
<1>3. Cardinality(DOMAIN t.pend \union {i}) = Cardinality(DOMAIN t.pend) + 1
    BY QueueFits, FS_AddElement
<1>4. i \in Int
    BY ScreenTyped
<1>5. u.queue \in Seq(Int) /\ Len(u.queue) = Len(t.queue) + 1
    BY <1>1, <1>4 DEF QueueOK
<1> HIDE DEF u
<1>6. QueueOK(u)
    BY <1>2, <1>3, <1>5 DEF QueueOK
<1> QED BY <1>1, <1>6 DEF Drawn, u

\* A character pushed to a cell (fb.c:521-543) is what will be in that cell, and
\* in no other.
LEMMA PushIs ==
    ASSUME NEW t, DOMAIN t = Fields, QueueOK(t), NEW ch, NEW x \in Nat, NEW y \in Nat
    PROVE  /\ Drawn(t, Push(t, ch, x, y))
           /\ x < Cols /\ y < Rows => Content(Push(t, ch, x, y), y * Cols + x) = ch
           /\ \A j \in Cells : ~(x < Cols /\ y < Rows /\ j = y * Cols + x) =>
                 Content(Push(t, ch, x, y), j) = Content(t, j)
<1> DEFINE i == y * Cols + x
           u == Push(t, ch, x, y)
<1>1. Cols \in Nat /\ Rows \in Nat
    BY ScreenTyped
<1>2. CASE x >= Cols \/ y >= Rows
  <2>1. u = t
      BY <1>2 DEF Push
  <2> QED BY <2>1, <1>1, <1>2 DEF Drawn, But
<1>3. CASE x < Cols /\ y < Rows
  <2>a. i \in Cells
      BY <1>3, CellOf
  <2>b. ~(x >= Cols \/ y >= Rows)
      BY <1>1, <1>3
  <2>0. i \in Cells /\ ~(x >= Cols \/ y >= Rows)
      BY <2>a, <2>b
  <2> DEFINE Goal == Drawn(t, u) /\ Content(u, i) = ch
                     /\ \A j \in Cells : j # i => Content(u, j) = Content(t, j)
  <2>1. ASSUME i \in DOMAIN t.pend PROVE Goal
    <3>1. u = [t EXCEPT !.pend[i] = ch]
        BY <2>0, <2>1 DEF Push
    <3>2. u.pend = [t.pend EXCEPT ![i] = ch] /\ But(t, u, {"pend", "queue"}) /\ u.queue = t.queue
        BY <3>1, FieldNames DEF But
    <3> HIDE DEF u, i
    <3>3. QueueOK(u)
        BY <3>2 DEF QueueOK
    <3>4. u.grid = t.grid
        BY <3>2, FieldNames DEF But
    <3>5. Content(u, i) = ch
        BY <2>1, <3>2 DEF Content
    <3>6. \A j \in Cells : j # i => Content(u, j) = Content(t, j)
        BY <3>2, <3>4 DEF Content
    <3> QED BY <3>2, <3>3, <3>5, <3>6 DEF Drawn
  <2>2. ASSUME i \notin DOMAIN t.pend, t.grid[i] = ch PROVE Goal
    <3>1. u = t
        BY <2>0, <2>2 DEF Push
    <3>2. Content(t, i) = ch
        BY <2>2 DEF Content
    <3> QED BY <3>1, <3>2 DEF Drawn, But
  <2>3. ASSUME i \notin DOMAIN t.pend, t.grid[i] # ch PROVE Goal
    <3>1. u = Queued(t, i, ch)
        BY <2>0, <2>3 DEF Push
    <3> HIDE DEF u, i
    <3>2. Drawn(t, u) /\ u.pend = Over([j \in {i} |-> ch], t.pend)
        BY <2>0, <2>3, <3>1, QueuedIs
    <3>3. u.grid = t.grid
        BY <3>2, FieldNames DEF But, Drawn
    <3>4. Content(u, i) = ch
        BY <3>2 DEF Content, Over
    <3>5. \A j \in Cells : j # i => Content(u, j) = Content(t, j)
        BY <3>2, <3>3 DEF Content, Over
    <3> QED BY <3>2, <3>4, <3>5
  <2>4. Goal
      BY <2>1, <2>2, <2>3
  <2> HIDE DEF u
  <2> QED BY <1>3, <2>4 DEF u
<1> QED BY <1>1, <1>2, <1>3

\* Pushes follow each other.
LEMMA DrawnOn ==
    ASSUME NEW t, NEW u, NEW w, Drawn(t, u), Drawn(u, w)
    PROVE  Drawn(t, w)
BY DEF Drawn, But

-----------------------------------------------------------------------------
(* The loops. *)

\* Turn k of a loop, the loops of the terminal all in one, so that one induction
\* does for all their equations.
Turn(loop, a, k) ==
    CASE loop.of = "copy" -> Copy(a, loop.from + loop.d * (k - 1), loop.to + loop.d * (k - 1))
      [] loop.of = "blank" -> Push(a, loop.ch, (loop.first + k - 1) % Cols, (loop.first + k - 1) \div Cols)
      [] loop.of = "scroll" -> Scroll(a)
      [] loop.of = "revscroll" -> RevScroll(a)
      [] loop.of = "move" ->
             MoveCharacter(a, loop.newX + loop.d * (k - 1), loop.oldX + loop.d * (k - 1), loop.y)
      [] loop.of = "spaces" -> RawPutchar(a, " ", FALSE)
      [] loop.of = "insert" -> InsertAt(a, Cols - k, loop.y, loop.n)
      [] loop.of = "sgr" -> IF loop.taken[k - 1] > 0 THEN a ELSE SgrValue(a, loop.values, k)
      [] loop.of = "write" -> Putchar(a, loop.text[k])

\* The states between the first n turns of a loop from t on.
Turns(loop, t, n, f) == f = [k \in 0 .. n |-> IF k = 0 THEN t ELSE Turn(loop, f[k - 1], k)]

\* The equation of each loop has a solution, for any number of turns
\* (fb.c:548-611, flanterm.c:626-709).
LEMMA TurnsExist ==
    ASSUME NEW loop, NEW t, NEW n \in Nat
    PROVE  \E f : Turns(loop, t, n, f)
<1> DEFINE S == {k \in Nat : \E f : Turns(loop, t, k, f)}
<1>1. 0 \in S
  <2> DEFINE f == [i \in 0 .. 0 |-> t]
  <2>1. f = [i \in 0 .. 0 |-> IF i = 0 THEN t ELSE Turn(loop, f[i - 1], i)]
      OBVIOUS
  <2> HIDE DEF f
  <2> QED BY <2>1 DEF Turns
<1>2. ASSUME NEW k \in S PROVE k + 1 \in S
  <2>1. PICK g : g = [i \in 0 .. k |-> IF i = 0 THEN t ELSE Turn(loop, g[i - 1], i)]
      BY DEF Turns
  <2>2. k \in Nat /\ k + 1 \in Nat
      OBVIOUS
  <2> DEFINE h == [i \in 0 .. k + 1 |-> IF i = 0 THEN t ELSE Turn(loop, g[i - 1], i)]
  <2>3. ASSUME NEW i \in 0 .. k + 1, i # 0 PROVE h[i - 1] = g[i - 1]
    <3>1. i - 1 \in 0 .. k /\ i - 1 \in 0 .. k + 1
        BY <2>2, <2>3
    <3>2. g[i - 1] = IF i - 1 = 0 THEN t ELSE Turn(loop, g[i - 1 - 1], i - 1)
        BY <2>1, <3>1
    <3>3. h[i - 1] = IF i - 1 = 0 THEN t ELSE Turn(loop, g[i - 1 - 1], i - 1)
        BY <3>1
    <3> QED BY <3>2, <3>3
  <2>4. h = [i \in 0 .. k + 1 |-> IF i = 0 THEN t ELSE Turn(loop, h[i - 1], i)]
    <3> SUFFICES ASSUME NEW i \in 0 .. k + 1
                 PROVE  (IF i = 0 THEN t ELSE Turn(loop, g[i - 1], i))
                         = (IF i = 0 THEN t ELSE Turn(loop, h[i - 1], i))
        OBVIOUS
    <3> HIDE DEF h
    <3> QED BY <2>3
  <2> HIDE DEF h
  <2> QED BY <2>2, <2>4 DEF Turns
<1>3. S \in SUBSET Nat
    OBVIOUS
<1> HIDE DEF S
<1>4. S = Nat
    BY <1>1, <1>2, <1>3, SetInduction
<1> QED BY <1>4 DEF S

\* f is what a loop's state is after each of its turns.
Trace(loop, t, n, f) == f[0] = t /\ \A k \in 1 .. n : f[k] = Turn(loop, f[k - 1], k)

\* What a solution is turn by turn (fb.c:548-611, flanterm.c:626-709).
LEMMA TurnsTrace ==
    ASSUME NEW loop, NEW t, NEW n \in Nat, NEW f, Turns(loop, t, n, f)
    PROVE  Trace(loop, t, n, f)
<1>1. \A k \in 0 .. n : f[k] = IF k = 0 THEN t ELSE Turn(loop, f[k - 1], k)
    BY DEF Turns
<1> QED BY <1>1 DEF Trace

\* Copying a run of cells, turn by turn (fb.c:576-586).
LEMMA CopyRunIs ==
    ASSUME NEW t, NEW from, NEW to, NEW d, NEW n \in Nat
    PROVE  \E f : /\ n > 0 => CopyRun(t, from, to, d, n) = f[n]
                  /\ f[0] = t
                  /\ \A k \in 1 .. n : f[k] = Copy(f[k - 1], from + d * (k - 1), to + d * (k - 1))
<1> DEFINE loop == [of |-> "copy", from |-> from, to |-> to, d |-> d]
           f == CHOOSE g : g = [k \in 0 .. n |-> IF k = 0 THEN t ELSE Copy(g[k - 1], from + d * (k - 1), to + d * (k - 1))]
<1>1. \A a, k : Turn(loop, a, k) = Copy(a, from + d * (k - 1), to + d * (k - 1))
    BY DEF Turn
<1>2. n > 0 => CopyRun(t, from, to, d, n) = f[n]
    BY DEF CopyRun
<1> HIDE DEF loop
<1>3. PICK g : Turns(loop, t, n, g)
    BY TurnsExist
<1>4. g = [k \in 0 .. n |-> IF k = 0 THEN t ELSE Copy(g[k - 1], from + d * (k - 1), to + d * (k - 1))]
    BY <1>1, <1>3 DEF Turns
<1>5. f = [k \in 0 .. n |-> IF k = 0 THEN t ELSE Copy(f[k - 1], from + d * (k - 1), to + d * (k - 1))]
    BY <1>4
<1> HIDE DEF f
<1>6. Turns(loop, t, n, f)
    BY <1>1, <1>5 DEF Turns
<1>7. f[0] = t /\ \A k \in 1 .. n : f[k] = Copy(f[k - 1], from + d * (k - 1), to + d * (k - 1))
  <2>0. Trace(loop, t, n, f)
      BY <1>6, TurnsTrace
  <2>1. f[0] = t /\ \A k \in 1 .. n : f[k] = Turn(loop, f[k - 1], k)
      BY <2>0 DEF Trace
  <2>2. ASSUME NEW k \in 1 .. n PROVE f[k] = Copy(f[k - 1], from + d * (k - 1), to + d * (k - 1))
    <3>1. f[k] = Turn(loop, f[k - 1], k)
        BY <2>1
    <3>2. Turn(loop, f[k - 1], k) = Copy(f[k - 1], from + d * (k - 1), to + d * (k - 1))
        BY <1>1
    <3> QED BY <3>1, <3>2
  <2> QED BY <2>1, <2>2
<1> QED BY <1>2, <1>7

\* Blanking a run of cells, turn by turn (fb.c:605-607).
LEMMA BlankRunIs ==
    ASSUME NEW t, NEW first, NEW n \in Nat
    PROVE  \E f : /\ BlankRun(t, first, n) = f[n]
                  /\ f[0] = t
                  /\ \A k \in 1 .. n : f[k] = Push(f[k - 1], Blank(t), (first + k - 1) % Cols, (first + k - 1) \div Cols)
<1> DEFINE loop == [of |-> "blank", ch |-> Blank(t), first |-> first]
           f == CHOOSE g : g = [k \in 0 .. n |-> IF k = 0 THEN t ELSE Push(g[k - 1], Blank(t), (first + k - 1) % Cols, (first + k - 1) \div Cols)]
<1>1. \A a, k : Turn(loop, a, k) = Push(a, Blank(t), (first + k - 1) % Cols, (first + k - 1) \div Cols)
    BY DEF Turn
<1>2. BlankRun(t, first, n) = f[n]
    BY DEF BlankRun
<1> HIDE DEF loop
<1>3. PICK g : Turns(loop, t, n, g)
    BY TurnsExist
<1>4. g = [k \in 0 .. n |-> IF k = 0 THEN t ELSE Push(g[k - 1], Blank(t), (first + k - 1) % Cols, (first + k - 1) \div Cols)]
    BY <1>1, <1>3 DEF Turns
<1>5. f = [k \in 0 .. n |-> IF k = 0 THEN t ELSE Push(f[k - 1], Blank(t), (first + k - 1) % Cols, (first + k - 1) \div Cols)]
    BY <1>4
<1> HIDE DEF f
<1>6. Turns(loop, t, n, f)
    BY <1>1, <1>5 DEF Turns
<1>7. f[0] = t /\ \A k \in 1 .. n : f[k] = Push(f[k - 1], Blank(t), (first + k - 1) % Cols, (first + k - 1) \div Cols)
  <2>0. Trace(loop, t, n, f)
      BY <1>6, TurnsTrace
  <2>1. f[0] = t /\ \A k \in 1 .. n : f[k] = Turn(loop, f[k - 1], k)
      BY <2>0 DEF Trace
  <2>2. ASSUME NEW k \in 1 .. n PROVE f[k] = Push(f[k - 1], Blank(t), (first + k - 1) % Cols, (first + k - 1) \div Cols)
    <3>1. f[k] = Turn(loop, f[k - 1], k)
        BY <2>1
    <3>2. Turn(loop, f[k - 1], k) = Push(f[k - 1], Blank(t), (first + k - 1) % Cols, (first + k - 1) \div Cols)
        BY <1>1
    <3> QED BY <3>1, <3>2
  <2> QED BY <2>1, <2>2
<1> QED BY <1>2, <1>7

\* Scrolling n times (flanterm.c:626-631).
LEMMA ScrollsIs ==
    ASSUME NEW t, NEW n \in Nat
    PROVE  \E f : /\ Scrolls(t, n) = f[n]
                  /\ f[0] = t
                  /\ \A k \in 1 .. n : f[k] = Scroll(f[k - 1])
<1> DEFINE loop == [of |-> "scroll"]
           f == CHOOSE g : g = [k \in 0 .. n |-> IF k = 0 THEN t ELSE Scroll(g[k - 1])]
<1>1. \A a, k : Turn(loop, a, k) = Scroll(a)
    BY DEF Turn
<1>2. Scrolls(t, n) = f[n]
    BY DEF Scrolls
<1> HIDE DEF loop
<1>3. PICK g : Turns(loop, t, n, g)
    BY TurnsExist
<1>4. g = [k \in 0 .. n |-> IF k = 0 THEN t ELSE Scroll(g[k - 1])]
    BY <1>1, <1>3 DEF Turns
<1>5. f = [k \in 0 .. n |-> IF k = 0 THEN t ELSE Scroll(f[k - 1])]
    BY <1>4
<1> HIDE DEF f
<1>6. Turns(loop, t, n, f)
    BY <1>1, <1>5 DEF Turns
<1>7. f[0] = t /\ \A k \in 1 .. n : f[k] = Scroll(f[k - 1])
  <2>0. Trace(loop, t, n, f)
      BY <1>6, TurnsTrace
  <2>1. f[0] = t /\ \A k \in 1 .. n : f[k] = Turn(loop, f[k - 1], k)
      BY <2>0 DEF Trace
  <2>2. ASSUME NEW k \in 1 .. n PROVE f[k] = Scroll(f[k - 1])
    <3>1. f[k] = Turn(loop, f[k - 1], k)
        BY <2>1
    <3>2. Turn(loop, f[k - 1], k) = Scroll(f[k - 1])
        BY <1>1
    <3> QED BY <3>1, <3>2
  <2> QED BY <2>1, <2>2
<1> QED BY <1>2, <1>7

\* Scrolling down n times (flanterm.c:632-641).
LEMMA RevScrollsIs ==
    ASSUME NEW t, NEW n \in Nat
    PROVE  \E f : /\ RevScrolls(t, n) = f[n]
                  /\ f[0] = t
                  /\ \A k \in 1 .. n : f[k] = RevScroll(f[k - 1])
<1> DEFINE loop == [of |-> "revscroll"]
           f == CHOOSE g : g = [k \in 0 .. n |-> IF k = 0 THEN t ELSE RevScroll(g[k - 1])]
<1>1. \A a, k : Turn(loop, a, k) = RevScroll(a)
    BY DEF Turn
<1>2. RevScrolls(t, n) = f[n]
    BY DEF RevScrolls
<1> HIDE DEF loop
<1>3. PICK g : Turns(loop, t, n, g)
    BY TurnsExist
<1>4. g = [k \in 0 .. n |-> IF k = 0 THEN t ELSE RevScroll(g[k - 1])]
    BY <1>1, <1>3 DEF Turns
<1>5. f = [k \in 0 .. n |-> IF k = 0 THEN t ELSE RevScroll(f[k - 1])]
    BY <1>4
<1> HIDE DEF f
<1>6. Turns(loop, t, n, f)
    BY <1>1, <1>5 DEF Turns
<1>7. f[0] = t /\ \A k \in 1 .. n : f[k] = RevScroll(f[k - 1])
  <2>0. Trace(loop, t, n, f)
      BY <1>6, TurnsTrace
  <2>1. f[0] = t /\ \A k \in 1 .. n : f[k] = Turn(loop, f[k - 1], k)
      BY <2>0 DEF Trace
  <2>2. ASSUME NEW k \in 1 .. n PROVE f[k] = RevScroll(f[k - 1])
    <3>1. f[k] = Turn(loop, f[k - 1], k)
        BY <2>1
    <3>2. Turn(loop, f[k - 1], k) = RevScroll(f[k - 1])
        BY <1>1
    <3> QED BY <3>1, <3>2
  <2> QED BY <2>1, <2>2
<1> QED BY <1>2, <1>7

\* Moving characters of a row (flanterm.c:707-709).
LEMMA MoveRunIs ==
    ASSUME NEW t, NEW newX, NEW oldX, NEW y, NEW d, NEW n \in Nat
    PROVE  \E f : /\ n > 0 => MoveRun(t, newX, oldX, y, d, n) = f[n]
                  /\ f[0] = t
                  /\ \A k \in 1 .. n : f[k] = MoveCharacter(f[k - 1], newX + d * (k - 1), oldX + d * (k - 1), y)
<1> DEFINE loop == [of |-> "move", newX |-> newX, oldX |-> oldX, y |-> y, d |-> d]
           f == CHOOSE g : g = [k \in 0 .. n |-> IF k = 0 THEN t ELSE MoveCharacter(g[k - 1], newX + d * (k - 1), oldX + d * (k - 1), y)]
<1>1. \A a, k : Turn(loop, a, k) = MoveCharacter(a, newX + d * (k - 1), oldX + d * (k - 1), y)
    BY DEF Turn
<1>2. n > 0 => MoveRun(t, newX, oldX, y, d, n) = f[n]
    BY DEF MoveRun
<1> HIDE DEF loop
<1>3. PICK g : Turns(loop, t, n, g)
    BY TurnsExist
<1>4. g = [k \in 0 .. n |-> IF k = 0 THEN t ELSE MoveCharacter(g[k - 1], newX + d * (k - 1), oldX + d * (k - 1), y)]
    BY <1>1, <1>3 DEF Turns
<1>5. f = [k \in 0 .. n |-> IF k = 0 THEN t ELSE MoveCharacter(f[k - 1], newX + d * (k - 1), oldX + d * (k - 1), y)]
    BY <1>4
<1> HIDE DEF f
<1>6. Turns(loop, t, n, f)
    BY <1>1, <1>5 DEF Turns
<1>7. f[0] = t /\ \A k \in 1 .. n : f[k] = MoveCharacter(f[k - 1], newX + d * (k - 1), oldX + d * (k - 1), y)
  <2>0. Trace(loop, t, n, f)
      BY <1>6, TurnsTrace
  <2>1. f[0] = t /\ \A k \in 1 .. n : f[k] = Turn(loop, f[k - 1], k)
      BY <2>0 DEF Trace
  <2>2. ASSUME NEW k \in 1 .. n PROVE f[k] = MoveCharacter(f[k - 1], newX + d * (k - 1), oldX + d * (k - 1), y)
    <3>1. f[k] = Turn(loop, f[k - 1], k)
        BY <2>1
    <3>2. Turn(loop, f[k - 1], k) = MoveCharacter(f[k - 1], newX + d * (k - 1), oldX + d * (k - 1), y)
        BY <1>1
    <3> QED BY <3>1, <3>2
  <2> QED BY <2>1, <2>2
<1> QED BY <1>2, <1>7

\* A space, which does not scroll the screen.
Space(t) == RawPutchar(t, " ", FALSE)

\* Writing n spaces (flanterm.c:664-673).
LEMMA SpacesIs ==
    ASSUME NEW t, NEW n \in Nat
    PROVE  \E f : /\ Spaces(t, n) = f[n]
                  /\ f[0] = t
                  /\ \A k \in 1 .. n : f[k] = Space(f[k - 1])
<1> DEFINE loop == [of |-> "spaces"]
           f == CHOOSE g : g = [k \in 0 .. n |-> IF k = 0 THEN t ELSE Space(g[k - 1])]
<1>1. \A a, k : Turn(loop, a, k) = Space(a)
    BY DEF Turn, Space
<1>2. Spaces(t, n) = f[n]
    BY DEF Spaces, Space
<1> HIDE DEF loop
<1>3. PICK g : Turns(loop, t, n, g)
    BY TurnsExist
<1>4. g = [k \in 0 .. n |-> IF k = 0 THEN t ELSE Space(g[k - 1])]
    BY <1>1, <1>3 DEF Turns
<1>5. f = [k \in 0 .. n |-> IF k = 0 THEN t ELSE Space(f[k - 1])]
    BY <1>4
<1> HIDE DEF f
<1>6. Turns(loop, t, n, f)
    BY <1>1, <1>5 DEF Turns
<1>7. f[0] = t /\ \A k \in 1 .. n : f[k] = Space(f[k - 1])
  <2>0. Trace(loop, t, n, f)
      BY <1>6, TurnsTrace
  <2>1. f[0] = t /\ \A k \in 1 .. n : f[k] = Turn(loop, f[k - 1], k)
      BY <2>0 DEF Trace
  <2>2. ASSUME NEW k \in 1 .. n PROVE f[k] = Space(f[k - 1])
    <3>1. f[k] = Turn(loop, f[k - 1], k)
        BY <2>1
    <3>2. Turn(loop, f[k - 1], k) = Space(f[k - 1])
        BY <1>1
    <3> QED BY <3>1, <3>2
  <2> QED BY <2>1, <2>2
<1> QED BY <1>2, <1>7

\* Inserting n blanks, from the end of the row (flanterm.c:697-703).
LEMMA InsertCharsIs ==
    ASSUME NEW t, NEW x, NEW y, NEW n, NEW m \in Nat, m = Cols - x
    PROVE  \E f : /\ InsertChars(t, x, y, n) = SetCursor(f[m], x, y)
                  /\ f[0] = t
                  /\ \A k \in 1 .. m : f[k] = InsertAt(f[k - 1], Cols - k, y, n)
<1> DEFINE loop == [of |-> "insert", n |-> n, y |-> y]
           f == CHOOSE g : g = [k \in 0 .. Cols - x |-> IF k = 0 THEN t ELSE InsertAt(g[k - 1], Cols - k, y, n)]
<1>1. \A a, k : Turn(loop, a, k) = InsertAt(a, Cols - k, y, n)
    BY DEF Turn
<1>2. InsertChars(t, x, y, n) = SetCursor(f[Cols - x], x, y)
    BY DEF InsertChars
<1> HIDE DEF loop
<1>3. PICK g : Turns(loop, t, Cols - x, g)
    BY TurnsExist
<1>4. g = [k \in 0 .. Cols - x |-> IF k = 0 THEN t ELSE InsertAt(g[k - 1], Cols - k, y, n)]
    BY <1>1, <1>3 DEF Turns
<1>5. f = [k \in 0 .. Cols - x |-> IF k = 0 THEN t ELSE InsertAt(f[k - 1], Cols - k, y, n)]
    BY <1>4
<1> HIDE DEF f
<1>6. Turns(loop, t, m, f)
    BY <1>1, <1>5 DEF Turns
<1>7. f[0] = t /\ \A k \in 1 .. m : f[k] = InsertAt(f[k - 1], Cols - k, y, n)
  <2>0. Trace(loop, t, m, f)
      BY <1>6, TurnsTrace
  <2>1. f[0] = t /\ \A k \in 1 .. m : f[k] = Turn(loop, f[k - 1], k)
      BY <2>0 DEF Trace
  <2>2. ASSUME NEW k \in 1 .. m PROVE f[k] = InsertAt(f[k - 1], Cols - k, y, n)
    <3>1. f[k] = Turn(loop, f[k - 1], k)
        BY <2>1
    <3>2. Turn(loop, f[k - 1], k) = InsertAt(f[k - 1], Cols - k, y, n)
        BY <1>1
    <3> QED BY <3>1, <3>2
  <2> QED BY <2>1, <2>2
<1> QED BY <1>2, <1>7

\* Writing a text, byte by byte (flanterm.c:112-120).
LEMMA WriteIs ==
    ASSUME NEW t, NEW s, Len(s) \in Nat
    PROVE  \E f : /\ Write(t, s) = f[Len(s)]
                  /\ f[0] = t
                  /\ \A k \in 1 .. Len(s) : f[k] = Putchar(f[k - 1], s[k])
<1> DEFINE loop == [of |-> "write", text |-> s]
           f == CHOOSE g : g = [k \in 0 .. Len(s) |-> IF k = 0 THEN t ELSE Putchar(g[k - 1], s[k])]
<1>1. \A a, k : Turn(loop, a, k) = Putchar(a, s[k])
    BY DEF Turn
<1>2. Write(t, s) = f[Len(s)]
    BY DEF Write
<1> HIDE DEF loop
<1>3. PICK g : Turns(loop, t, Len(s), g)
    BY TurnsExist
<1>4. g = [k \in 0 .. Len(s) |-> IF k = 0 THEN t ELSE Putchar(g[k - 1], s[k])]
    BY <1>1, <1>3 DEF Turns
<1>5. f = [k \in 0 .. Len(s) |-> IF k = 0 THEN t ELSE Putchar(f[k - 1], s[k])]
    BY <1>4
<1> HIDE DEF f
<1>6. Turns(loop, t, Len(s), f)
    BY <1>1, <1>5 DEF Turns
<1>7. f[0] = t /\ \A k \in 1 .. Len(s) : f[k] = Putchar(f[k - 1], s[k])
  <2>0. Trace(loop, t, Len(s), f)
      BY <1>6, TurnsTrace
  <2>1. f[0] = t /\ \A k \in 1 .. Len(s) : f[k] = Turn(loop, f[k - 1], k)
      BY <2>0 DEF Trace
  <2>2. ASSUME NEW k \in 1 .. Len(s) PROVE f[k] = Putchar(f[k - 1], s[k])
    <3>1. f[k] = Turn(loop, f[k - 1], k)
        BY <2>1
    <3>2. Turn(loop, f[k - 1], k) = Putchar(f[k - 1], s[k])
        BY <1>1
    <3> QED BY <3>1, <3>2
  <2> QED BY <2>1, <2>2
<1> QED BY <1>2, <1>7

-----------------------------------------------------------------------------
(* Drawing: what goes to the queue. *)

\* The position of a cell, as scrolling and clearing compute it (fb.c:559, 586, 606).
LEMMA PositionOf ==
    ASSUME NEW i \in Nat
    PROVE  /\ i % Cols \in Nat /\ i \div Cols \in Nat /\ i % Cols < Cols
           /\ (i \div Cols) * Cols + (i % Cols) = i
           /\ i \in Cells => i \div Cols < Rows
<1>1. Cols \in Nat \ {0} /\ Rows \in Nat /\ Cells = 0 .. Rows * Cols - 1 /\ Rows * Cols \in Nat
    BY ScreenTyped
<1>2. /\ i % Cols \in 0 .. Cols - 1 /\ i \div Cols \in Nat
      /\ i = Cols * (i \div Cols) + (i % Cols)
    BY <1>1
<1>3. Cols * (i \div Cols) = (i \div Cols) * Cols
    BY <1>1, <1>2
<1>4. ASSUME i \in Cells, i \div Cols >= Rows PROVE FALSE
  <2>1. (i \div Cols) * Cols >= Rows * Cols
      BY <1>1, <1>2, <1>4
  <2>2. i >= (i \div Cols) * Cols
      BY <1>1, <1>2, <1>3
  <2>3. i < Rows * Cols
      BY <1>1, <1>4
  <2> QED BY <1>1, <1>2, <2>1, <2>2, <2>3
<1> QED BY <1>1, <1>2, <1>3, <1>4

\* A character pushed to cell i (fb.c:559, 586, 606).
LEMMA PushCell ==
    ASSUME NEW t, DOMAIN t = Fields, QueueOK(t), NEW ch, NEW i \in Nat, NEW u,
           u = Push(t, ch, i % Cols, i \div Cols)
    PROVE  /\ Drawn(t, u)
           /\ i \in Cells => Content(u, i) = ch
           /\ \A j \in Cells : j # i => Content(u, j) = Content(t, j)
<1>1. PICK x, y : x = i % Cols /\ y = i \div Cols
    OBVIOUS
<1>2. x \in Nat /\ y \in Nat /\ x < Cols /\ y * Cols + x = i /\ (i \in Cells => y < Rows)
    BY <1>1, PositionOf
<1> QED BY <1>1, <1>2, PushIs

\* A cell copied to another (fb.c:551-559): what is on its way to it, or in it.
LEMMA CopyIs ==
    ASSUME NEW t, DOMAIN t = Fields, QueueOK(t), NEW from, NEW to \in Nat
    PROVE  /\ Drawn(t, Copy(t, from, to))
           /\ to \in Cells => Content(Copy(t, from, to), to) = Content(t, from)
           /\ \A j \in Cells : j # to => Content(Copy(t, from, to), j) = Content(t, j)
BY PushCell DEF Copy

\* Nothing has been drawn yet.
LEMMA NoneDrawn == ASSUME NEW t, QueueOK(t) PROVE Drawn(t, t)
BY DEF Drawn, But

\* What is drawn is the queue's alone: the state keeps its fields.
LEMMA DrawnFields ==
    ASSUME NEW t, DOMAIN t = Fields, NEW u, Drawn(t, u)
    PROVE  /\ DOMAIN u = Fields /\ QueueOK(u)
           /\ u.x = t.x /\ u.y = t.y /\ u.top = t.top /\ u.bottom = t.bottom
           /\ u.fg = t.fg /\ u.bg = t.bg /\ u.grid = t.grid /\ u.saved = t.saved
BY FieldNames DEF Drawn, But

\* A run of copies draws (fb.c:548-560, 576-586).
LEMMA CopyRunDraws ==
    ASSUME NEW t, DOMAIN t = Fields, QueueOK(t), NEW from, NEW to, NEW d, NEW n \in Int,
           \A k \in 1 .. n : to + d * (k - 1) \in Nat
    PROVE  Drawn(t, CopyRun(t, from, to, d, n))
<1>1. CASE n <= 0
    BY <1>1, NoneDrawn DEF CopyRun
<1>2. CASE n > 0
  <2>1. PICK f : /\ CopyRun(t, from, to, d, n) = f[n]
                 /\ f[0] = t
                 /\ \A k \in 1 .. n : f[k] = Copy(f[k - 1], from + d * (k - 1), to + d * (k - 1))
      BY <1>2, CopyRunIs
  <2> DEFINE S == {k \in Nat : Drawn(t, f[k])}
  <2>2. 0 \in S
      BY <2>1, NoneDrawn
  <2>3. ASSUME NEW k \in 1 .. n, k - 1 \in S PROVE k \in S
    <3>1. Drawn(t, f[k - 1]) /\ f[k] = Copy(f[k - 1], from + d * (k - 1), to + d * (k - 1))
        BY <2>1, <2>3
    <3>2. Drawn(f[k - 1], f[k])
        BY <3>1, DrawnFields, CopyIs
    <3> QED BY <3>1, <3>2, DrawnOn
  <2> HIDE DEF S
  <2>4. n \in S
      BY <1>2, <2>2, <2>3, BoundedInduction
  <2> QED BY <2>1, <2>4 DEF S
<1> QED BY <1>1, <1>2

\* A run of blanks (fb.c:563-570, 588-595, 605-607): those cells become blank, and
\* no other changes.
LEMMA BlankRunDraws ==
    ASSUME NEW t, DOMAIN t = Fields, QueueOK(t), NEW first \in Nat, NEW n \in Nat
    PROVE  /\ Drawn(t, BlankRun(t, first, n))
           /\ \A j \in Cells : Content(BlankRun(t, first, n), j) =
                 IF first <= j /\ j < first + n THEN Blank(t) ELSE Content(t, j)
<1>1. PICK f : /\ BlankRun(t, first, n) = f[n]
               /\ f[0] = t
               /\ \A k \in 1 .. n : f[k] = Push(f[k - 1], Blank(t), (first + k - 1) % Cols,
                                                (first + k - 1) \div Cols)
    BY BlankRunIs
<1> DEFINE P(k) == /\ Drawn(t, f[k])
                   /\ \A j \in Cells : Content(f[k], j) =
                         IF first <= j /\ j < first + k THEN Blank(t) ELSE Content(t, j)
           S == {k \in Nat : P(k)}
<1>2. 0 \in S
  <2>1. \A j \in Cells : ~(first <= j /\ j < first + 0)
      BY ScreenTyped
  <2> QED BY <1>1, <2>1, NoneDrawn
<1>3. ASSUME NEW k \in 1 .. n, k - 1 \in S PROVE k \in S
  <2>1. PICK i : i = first + k - 1
      OBVIOUS
  <2>2. i \in Nat
      BY <2>1
  <2>3. /\ Drawn(t, f[k - 1]) /\ f[k] = Push(f[k - 1], Blank(t), i % Cols, i \div Cols)
        /\ \A j \in Cells : Content(f[k - 1], j) =
              IF first <= j /\ j < first + (k - 1) THEN Blank(t) ELSE Content(t, j)
      BY <1>1, <1>3, <2>1
  <2>4. /\ Drawn(f[k - 1], f[k])
        /\ i \in Cells => Content(f[k], i) = Blank(t)
        /\ \A j \in Cells : j # i => Content(f[k], j) = Content(f[k - 1], j)
    <3>1. DOMAIN f[k - 1] = Fields /\ QueueOK(f[k - 1])
        BY <2>3, DrawnFields
    <3> QED BY <2>2, <2>3, <3>1, PushCell
  <2>5. Drawn(t, f[k])
      BY <2>3, <2>4, DrawnOn
  <2>6. ASSUME NEW j \in Cells
        PROVE  Content(f[k], j) = IF first <= j /\ j < first + k THEN Blank(t) ELSE Content(t, j)
    <3>1. j \in Int
        BY ScreenTyped
    <3>2. CASE j = i
        BY <2>1, <2>4, <3>1, <3>2
    <3>3. CASE j # i
      <4>1. first <= j /\ j < first + (k - 1) <=> first <= j /\ j < first + k
          BY <2>1, <3>1, <3>3
      <4> QED BY <2>3, <2>4, <3>3, <4>1
    <3> QED BY <3>2, <3>3
  <2> QED BY <2>5, <2>6
<1> HIDE DEF S
<1>4. n \in S
    BY <1>2, <1>3, BoundedInduction
<1>5. P(n)
    BY <1>4 DEF S
<1> QED BY <1>1, <1>5

\* The scroll region's margins are rows.
Region(t) == t.top \in Nat /\ t.bottom \in Nat \ {0}

\* Scrolling draws (fb.c:573-596).
LEMMA ScrollDraws ==
    ASSUME NEW t, DOMAIN t = Fields, QueueOK(t), Region(t)
    PROVE  Drawn(t, Scroll(t))
<1>1. PICK first, n, last : /\ first = (t.top + 1) * Cols /\ n = t.bottom * Cols - first
                            /\ last = (t.bottom - 1) * Cols
    OBVIOUS
<1>2. /\ first \in Nat /\ n \in Int /\ last \in Nat /\ Cols \in Nat
      /\ first - Cols \in Nat
  <2>1. Cols \in Nat /\ t.top \in Nat /\ t.bottom \in Nat /\ t.bottom - 1 \in Nat
      BY ScreenTyped DEF Region
  <2>2. (t.top + 1) * Cols = t.top * Cols + Cols /\ t.top * Cols \in Nat
      BY <2>1
  <2> QED BY <1>1, <2>1, <2>2
<1>3. PICK u : u = CopyRun(t, first, first - Cols, 1, n)
    OBVIOUS
<1>4. \A k \in 1 .. n : first - Cols + 1 * (k - 1) \in Nat
    BY <1>2
<1>5. Drawn(t, u)
    BY <1>2, <1>3, <1>4, CopyRunDraws
<1>6. Drawn(u, BlankRun(u, last, Cols))
    BY <1>2, <1>5, DrawnFields, BlankRunDraws
<1>7. Scroll(t) = BlankRun(u, last, Cols)
    BY <1>1, <1>3, <1>5, DrawnFields DEF Scroll, BlankRow
<1> QED BY <1>5, <1>6, <1>7, DrawnOn

\* Scrolling down draws (fb.c:545-571).
LEMMA RevScrollDraws ==
    ASSUME NEW t, DOMAIN t = Fields, QueueOK(t), Region(t)
    PROVE  Drawn(t, RevScroll(t))
<1>1. PICK last, n, first : /\ last = (t.bottom - 1) * Cols - 1 /\ n = last + 1 - t.top * Cols
                            /\ first = t.top * Cols
    OBVIOUS
<1>2. first \in Nat /\ n \in Int /\ last \in Int /\ Cols \in Nat /\ n = last + 1 - first
    BY <1>1, ScreenTyped DEF Region
<1>3. PICK u : u = CopyRun(t, last, last + Cols, -1, n)
    OBVIOUS
<1>4. \A k \in 1 .. n : last + Cols + (-1) * (k - 1) \in Nat
    BY <1>2
<1>5. Drawn(t, u)
    BY <1>2, <1>3, <1>4, CopyRunDraws
<1>6. Drawn(u, BlankRun(u, first, Cols))
    BY <1>2, <1>5, DrawnFields, BlankRunDraws
<1>7. RevScroll(t) = BlankRun(u, first, Cols)
    BY <1>1, <1>3, <1>5, DrawnFields DEF RevScroll, BlankRow
<1> QED BY <1>5, <1>6, <1>7, DrawnOn

\* So does scrolling n times (flanterm.c:626-631).
LEMMA ScrollsDraw ==
    ASSUME NEW t, DOMAIN t = Fields, QueueOK(t), Region(t), NEW n \in Nat
    PROVE  Drawn(t, Scrolls(t, n))
<1>1. PICK f : /\ Scrolls(t, n) = f[n]
               /\ f[0] = t
               /\ \A k \in 1 .. n : f[k] = Scroll(f[k - 1])
    BY ScrollsIs
<1> DEFINE S == {k \in Nat : Drawn(t, f[k])}
<1>2. 0 \in S
    BY <1>1, NoneDrawn
<1>3. ASSUME NEW k \in 1 .. n, k - 1 \in S PROVE k \in S
  <2>1. Drawn(t, f[k - 1]) /\ f[k] = Scroll(f[k - 1])
      BY <1>1, <1>3
  <2>2. DOMAIN f[k - 1] = Fields /\ QueueOK(f[k - 1]) /\ Region(f[k - 1])
      BY <2>1, DrawnFields DEF Region
  <2>3. Drawn(f[k - 1], f[k])
      BY <2>1, <2>2, ScrollDraws
  <2> QED BY <2>1, <2>3, DrawnOn
<1> HIDE DEF S
<1>4. n \in S
    BY <1>2, <1>3, BoundedInduction
<1> QED BY <1>1, <1>4 DEF S

\* And down n times (flanterm.c:632-641).
LEMMA RevScrollsDraw ==
    ASSUME NEW t, DOMAIN t = Fields, QueueOK(t), Region(t), NEW n \in Nat
    PROVE  Drawn(t, RevScrolls(t, n))
<1>1. PICK f : /\ RevScrolls(t, n) = f[n]
               /\ f[0] = t
               /\ \A k \in 1 .. n : f[k] = RevScroll(f[k - 1])
    BY RevScrollsIs
<1> DEFINE S == {k \in Nat : Drawn(t, f[k])}
<1>2. 0 \in S
    BY <1>1, NoneDrawn
<1>3. ASSUME NEW k \in 1 .. n, k - 1 \in S PROVE k \in S
  <2>1. Drawn(t, f[k - 1]) /\ f[k] = RevScroll(f[k - 1])
      BY <1>1, <1>3
  <2>2. DOMAIN f[k - 1] = Fields /\ QueueOK(f[k - 1]) /\ Region(f[k - 1])
      BY <2>1, DrawnFields DEF Region
  <2>3. Drawn(f[k - 1], f[k])
      BY <2>1, <2>2, RevScrollDraws
  <2> QED BY <2>1, <2>3, DrawnOn
<1> HIDE DEF S
<1>4. n \in S
    BY <1>2, <1>3, BoundedInduction
<1> QED BY <1>1, <1>4 DEF S

\* Clearing the screen draws (fb.c:598-607).
LEMMA ClearDraws ==
    ASSUME NEW t, DOMAIN t = Fields, QueueOK(t)
    PROVE  Drawn(t, Clear(t))
BY ScreenTyped, BlankRunDraws DEF Clear

\* Moving a character of a row draws (fb.c:643-662).
LEMMA MoveDraws ==
    ASSUME NEW t, DOMAIN t = Fields, QueueOK(t), NEW newX, NEW oldX, NEW y \in Nat
    PROVE  Drawn(t, MoveCharacter(t, newX, oldX, y))
<1>1. CASE newX \in 0 .. Cols - 1 /\ oldX \in 0 .. Cols - 1
  <2>1. y * Cols + newX \in Nat
      BY <1>1, ScreenTyped
  <2> QED BY <1>1, <2>1, CopyIs DEF MoveCharacter
<1>2. CASE ~(newX \in 0 .. Cols - 1 /\ oldX \in 0 .. Cols - 1)
    BY <1>2, NoneDrawn DEF MoveCharacter
<1> QED BY <1>1, <1>2

\* And a run of them (flanterm.c:707-709).
LEMMA MoveRunDraws ==
    ASSUME NEW t, DOMAIN t = Fields, QueueOK(t), NEW newX, NEW oldX, NEW y \in Nat, NEW d,
           NEW n \in Int
    PROVE  Drawn(t, MoveRun(t, newX, oldX, y, d, n))
<1>1. CASE n <= 0
    BY <1>1, NoneDrawn DEF MoveRun
<1>2. CASE n > 0
  <2>1. PICK f : /\ MoveRun(t, newX, oldX, y, d, n) = f[n]
                 /\ f[0] = t
                 /\ \A k \in 1 .. n : f[k] = MoveCharacter(f[k - 1], newX + d * (k - 1), oldX + d * (k - 1), y)
      BY <1>2, MoveRunIs
  <2> DEFINE S == {k \in Nat : Drawn(t, f[k])}
  <2>2. 0 \in S
      BY <2>1, NoneDrawn
  <2>3. ASSUME NEW k \in 1 .. n, k - 1 \in S PROVE k \in S
    <3>1. /\ Drawn(t, f[k - 1])
          /\ f[k] = MoveCharacter(f[k - 1], newX + d * (k - 1), oldX + d * (k - 1), y)
        BY <2>1, <2>3
    <3>2. Drawn(f[k - 1], f[k])
        BY <3>1, DrawnFields, MoveDraws
    <3> QED BY <3>1, <3>2, DrawnOn
  <2> HIDE DEF S
  <2>4. n \in S
      BY <1>2, <2>2, <2>3, BoundedInduction
  <2> QED BY <2>1, <2>4 DEF S
<1> QED BY <1>1, <1>2

-----------------------------------------------------------------------------
(* Writing: what moves the cursor. *)

\* A state the terminal may be in while it writes.  The column may have gone
\* beyond the row's end, as long as it does not scroll.
Ready(t) == DOMAIN t = Fields /\ QueueOK(t) /\ Region(t) /\ t.x \in Nat /\ t.y \in Nat

\* u is t after characters were written and the cursor moved.
Wrote(t, u) ==
    /\ QueueOK(u) /\ But(t, u, {"pend", "queue", "x", "y"})
    /\ u.x \in Nat /\ u.y \in Nat
    /\ t.bottom = Rows /\ t.y < Rows => u.y < Rows

\* Writes follow each other, and leave the margins alone.
LEMMA WroteOn ==
    ASSUME NEW t, Ready(t), NEW u, Wrote(t, u)
    PROVE  /\ Ready(u) /\ u.top = t.top /\ u.bottom = t.bottom
           /\ u.grid = t.grid /\ u.fg = t.fg /\ u.bg = t.bg
           /\ \A w : Wrote(u, w) => Wrote(t, w)
<1>1. DOMAIN u = Fields /\ u.top = t.top /\ u.bottom = t.bottom
      /\ u.grid = t.grid /\ u.fg = t.fg /\ u.bg = t.bg
    BY FieldNames DEF Wrote, But, Ready
<1>2. Ready(u)
    BY <1>1 DEF Ready, Region, Wrote
<1>3. ASSUME NEW w, Wrote(u, w) PROVE Wrote(t, w)
  <2>1. But(t, w, {"pend", "queue", "x", "y"})
      BY <1>3 DEF Wrote, But
  <2> QED BY <1>1, <1>3, <2>1 DEF Wrote
<1> QED BY <1>1, <1>2, <1>3

\* Drawing is a write that leaves the cursor where it is.
LEMMA DrawnWrote ==
    ASSUME NEW t, Ready(t), NEW u, Drawn(t, u)
    PROVE  Wrote(t, u) /\ u.x = t.x /\ u.y = t.y
<1>1. u.x = t.x /\ u.y = t.y
    BY DrawnFields DEF Ready
<1>2. But(t, u, {"pend", "queue", "x", "y"}) /\ QueueOK(u)
    BY DEF Drawn, But
<1> QED BY <1>1, <1>2 DEF Wrote, Ready

\* Positions are kept on the screen (fb.c:615-641).
LEMMA ClampIs ==
    ASSUME NEW v \in Int, NEW n \in Nat \ {0}
    PROVE  Clamp(v, n) \in 0 .. n - 1 /\ (v \in 0 .. n - 1 => Clamp(v, n) = v)
BY DEF Clamp

\* Where the cursor is said to be (fb.c:636-641).
LEMMA PosIs ==
    ASSUME NEW t, Ready(t)
    PROVE  /\ PosX(t) \in 0 .. Cols - 1 /\ PosY(t) \in 0 .. Rows - 1
           /\ t.x < Cols => PosX(t) = t.x
           /\ t.y < Rows => PosY(t) = t.y
<1>1. t.x \in Int /\ t.y \in Int /\ Cols \in Nat \ {0} /\ Rows \in Nat \ {0}
    BY ScreenTyped DEF Ready
<1>2. PosX(t) \in 0 .. Cols - 1 /\ (t.x \in 0 .. Cols - 1 => PosX(t) = t.x)
    BY <1>1, ClampIs DEF PosX
<1>3. PosY(t) \in 0 .. Rows - 1 /\ (t.y \in 0 .. Rows - 1 => PosY(t) = t.y)
    BY <1>1, ClampIs DEF PosY
<1>4. t.x \in Nat /\ t.y \in Nat
    BY DEF Ready
<1> QED BY <1>1, <1>2, <1>3, <1>4

\* The cursor is placed on the screen (fb.c:615-634).
LEMMA SetCursorIs ==
    ASSUME NEW t, Ready(t), NEW x \in Int, NEW y \in Int, NEW u, u = SetCursor(t, x, y)
    PROVE  /\ Wrote(t, u) /\ But(t, u, {"x", "y"})
           /\ u.x \in 0 .. Cols - 1 /\ u.y \in 0 .. Rows - 1
           /\ x \in 0 .. Cols - 1 => u.x = x
           /\ y \in 0 .. Rows - 1 => u.y = y
           /\ u.pend = t.pend /\ u.queue = t.queue
<1>1. /\ But(t, u, {"x", "y"}) /\ u.x = Clamp(x, Cols) /\ u.y = Clamp(y, Rows)
      /\ u.pend = t.pend /\ u.queue = t.queue
    BY FieldNames DEF SetCursor, But, Ready
<1>2. /\ u.x \in 0 .. Cols - 1 /\ u.y \in 0 .. Rows - 1
      /\ x \in 0 .. Cols - 1 => u.x = x
      /\ y \in 0 .. Rows - 1 => u.y = y
  <2>1. Cols \in Nat \ {0} /\ Rows \in Nat \ {0}
      BY ScreenTyped
  <2>2. u.x \in 0 .. Cols - 1 /\ (x \in 0 .. Cols - 1 => u.x = x)
      BY <1>1, <2>1, ClampIs
  <2>3. u.y \in 0 .. Rows - 1 /\ (y \in 0 .. Rows - 1 => u.y = y)
      BY <1>1, <2>1, ClampIs
  <2> QED BY <2>2, <2>3
<1>3. QueueOK(u) /\ But(t, u, {"pend", "queue", "x", "y"})
    BY <1>1 DEF QueueOK, Ready, But
<1>4. u.x \in Nat /\ u.y \in Nat /\ u.y < Rows
    BY <1>2, ScreenTyped
<1> QED BY <1>1, <1>2, <1>3, <1>4 DEF Wrote

\* A full row makes the cursor go to the next, which may scroll (fb.c:792-802):
\* as long as the region reaches down to the last row it does not leave the screen.
LEMMA WrappedWrites ==
    ASSUME NEW t, Ready(t)
    PROVE  Wrote(t, Wrapped(t)) /\ Wrapped(t).x = 0
<1>1. PICK s, y, z : /\ y = t.y + 1
                     /\ s = IF y = t.bottom THEN Scroll(t) ELSE t
                     /\ z = IF y = t.bottom THEN y - 1 ELSE y
    OBVIOUS
<1>2. PICK u : u = [s EXCEPT !.x = 0, !.y = IF z >= Cols THEN Cols - 1 ELSE z]
    OBVIOUS
<1>3. u = Wrapped(t)
    BY <1>1, <1>2 DEF Wrapped
<1>4. Drawn(t, s)
    BY <1>1, ScrollDraws, NoneDrawn DEF Ready
<1>5. DOMAIN s = Fields /\ QueueOK(s)
    BY <1>4, DrawnFields DEF Ready
<1>6. /\ u.x = 0 /\ u.y = IF z >= Cols THEN Cols - 1 ELSE z
      /\ But(s, u, {"x", "y"}) /\ u.pend = s.pend /\ u.queue = s.queue
    BY <1>2, <1>5, FieldNames DEF But
<1>7. QueueOK(u) /\ But(t, u, {"pend", "queue", "x", "y"})
    BY <1>4, <1>5, <1>6 DEF QueueOK, Drawn, But
<1>8. /\ t.y \in Nat /\ t.bottom \in Nat \ {0} /\ Cols \in Nat \ {0} /\ Rows \in Nat
    BY ScreenTyped DEF Ready, Region
<1>9. u.y \in Nat /\ (t.bottom = Rows /\ t.y < Rows => u.y < Rows)
    BY <1>1, <1>6, <1>8
<1> QED BY <1>3, <1>6, <1>7, <1>9 DEF Wrote

\* A character at the cursor (fb.c:789-809).
LEMMA RawPutcharWrites ==
    ASSUME NEW t, Ready(t), NEW c, NEW scrolls, NEW u, u = RawPutchar(t, c, scrolls)
    PROVE  /\ Wrote(t, u)
           /\ t.x < Cols => u.x = t.x + 1 /\ u.y = t.y
           /\ scrolls = TRUE => u.x \in 0 .. Cols
<1>1. PICK s : s = IF t.x >= Cols /\ (t.y < t.bottom - 1 \/ scrolls) THEN Wrapped(t) ELSE t
    OBVIOUS
<1>2. Wrote(t, s) /\ (t.x < Cols => s = t) /\ (scrolls = TRUE => s.x < Cols)
  <2>1. Wrote(t, t)
      BY DEF Wrote, But, Ready
  <2>2. Cols \in Nat \ {0} /\ t.x \in Nat
      BY ScreenTyped DEF Ready
  <2> QED BY <1>1, <2>1, <2>2, WrappedWrites
<1>3. Ready(s)
    BY <1>2, WroteOn
<1>4. PICK p : p = Push(s, << c, s.fg, s.bg >>, s.x, s.y)
    OBVIOUS
<1>5. Drawn(s, p)
    BY <1>3, <1>4, PushIs DEF Ready
<1>6. Ready(p) /\ Wrote(s, p) /\ p.x = s.x /\ p.y = s.y
    BY <1>3, <1>5, DrawnWrote, WroteOn
<1>7. u = [p EXCEPT !.x = p.x + 1]
    BY <1>1, <1>4 DEF RawPutchar
<1>8. /\ u.x = s.x + 1 /\ u.y = s.y /\ But(p, u, {"x"}) /\ u.pend = p.pend /\ u.queue = p.queue
      /\ u.bottom = p.bottom
    BY <1>6, <1>7, FieldNames DEF But, Ready
<1>9. Wrote(p, u)
  <2>1. QueueOK(u) /\ But(p, u, {"pend", "queue", "x", "y"})
      BY <1>6, <1>8 DEF QueueOK, Ready, But
  <2>2. u.x \in Nat /\ u.y \in Nat /\ u.y = p.y
      BY <1>3, <1>6, <1>8 DEF Ready
  <2> QED BY <1>6, <1>8, <2>1, <2>2 DEF Wrote, Ready
<1>10. Wrote(t, u)
    BY <1>2, <1>3, <1>6, <1>9, WroteOn
<1>11. scrolls = TRUE => u.x \in 0 .. Cols
    BY <1>2, <1>3, <1>8, ScreenTyped DEF Ready
<1> QED BY <1>2, <1>8, <1>10, <1>11

\* n spaces (flanterm.c:664-673); in the row, the cursor moves by n.
LEMMA SpacesWrite ==
    ASSUME NEW t, Ready(t), NEW n \in Nat
    PROVE  Wrote(t, Spaces(t, n)) /\ (t.x + n <= Cols => Spaces(t, n).x = t.x + n)
<1>1. PICK f : /\ Spaces(t, n) = f[n]
               /\ f[0] = t
               /\ \A k \in 1 .. n : f[k] = Space(f[k - 1])
    BY SpacesIs
<1> DEFINE P(k) == Wrote(t, f[k]) /\ (t.x + k <= Cols => f[k].x = t.x + k)
           S == {k \in Nat : P(k)}
<1>2. 0 \in S
  <2>1. Wrote(t, t) /\ t.x + 0 = t.x
      BY DEF Wrote, But, Ready
  <2> QED BY <1>1, <2>1
<1>3. ASSUME NEW k \in 1 .. n, k - 1 \in S PROVE k \in S
  <2>0. PICK a, b : a = f[k - 1] /\ b = f[k]
      OBVIOUS
  <2>1. b = RawPutchar(a, " ", FALSE)
      BY <1>1, <1>3, <2>0 DEF Space
  <2>2. Wrote(t, a) /\ (t.x + (k - 1) <= Cols => a.x = t.x + (k - 1))
      BY <1>3, <2>0
  <2>3. Ready(a)
      BY <2>2, WroteOn
  <2>4. Wrote(a, b) /\ (a.x < Cols => b.x = a.x + 1)
      BY <2>1, <2>3, RawPutcharWrites
  <2>5. Wrote(t, b)
      BY <2>2, <2>4, WroteOn
  <2>6. t.x \in Nat /\ Cols \in Nat /\ k \in Nat
      BY ScreenTyped DEF Ready
  <2>7. t.x + k <= Cols => b.x = t.x + k
      BY <2>2, <2>4, <2>6
  <2> QED BY <2>0, <2>5, <2>7
<1> HIDE DEF S
<1>4. n \in S
    BY <1>2, <1>3, BoundedInduction
<1>5. P(n)
    BY <1>4 DEF S
<1> QED BY <1>1, <1>5

\* u is t after characters were written and the cursor placed.
Moved(t, u) == Wrote(t, u) /\ u.x \in 0 .. Cols

\* The last of several writes places the cursor.
LEMMA MovedOn ==
    ASSUME NEW t, Ready(t), NEW u, Wrote(t, u), NEW w, Moved(u, w)
    PROVE  Moved(t, w)
BY WroteOn DEF Moved

\* The cursor is placed (fb.c:615-634).
LEMMA SetCursorMoves ==
    ASSUME NEW t, Ready(t), NEW x \in Int, NEW y \in Int
    PROVE  Moved(t, SetCursor(t, x, y))
<1>1. PICK u : u = SetCursor(t, x, y)
    OBVIOUS
<1>2. Wrote(t, u) /\ u.x \in 0 .. Cols - 1
    BY <1>1, SetCursorIs
<1> QED BY <1>1, <1>2, ScreenTyped DEF Moved

\* Blanks, and the cursor is placed (flanterm.c:664-673).
LEMMA SpacesMove ==
    ASSUME NEW t, Ready(t), NEW n \in Nat, NEW x \in Int, NEW y \in Int
    PROVE  Moved(t, SetCursor(Spaces(t, n), x, y))
<1>1. PICK s : s = Spaces(t, n)
    OBVIOUS
<1>2. Wrote(t, s)
    BY <1>1, SpacesWrite
<1>3. Moved(s, SetCursor(s, x, y))
    BY <1>2, WroteOn, SetCursorMoves
<1> QED BY <1>1, <1>2, <1>3, MovedOn

\* The same from a position on the screen (flanterm.c:664-673).
LEMMA SpacesMoveFrom ==
    ASSUME NEW t, Ready(t), NEW n \in Nat, NEW x \in Int, NEW y \in Int, NEW a \in Int, NEW b \in Int
    PROVE  Moved(t, SetCursor(Spaces(SetCursor(t, a, b), n), x, y))
<1>1. PICK s : s = SetCursor(t, a, b)
    OBVIOUS
<1>2. Wrote(t, s)
    BY <1>1, SetCursorIs
<1>3. Moved(s, SetCursor(Spaces(s, n), x, y))
    BY <1>2, WroteOn, SpacesMove
<1> QED BY <1>1, <1>2, <1>3, MovedOn

\* Cursor up (flanterm.c:543-561).
LEMMA UpMoves ==
    ASSUME NEW t, Ready(t), NEW x \in Int, NEW y \in Int, NEW n \in Int
    PROVE  Moved(t, Up(t, x, y, n))
<1>1. PICK to : to = Clamp(y - n, Rows)
    OBVIOUS
<1>2. PICK z : z = IF (t.top \in to .. y \/ t.bottom \in to .. y) /\ to < t.top THEN t.top ELSE to
    OBVIOUS
<1>3. Up(t, x, y, n) = SetCursor(t, x, z)
    BY <1>1, <1>2 DEF Up
<1>4. to \in Int
    BY <1>1, ScreenTyped DEF Clamp
<1>5. z \in Int
    BY <1>2, <1>4 DEF Ready, Region
<1> QED BY <1>3, <1>5, SetCursorMoves

\* Cursor down (flanterm.c:562-581).
LEMMA DownMoves ==
    ASSUME NEW t, Ready(t), NEW x \in Int, NEW y \in Int, NEW n \in Int
    PROVE  Moved(t, Down(t, x, y, n))
<1>1. PICK to : to = Clamp(y + n, Rows)
    OBVIOUS
<1>2. PICK z : z = IF (t.top \in y .. to \/ t.bottom \in y .. to) /\ to >= t.bottom THEN t.bottom - 1 ELSE to
    OBVIOUS
<1>3. Down(t, x, y, n) = SetCursor(t, x, z)
    BY <1>1, <1>2 DEF Down
<1>4. to \in Int
    BY <1>1, ScreenTyped DEF Clamp
<1>5. z \in Int
    BY <1>2, <1>4 DEF Ready, Region
<1> QED BY <1>3, <1>5, SetCursorMoves

\* Erasing in the screen (flanterm.c:661-695).
LEMMA EraseScreenMoves ==
    ASSUME NEW t, Ready(t), t.x \in 0 .. Cols, NEW x \in 0 .. Cols - 1, NEW y \in 0 .. Rows - 1, NEW n
    PROVE  Moved(t, EraseScreen(t, x, y, n))
<1>1. /\ x \in Int /\ y \in Int /\ Cols \in Nat /\ Rows \in Nat /\ Rows - y - 1 \in Nat /\ Cols - x \in Nat
      /\ x \in Nat /\ y \in Nat
    BY ScreenTyped
<1>2. CASE n = 0
  <2>1. PICK a, b : a = Rows - y - 1 /\ b = Cols - x
      OBVIOUS
  <2>2. a * Cols + b \in Nat /\ a * Cols + b = (Rows - y - 1) * Cols + Cols - x
    <3>1. a \in Nat /\ b \in Nat /\ a * Cols \in Nat
        BY <1>1, <2>1
    <3> QED BY <1>1, <2>1, <3>1
  <2>3. EraseScreen(t, x, y, n) = SetCursor(Spaces(t, a * Cols + b), x, y)
      BY <1>2, <2>2 DEF EraseScreen
  <2> QED BY <1>1, <2>2, <2>3, SpacesMove
<1>3. CASE n = 1
  <2>1. PICK m : m = y * Cols + x + 1
      OBVIOUS
  <2>2. m \in Nat
    <3>1. y * Cols \in Nat
        BY <1>1
    <3> QED BY <1>1, <2>1, <3>1
  <2>3. EraseScreen(t, x, y, n) = SetCursor(Spaces(SetCursor(t, 0, 0), m), x, y)
      BY <1>3, <2>1 DEF EraseScreen
  <2>4. Moved(t, SetCursor(Spaces(SetCursor(t, 0, 0), m), x, y))
    <3>1. x \in Int /\ y \in Int /\ 0 \in Int /\ m \in Nat
        BY <1>1, <2>2
    <3> QED BY ONLY <3>1, Ready(t), SpacesMoveFrom
  <2> QED BY <2>3, <2>4
<1>4. CASE n \in {2, 3}
  <2>1. EraseScreen(t, x, y, n) = Clear(t)
      BY <1>4 DEF EraseScreen
  <2>2. Wrote(t, Clear(t)) /\ Clear(t).x = t.x
      BY ClearDraws, DrawnWrote DEF Ready
  <2> QED BY <2>1, <2>2 DEF Moved
<1>5. CASE n \notin {0, 1, 2, 3}
  <2>1. EraseScreen(t, x, y, n) = t
      BY <1>5 DEF EraseScreen
  <2> QED BY <2>1 DEF Moved, Wrote, But, Ready
<1> QED BY <1>2, <1>3, <1>4, <1>5

\* Erasing in the row (flanterm.c:728-750).
LEMMA EraseLineMoves ==
    ASSUME NEW t, Ready(t), t.x \in 0 .. Cols, NEW x \in 0 .. Cols - 1, NEW y \in 0 .. Rows - 1, NEW n
    PROVE  Moved(t, EraseLine(t, x, y, n))
<1>1. /\ x \in Int /\ y \in Int /\ Cols \in Nat \ {0} /\ Cols - x \in Nat /\ x \in Nat
    BY ScreenTyped
<1>2. CASE n = 0
  <2>1. EraseLine(t, x, y, n) = SetCursor(Spaces(t, Cols - x), x, y)
      BY <1>2 DEF EraseLine
  <2> QED BY <1>1, <2>1, SpacesMove
<1>3. CASE n = 1
  <2>1. EraseLine(t, x, y, n) = Spaces(SetCursor(t, 0, y), x)
      BY <1>3 DEF EraseLine
  <2>2. PICK s : s = SetCursor(t, 0, y)
      OBVIOUS
  <2>3. Wrote(t, s) /\ s.x = 0
      BY <1>1, <2>2, SetCursorIs
  <2>4. Wrote(s, Spaces(s, x)) /\ Spaces(s, x).x = s.x + x
    <3>1. s.x + x <= Cols
        BY <1>1, <2>3
    <3> QED BY <1>1, <2>3, <3>1, WroteOn, SpacesWrite
  <2>5. Moved(s, Spaces(s, x))
      BY <1>1, <2>3, <2>4 DEF Moved
  <2> QED BY <2>1, <2>2, <2>3, <2>5, MovedOn
<1>4. CASE n = 2
  <2>1. EraseLine(t, x, y, n) = SetCursor(Spaces(SetCursor(t, 0, y), Cols), x, y)
      BY <1>4 DEF EraseLine
  <2>2. Moved(t, SetCursor(Spaces(SetCursor(t, 0, y), Cols), x, y))
    <3>1. x \in Int /\ y \in Int /\ 0 \in Int /\ Cols \in Nat
        BY <1>1
    <3> QED BY ONLY <3>1, Ready(t), SpacesMoveFrom
  <2> QED BY <2>1, <2>2
<1>5. CASE n \notin {0, 1, 2}
  <2>1. EraseLine(t, x, y, n) = t
      BY <1>5 DEF EraseLine
  <2> QED BY <2>1 DEF Moved, Wrote, But, Ready
<1> QED BY <1>2, <1>3, <1>4, <1>5

\* A blank put in the place of a character that moves away (flanterm.c:697-703).
LEMMA InsertAtWrites ==
    ASSUME NEW t, Ready(t), NEW i \in Int, NEW y \in Nat, NEW n
    PROVE  Wrote(t, InsertAt(t, i, y, n))
<1>1. PICK m, s : m = MoveCharacter(t, i + n, i, y) /\ s = SetCursor(m, i, y)
    OBVIOUS
<1>2. Drawn(t, m)
    BY <1>1, MoveDraws DEF Ready
<1>3. Wrote(t, m) /\ Ready(m)
    BY <1>2, DrawnWrote, WroteOn
<1>4. Wrote(m, s)
    BY <1>1, <1>3, SetCursorIs
<1>5. Ready(s)
    BY <1>3, <1>4, WroteOn
<1>6. PICK u : u = RawPutchar(s, " ", FALSE)
    OBVIOUS
<1>7. Wrote(s, u)
    BY <1>5, <1>6, RawPutcharWrites
<1>8. Wrote(t, u)
    BY <1>3, <1>4, <1>5, <1>7, WroteOn
<1> QED BY <1>1, <1>6, <1>8 DEF InsertAt

\* Inserting characters (flanterm.c:696-706).
LEMMA InsertCharsMoves ==
    ASSUME NEW t, Ready(t), NEW x \in 0 .. Cols - 1, NEW y \in Nat, NEW n
    PROVE  Moved(t, InsertChars(t, x, y, n))
<1>1. PICK m : m = Cols - x
    OBVIOUS
<1>2. m \in Nat /\ Cols \in Nat /\ x \in Int /\ y \in Int
    BY <1>1, ScreenTyped
<1>3. PICK f : /\ InsertChars(t, x, y, n) = SetCursor(f[m], x, y)
               /\ f[0] = t
               /\ \A k \in 1 .. m : f[k] = InsertAt(f[k - 1], Cols - k, y, n)
    BY <1>1, <1>2, InsertCharsIs
<1> DEFINE S == {k \in Nat : Wrote(t, f[k])}
<1>4. 0 \in S
  <2>1. Wrote(t, t)
      BY DEF Wrote, But, Ready
  <2> QED BY <1>3, <2>1
<1>5. ASSUME NEW k \in 1 .. m, k - 1 \in S PROVE k \in S
  <2>0. PICK a, b, i : a = f[k - 1] /\ b = f[k] /\ i = Cols - k
      OBVIOUS
  <2>1. b = InsertAt(a, i, y, n) /\ Wrote(t, a) /\ i \in Int
      BY <1>2, <1>3, <1>5, <2>0
  <2>2. Wrote(a, b)
      BY <2>1, WroteOn, InsertAtWrites
  <2>3. Wrote(t, b)
      BY <2>1, <2>2, WroteOn
  <2> QED BY <2>0, <2>3
<1> HIDE DEF S
<1>6. m \in S
    BY <1>2, <1>4, <1>5, BoundedInduction
<1>7. PICK s : s = f[m]
    OBVIOUS
<1>8. Wrote(t, s)
    BY <1>6, <1>7 DEF S
<1>9. Moved(s, SetCursor(s, x, y))
    BY <1>2, <1>8, WroteOn, SetCursorMoves
<1> QED BY <1>3, <1>7, <1>8, <1>9, MovedOn

\* Erasing characters (flanterm.c:712-718).
LEMMA EraseCharsMoves ==
    ASSUME NEW t, Ready(t), NEW x \in Int, NEW y \in Int, NEW n \in Nat
    PROVE  Moved(t, EraseChars(t, x, y, n))
<1>1. PICK m : m = IF n > Cols THEN Cols ELSE n
    OBVIOUS
<1>2. m \in Nat
    BY <1>1, ScreenTyped
<1> QED BY <1>1, <1>2, SpacesMove DEF EraseChars

\* Deleting characters (flanterm.c:707-718).
LEMMA DeleteCharsMoves ==
    ASSUME NEW t, Ready(t), NEW x \in Int, NEW y \in Nat, NEW n \in Nat
    PROVE  Moved(t, DeleteChars(t, x, y, n))
<1>1. PICK k, i : k = Cols - x - n /\ i = Cols - n
    OBVIOUS
<1>2. PICK m, s : m = MoveRun(t, x, x + n, y, 1, k) /\ s = SetCursor(m, i, y)
    OBVIOUS
<1>3. k \in Int /\ i \in Int /\ y \in Int
    BY <1>1, ScreenTyped
<1>4. Drawn(t, m)
    BY <1>2, <1>3, MoveRunDraws DEF Ready
<1>5. Wrote(t, m) /\ Ready(m)
    BY <1>4, DrawnWrote, WroteOn
<1>6. Wrote(m, s)
    BY <1>2, <1>3, <1>5, SetCursorIs
<1>7. Wrote(t, s) /\ Ready(s)
    BY <1>5, <1>6, WroteOn
<1>8. Moved(s, EraseChars(s, x, y, n))
    BY <1>3, <1>7, EraseCharsMoves
<1> QED BY <1>1, <1>2, <1>7, <1>8, MovedOn DEF DeleteChars

\* Inserting rows: the top margin comes back (flanterm.c:632-641).
LEMMA InsertLinesMoves ==
    ASSUME NEW t, Ready(t), t.x \in 0 .. Cols, NEW y \in Nat, NEW n \in Nat
    PROVE  Moved(t, InsertLines(t, y, n))
<1>1. PICK s, m : s = [t EXCEPT !.top = y] /\ m = AtMostRows(n)
    OBVIOUS
<1>2. m \in Nat
    BY <1>1, ScreenTyped DEF AtMostRows
<1>3. /\ But(t, s, {"top"}) /\ s.top = y /\ s.pend = t.pend /\ s.queue = t.queue
      /\ s.bottom = t.bottom /\ s.x = t.x /\ s.y = t.y /\ DOMAIN s = Fields
    BY <1>1, FieldNames DEF But, Ready
<1>4. Ready(s)
    BY <1>3 DEF Ready, Region, QueueOK
<1>5. PICK d : d = RevScrolls(s, m)
    OBVIOUS
<1>6. Drawn(s, d)
    BY <1>2, <1>4, <1>5, RevScrollsDraw DEF Ready
<1>7. DOMAIN d = Fields /\ QueueOK(d) /\ But(s, d, {"pend", "queue"}) /\ d.x = s.x /\ d.y = s.y
    BY <1>4, <1>6, DrawnFields DEF Ready, Drawn
<1>8. PICK u : u = [d EXCEPT !.top = t.top]
    OBVIOUS
<1>9. But(d, u, {"top"}) /\ u.top = t.top /\ u.pend = d.pend /\ u.queue = d.queue /\ u.x = d.x /\ u.y = d.y
    BY <1>7, <1>8, FieldNames DEF But
<1>10. But(t, u, {"pend", "queue", "x", "y"})
    BY <1>3, <1>7, <1>9 DEF But
<1>11. QueueOK(u)
    BY <1>7, <1>9 DEF QueueOK
<1>12. u.x = t.x /\ u.y = t.y
    BY <1>3, <1>7, <1>9
<1>13. Moved(t, u)
    BY <1>10, <1>11, <1>12 DEF Moved, Wrote, Ready
<1> QED BY <1>1, <1>5, <1>8, <1>13 DEF InsertLines

\* A line feed scrolls in the last row of the region, and else goes down
\* (flanterm.c:1278-1326).
LEMMA NextLineMoves ==
    ASSUME NEW t, Ready(t), NEW x \in Int
    PROVE  Moved(t, NextLine(t, x))
<1>1. PICK y : y = PosY(t)
    OBVIOUS
<1>2. y \in Int /\ y + 1 \in Int
    BY <1>1, PosIs, ScreenTyped
<1>3. CASE y = t.bottom - 1
  <2>1. PICK s : s = Scroll(t)
      OBVIOUS
  <2>2. Wrote(t, s) /\ Ready(s)
      BY <2>1, ScrollDraws, DrawnWrote, WroteOn DEF Ready
  <2>3. Moved(s, SetCursor(s, x, y))
      BY <1>2, <2>2, SetCursorMoves
  <2> QED BY <1>1, <1>3, <2>1, <2>2, <2>3, MovedOn DEF NextLine
<1>4. CASE y # t.bottom - 1
    BY <1>1, <1>2, <1>4, SetCursorMoves DEF NextLine
<1> QED BY <1>3, <1>4

\* And a reverse line feed (flanterm.c:866-874).
LEMMA PreviousLineMoves ==
    ASSUME NEW t, Ready(t)
    PROVE  Moved(t, PreviousLine(t))
<1>1. PICK y : y = PosY(t)
    OBVIOUS
<1>2. y \in Int /\ y - 1 \in Int /\ 0 \in Int
    BY <1>1, PosIs, ScreenTyped
<1>3. CASE y = t.top
  <2>1. PICK s : s = RevScroll(t)
      OBVIOUS
  <2>2. Wrote(t, s) /\ Ready(s)
      BY <2>1, RevScrollDraws, DrawnWrote, WroteOn DEF Ready
  <2>3. Moved(s, SetCursor(s, 0, y))
      BY <1>2, <2>2, SetCursorMoves
  <2> QED BY <1>1, <1>3, <2>1, <2>2, <2>3, MovedOn DEF PreviousLine
<1>4. CASE y # t.top
    BY <1>1, <1>2, <1>4, SetCursorMoves DEF PreviousLine
<1> QED BY <1>3, <1>4

\* A printable character, in insert mode or not (flanterm.c:1328-1353).
LEMMA PutGlyphMoves ==
    ASSUME NEW t, Ready(t), NEW c
    PROVE  Moved(t, PutGlyph(t, c))
<1>1. PICK y, n : y = PosY(t) /\ n = Cols - PosX(t)
    OBVIOUS
<1>2. PICK s : s = IF t.insert THEN MoveRun(t, Cols, Cols - 1, y, -1, n) ELSE t
    OBVIOUS
<1>3. y \in Nat /\ n \in Int
    BY <1>1, PosIs, ScreenTyped
<1>4. Drawn(t, MoveRun(t, Cols, Cols - 1, y, -1, n))
    BY <1>3, MoveRunDraws DEF Ready
<1>5. Drawn(t, s)
    BY <1>2, <1>4, NoneDrawn DEF Ready
<1>6. Wrote(t, s) /\ Ready(s)
    BY <1>5, DrawnWrote, WroteOn
<1>7. PICK g, u : g = Glyph(t, c) /\ u = RawPutchar(s, g, TRUE)
    OBVIOUS
<1>8. Wrote(s, u) /\ u.x \in 0 .. Cols
    BY <1>6, <1>7, RawPutcharWrites
<1>9. Moved(t, u)
    BY <1>6, <1>8, WroteOn DEF Moved
<1> QED BY <1>1, <1>2, <1>7, <1>9 DEF PutGlyph

-----------------------------------------------------------------------------
(* Colours. *)

\* u is t in other colours.
Coloured(t, u) ==
    But(t, u, {"fg", "bg", "bold", "bgBold", "reverse", "primary", "back"})

\* Changes of colour follow each other.
LEMMA ColouredOn ==
    ASSUME NEW t, NEW u, NEW w, Coloured(t, u), Coloured(u, w)
    PROVE  Coloured(t, w)
BY DEF Coloured, But

\* The text's colour and that behind it (flanterm.c:146-252, fb.c:664-722).
LEMMA SetColours ==
    ASSUME NEW t, DOMAIN t = Fields, NEW c
    PROVE  /\ Coloured(t, SetFg(t, c)) /\ Coloured(t, SetBg(t, c))
           /\ Coloured(t, Front(t, c)) /\ Coloured(t, Back(t, c))
           /\ Coloured(t, PlainFront(t, c)) /\ Coloured(t, PlainBack(t, c))
           /\ Coloured(t, t)
<1>1. ASSUME NEW d PROVE Coloured(t, SetFg(t, d)) /\ Coloured(t, SetBg(t, d))
    BY DEF SetFg, SetBg, Coloured, But
<1>2. Coloured(t, Front(t, c)) /\ Coloured(t, Back(t, c))
    BY <1>1 DEF Front, Back
<1>3. Coloured(t, PlainFront(t, c)) /\ Coloured(t, PlainBack(t, c))
    BY <1>1 DEF PlainFront, PlainBack
<1> QED BY <1>1, <1>2, <1>3 DEF Coloured, But

\* A colour of the palette, bright or not, as bold and blinking make it
\* (flanterm.c:182-334).
LEMMA Palette ==
    ASSUME NEW t, DOMAIN t = Fields, NEW k, NEW on
    PROVE  /\ Coloured(t, Bold(t, on)) /\ Coloured(t, Blink(t, on))
           /\ Coloured(t, Primary(t, k, on)) /\ Coloured(t, Ground(t, k, on))
<1>1. ASSUME NEW s, Coloured(t, s)
      PROVE  \A c : /\ Coloured(t, Front(s, c)) /\ Coloured(t, Back(s, c))
                    /\ Coloured(t, PlainFront(s, c)) /\ Coloured(t, PlainBack(s, c))
  <2>1. DOMAIN s = Fields
      BY <1>1 DEF Coloured, But
  <2> QED BY <1>1, <2>1, SetColours, ColouredOn
<1>2. Coloured(t, Bold(t, on))
  <2>1. PICK s : s = [t EXCEPT !.bold = on]
      OBVIOUS
  <2>2. Coloured(t, s)
      BY <2>1 DEF Coloured, But
  <2> QED BY <1>1, <2>1, <2>2 DEF Bold
<1>3. Coloured(t, Blink(t, on))
  <2>1. PICK s : s = [t EXCEPT !.bgBold = on]
      OBVIOUS
  <2>2. Coloured(t, s)
      BY <2>1 DEF Coloured, But
  <2> QED BY <1>1, <2>1, <2>2 DEF Blink
<1>4. Coloured(t, Primary(t, k, on))
  <2>1. PICK s : s = [t EXCEPT !.primary = k]
      OBVIOUS
  <2>2. Coloured(t, s)
      BY <2>1 DEF Coloured, But
  <2> QED BY <1>1, <2>1, <2>2 DEF Primary
<1>5. Coloured(t, Ground(t, k, on))
  <2>1. PICK s : s = [t EXCEPT !.back = k]
      OBVIOUS
  <2>2. Coloured(t, s)
      BY <2>1 DEF Coloured, But
  <2> QED BY <1>1, <2>1, <2>2 DEF Ground
<1> QED BY <1>2, <1>3, <1>4, <1>5

\* Select graphic rendition sets colours, whatever the value (flanterm.c:182-334).
LEMMA SgrValueColours ==
    ASSUME NEW t, DOMAIN t = Fields, NEW vs, NEW k
    PROVE  Coloured(t, SgrValue(t, vs, k))
<1>1. PICK v : v = vs[k]
    OBVIOUS
<1>2. Coloured(t, Plain(t))
    BY DEF Plain, Coloured, But
<1>3. Coloured(t, Extended(t, vs, k))
  <2>1. \A c : Coloured(t, SetFg(t, c)) /\ Coloured(t, SetBg(t, c)) /\ Coloured(t, t)
      BY SetColours
  <2> QED BY <2>1 DEF Extended
<1>4. Coloured(t, Bold(t, vs[k] = 1)) /\ Coloured(t, Blink(t, vs[k] = 5))
    BY Palette, Zenon
<1>5. /\ Coloured(t, Primary(t, vs[k] - 30, t.bold)) /\ Coloured(t, Ground(t, vs[k] - 40, t.bgBold))
      /\ Coloured(t, Primary(t, vs[k] - 90, TRUE)) /\ Coloured(t, Ground(t, vs[k] - 100, TRUE))
    BY Palette, Zenon
<1>6. \A c : /\ Coloured(t, Front([t EXCEPT !.primary = NoColour], c))
             /\ Coloured(t, Back([t EXCEPT !.back = NoColour], c))
  <2>1. PICK s, r : s = [t EXCEPT !.primary = NoColour] /\ r = [t EXCEPT !.back = NoColour]
      OBVIOUS
  <2>2. Coloured(t, s) /\ Coloured(t, r) /\ DOMAIN s = Fields /\ DOMAIN r = Fields
      BY <2>1 DEF Coloured, But
  <2> QED BY <2>1, <2>2, SetColours, ColouredOn
<1>7. \A on : Coloured(t, Swap([t EXCEPT !.reverse = on]))
    BY DEF Swap, Coloured, But
<1>8. Coloured(t, t)
    BY DEF Coloured, But
<1>9. CASE v = 0
    BY <1>1, <1>2, <1>9 DEF SgrValue
<1>10. CASE v \in {1, 22}
  <2>1. CASE v = 1
      BY <1>1, <1>4, <2>1 DEF SgrValue
  <2>2. CASE v = 22
      BY <1>1, <1>4, <2>2 DEF SgrValue
  <2> QED BY <1>10, <2>1, <2>2
<1>11. CASE v \in {5, 25}
  <2>1. CASE v = 5
      BY <1>1, <1>4, <2>1 DEF SgrValue
  <2>2. CASE v = 25
      BY <1>1, <1>4, <2>2 DEF SgrValue
  <2> QED BY <1>11, <2>1, <2>2
<1>12. CASE v \in 30 .. 37 \/ v \in 40 .. 47 \/ v \in 90 .. 97 \/ v \in 100 .. 107
  <2>1. v \notin {0, 1, 22, 5, 25, 39, 49, 7, 27, 38, 48}
      BY <1>12
  <2>2. CASE v \in 30 .. 37
    <3>1. v \notin 40 .. 47 /\ v \notin 90 .. 97 /\ v \notin 100 .. 107
        BY <2>2
    <3> QED BY <1>1, <1>5, <2>1, <2>2, <3>1 DEF SgrValue
  <2>3. CASE v \in 40 .. 47
    <3>1. v \notin 30 .. 37 /\ v \notin 90 .. 97 /\ v \notin 100 .. 107
        BY <2>3
    <3> QED BY <1>1, <1>5, <2>1, <2>3, <3>1 DEF SgrValue
  <2>4. CASE v \in 90 .. 97
    <3>1. v \notin 30 .. 37 /\ v \notin 40 .. 47 /\ v \notin 100 .. 107
        BY <2>4
    <3> QED BY <1>1, <1>5, <2>1, <2>4, <3>1 DEF SgrValue
  <2>5. CASE v \in 100 .. 107
    <3>1. v \notin 30 .. 37 /\ v \notin 40 .. 47 /\ v \notin 90 .. 97
        BY <2>5
    <3> QED BY <1>1, <1>5, <2>1, <2>5, <3>1 DEF SgrValue
  <2> QED BY <1>12, <2>2, <2>3, <2>4, <2>5
<1>13. CASE v = 39 \/ v = 49
  <2>1. CASE v = 39
      BY <1>1, <1>6, <2>1 DEF SgrValue
  <2>2. CASE v = 49
      BY <1>1, <1>6, <2>2 DEF SgrValue
  <2> QED BY <1>13, <2>1, <2>2
<1>14. CASE v \in {7, 27}
    BY <1>1, <1>7, <1>8, <1>14 DEF SgrValue
<1>15. CASE v \in {38, 48}
    BY <1>1, <1>3, <1>15 DEF SgrValue
<1>16. CASE v \notin {0, 1, 22, 5, 25, 39, 49, 7, 27, 38, 48} /\ v \notin 30 .. 37 /\ v \notin 40 .. 47
            /\ v \notin 90 .. 97 /\ v \notin 100 .. 107
    BY <1>1, <1>8, <1>16 DEF SgrValue
<1> QED BY <1>9, <1>10, <1>11, <1>12, <1>13, <1>14, <1>15, <1>16

\* And so does a sequence of values (flanterm.c:122-385).
LEMMA SgrColours ==
    ASSUME NEW t, DOMAIN t = Fields, t.values \in Seq(Nat)
    PROVE  Coloured(t, Sgr(t))
<1>1. CASE t.values = <<>>
    BY <1>1 DEF Sgr, Plain, Coloured, But
<1>2. CASE t.values # <<>>
  <2> DEFINE n == Len(t.values)
             taken == CHOOSE g : g = [k \in 0 .. n |->
                          IF k = 0 THEN 0
                          ELSE IF g[k - 1] > 0 THEN g[k - 1] - 1 ELSE Takes(t.values, k)]
             loop == [of |-> "sgr", taken |-> taken, values |-> t.values]
             f == CHOOSE g : g = [k \in 0 .. n |->
                      IF k = 0 THEN t
                      ELSE IF taken[k - 1] > 0 THEN g[k - 1] ELSE SgrValue(g[k - 1], t.values, k)]
  <2>1. Sgr(t) = f[n]
      BY <1>2 DEF Sgr
  <2>2. n \in Nat
      OBVIOUS
  <2> HIDE DEF taken
  <2>3. \A a, k : Turn(loop, a, k) = IF taken[k - 1] > 0 THEN a ELSE SgrValue(a, t.values, k)
      BY DEF Turn
  <2> HIDE DEF loop, n
  <2>4. PICK g : Turns(loop, t, n, g)
      BY <2>2, TurnsExist
  <2>5. g = [k \in 0 .. n |-> IF k = 0 THEN t
                               ELSE IF taken[k - 1] > 0 THEN g[k - 1] ELSE SgrValue(g[k - 1], t.values, k)]
      BY <2>3, <2>4 DEF Turns
  <2>6. f = [k \in 0 .. n |-> IF k = 0 THEN t
                               ELSE IF taken[k - 1] > 0 THEN f[k - 1] ELSE SgrValue(f[k - 1], t.values, k)]
      BY <2>5
  <2> HIDE DEF f
  <2> DEFINE S == {k \in Nat : Coloured(t, f[k])}
  <2>7. 0 \in S
    <3>1. f[0] = t
        BY <2>2, <2>6
    <3> QED BY <3>1, SetColours
  <2>8. ASSUME NEW k \in 1 .. n, k - 1 \in S PROVE k \in S
    <3>1. PICK a, b : a = f[k - 1] /\ b = f[k]
        OBVIOUS
    <3>2. b = a \/ b = SgrValue(a, t.values, k)
        BY <2>2, <2>6, <2>8, <3>1
    <3>3. Coloured(t, a) /\ DOMAIN a = Fields
        BY <2>8, <3>1 DEF Coloured, But
    <3>4. Coloured(t, b)
        BY <3>2, <3>3, SgrValueColours, ColouredOn
    <3> QED BY <3>1, <3>4
  <2> HIDE DEF S
  <2>9. n \in S
    <3>1. \A k \in 0 .. n : k \in S
        BY ONLY <2>2, <2>7, <2>8, BoundedInduction
    <3> QED BY <2>2, <3>1
  <2> QED BY <2>1, <2>9 DEF S
<1> QED BY <1>1, <1>2

-----------------------------------------------------------------------------
(* What every byte keeps. *)

\* The parser's part of the state.
ParserOK(t) ==
    /\ t.values \in Seq(Nat) /\ Len(t.values) <= MaxValues
    /\ t.digits => t.values # <<>>
    /\ t.unicode \in 0 .. 3 /\ t.select \in 0 .. 2 /\ t.charset \in {1, 2}
    /\ t.savedX \in Nat /\ t.savedY \in Nat

\* A saved state.
SavedOK(s) ==
    /\ DOMAIN s = DOMAIN Unsaved
    /\ s.x \in 0 .. Cols /\ s.y \in Nat /\ s.charset \in {1, 2}

\* The margins hold two rows of the screen; while they reach down to its end the
\* cursor is on it, unless it was saved outside.
MarginsOK(t) ==
    /\ t.top \in Nat /\ t.bottom \in Nat /\ t.top + 1 < t.bottom /\ t.bottom <= Rows
    /\ t.bottom = Rows /\ t.saved.y < Rows => t.y < Rows

\* What every byte keeps of the terminal.
TermOK(t) ==
    /\ DOMAIN t = Fields /\ QueueOK(t) /\ MarginsOK(t) /\ SavedOK(t.saved) /\ ParserOK(t)
    /\ t.x \in 0 .. Cols /\ t.y \in Nat

\* A byte leaves to the flush what is on the screen.
Kept(t, u) ==
    /\ u.grid = t.grid /\ u.shown = t.shown /\ u.overrun = t.overrun
    /\ u.oldX = t.oldX /\ u.oldY = t.oldY

\* A byte, or a part of one.
Step(t, u) == TermOK(u) /\ Kept(t, u)

\* Steps follow each other.
LEMMA StepOn == ASSUME NEW t, NEW u, NEW w, Step(t, u), Step(u, w) PROVE Step(t, w)
BY DEF Step, Kept

\* To stand still is a step.
LEMMA StepSame == ASSUME NEW t, TermOK(t) PROVE Step(t, t)
BY DEF Step, Kept

\* The terminal can write at any time.
LEMMA TermReady == ASSUME NEW t, TermOK(t) PROVE Ready(t)
<1>1. t.x \in Nat
    BY ScreenTyped DEF TermOK
<1>2. Region(t)
    BY DEF Region, TermOK, MarginsOK
<1> QED BY <1>1, <1>2 DEF Ready, TermOK

\* Writing and placing the cursor keep it all.
LEMMA MovedSteps ==
    ASSUME NEW t, TermOK(t), NEW u, Moved(t, u)
    PROVE  Step(t, u)
<1>1. /\ QueueOK(u) /\ DOMAIN u = Fields /\ u.x \in 0 .. Cols /\ u.y \in Nat
      /\ t.bottom = Rows /\ t.y < Rows => u.y < Rows
    BY DEF Moved, Wrote, But, TermOK
<1>2. \A f \in Fields \ {"pend", "queue", "x", "y"} : u[f] = t[f]
    BY DEF Moved, Wrote, But
<1>3. /\ u.values = t.values /\ u.digits = t.digits /\ u.unicode = t.unicode
      /\ u.select = t.select /\ u.charset = t.charset /\ u.savedX = t.savedX /\ u.savedY = t.savedY
      /\ u.saved = t.saved /\ u.top = t.top /\ u.bottom = t.bottom
      /\ Kept(t, u)
    BY <1>2, FieldNames DEF Kept
<1>4. ParserOK(u)
    BY <1>3 DEF TermOK, ParserOK
<1>5. MarginsOK(u) /\ SavedOK(u.saved)
    BY <1>1, <1>3 DEF TermOK, MarginsOK
<1> QED BY <1>1, <1>3, <1>4, <1>5 DEF Step, TermOK

\* The fields the invariant says nothing of.
Free == {"fg", "bg", "cursorOn", "escape", "csi", "osc", "oscEscape", "discard", "private",
         "insert", "offset", "bold", "bgBold", "reverse", "charsets", "primary", "back"}

\* They may become anything.
LEMMA FreeSteps ==
    ASSUME NEW t, TermOK(t), NEW u, But(t, u, Free)
    PROVE  Step(t, u)
<1>1. DOMAIN u = Fields /\ \A f \in Fields \ Free : u[f] = t[f]
    BY DEF But, TermOK
<1>2. /\ u.values = t.values /\ u.digits = t.digits /\ u.unicode = t.unicode
      /\ u.select = t.select /\ u.charset = t.charset /\ u.savedX = t.savedX /\ u.savedY = t.savedY
      /\ u.saved = t.saved /\ u.top = t.top /\ u.bottom = t.bottom
    BY <1>1, FieldNames DEF Free
<1>3. Kept(t, u) /\ u.pend = t.pend /\ u.queue = t.queue /\ u.x = t.x /\ u.y = t.y
    BY <1>1, FieldNames DEF Kept, Free
<1>4. ParserOK(u)
    BY <1>2 DEF TermOK, ParserOK
<1>5. MarginsOK(u) /\ SavedOK(u.saved)
    BY <1>2, <1>3 DEF TermOK, MarginsOK
<1>6. QueueOK(u)
    BY <1>3 DEF TermOK, QueueOK
<1> QED BY <1>1, <1>3, <1>4, <1>5, <1>6 DEF Step, TermOK

\* A new colour is a step.
LEMMA ColouredSteps ==
    ASSUME NEW t, TermOK(t), NEW u, Coloured(t, u)
    PROVE  Step(t, u)
<1>1. But(t, u, Free)
    BY DEF Coloured, But, Free
<1> QED BY <1>1, FreeSteps

\* The parser's fields may change within their ranges.
LEMMA ParserSteps ==
    ASSUME NEW t, TermOK(t), NEW u, ParserOK(u),
           But(t, u, Free \union {"values", "digits", "unicode", "select", "charset", "savedX", "savedY"})
    PROVE  Step(t, u)
<1>1. /\ DOMAIN u = Fields
      /\ \A f \in Fields \ (Free \union {"values", "digits", "unicode", "select", "charset", "savedX", "savedY"}) :
            u[f] = t[f]
    BY DEF But, TermOK
<1>2. u.saved = t.saved /\ u.top = t.top /\ u.bottom = t.bottom
    BY <1>1, FieldNames DEF Free
<1>3. Kept(t, u) /\ u.pend = t.pend /\ u.queue = t.queue /\ u.x = t.x /\ u.y = t.y
    BY <1>1, FieldNames DEF Kept, Free
<1>4. MarginsOK(u) /\ SavedOK(u.saved)
    BY <1>2, <1>3 DEF TermOK, MarginsOK
<1>5. QueueOK(u)
    BY <1>3 DEF TermOK, QueueOK
<1> QED BY <1>1, <1>3, <1>4, <1>5 DEF Step, TermOK

\* New margins are taken only if they leave two rows, and the cursor goes to the
\* first cell (flanterm.c:751-773).
LEMMA MarginsSteps ==
    ASSUME NEW t, TermOK(t)
    PROVE  Step(t, Margins(t))
<1>1. PICK from, to : /\ from = IF Len(t.values) > 0
                                THEN (IF t.values[1] = 0 THEN 1 ELSE t.values[1]) - 1 ELSE 0
                      /\ to = IF Len(t.values) > 1
                              THEN IF t.values[2] = 0 THEN 1 ELSE t.values[2] ELSE Rows
    OBVIOUS
<1>2. PICK s : s = [t EXCEPT
                       !.top = IF from < Rows /\ to <= Rows /\ from < to - 1 THEN from ELSE 0,
                       !.bottom = IF from < Rows /\ to <= Rows /\ from < to - 1 THEN to ELSE Rows]
    OBVIOUS
<1>3. Margins(t) = SetCursor(s, 0, 0)
    BY <1>1, <1>2 DEF Margins
<1>4. from \in Nat /\ to \in Nat /\ Rows \in Nat \ {0, 1}
  <2>1. t.values \in Seq(Nat) /\ Rows \in Nat \ {0, 1}
      BY ScreenTyped DEF TermOK, ParserOK
  <2> QED BY <1>1, <2>1
<1>5. /\ DOMAIN s = Fields /\ But(t, s, {"top", "bottom"})
      /\ s.top \in Nat /\ s.bottom \in Nat /\ s.top + 1 < s.bottom /\ s.bottom <= Rows
  <2>1. /\ s.top = IF from < Rows /\ to <= Rows /\ from < to - 1 THEN from ELSE 0
        /\ s.bottom = IF from < Rows /\ to <= Rows /\ from < to - 1 THEN to ELSE Rows
        /\ DOMAIN s = Fields /\ But(t, s, {"top", "bottom"})
      BY <1>2, FieldNames DEF But, TermOK
  <2> QED BY <1>4, <2>1
<1>6. PICK u : u = SetCursor(s, 0, 0)
    OBVIOUS
<1>7. u.x = 0 /\ u.y = 0 /\ But(s, u, {"x", "y"}) /\ DOMAIN u = Fields
  <2>1. Clamp(0, Cols) = 0 /\ Clamp(0, Rows) = 0
      BY ScreenTyped, ClampIs
  <2> QED BY <1>5, <1>6, <2>1, FieldNames DEF SetCursor, But
<1>8. \A f \in Fields \ {"x", "y", "top", "bottom"} : u[f] = t[f]
    BY <1>5, <1>7 DEF But
<1>9. u.top = s.top /\ u.bottom = s.bottom
    BY <1>7, FieldNames DEF But
<1>10. /\ u.values = t.values /\ u.digits = t.digits /\ u.unicode = t.unicode
       /\ u.select = t.select /\ u.charset = t.charset /\ u.savedX = t.savedX /\ u.savedY = t.savedY
       /\ u.saved = t.saved /\ u.pend = t.pend /\ u.queue = t.queue
       /\ Kept(t, u)
    BY <1>8, FieldNames DEF Kept
<1>11. ParserOK(u)
    BY <1>10 DEF TermOK, ParserOK
<1>12. MarginsOK(u) /\ SavedOK(u.saved)
    BY <1>4, <1>5, <1>7, <1>9, <1>10 DEF TermOK, MarginsOK
<1>13. QueueOK(u)
    BY <1>10 DEF TermOK, QueueOK
<1>14. u.x \in 0 .. Cols /\ u.y \in Nat
    BY <1>7, ScreenTyped
<1> QED BY <1>3, <1>6, <1>7, <1>10, <1>11, <1>12, <1>13, <1>14 DEF Step, TermOK

\* The final byte of a control sequence (flanterm.c:520-781).
LEMMA ControlSteps ==
    ASSUME NEW t, TermOK(t), NEW c
    PROVE  Step(t, Control(t, c))
<1> DEFINE v(k) == IF k <= Len(t.values) THEN t.values[k] ELSE IF c \in {"J", "K", "q"} THEN 0 ELSE 1
           d(k) == IF v(k) = 0 THEN 0 ELSE v(k) - 1
           last(limit) == IF v(1) = 0 THEN limit - 1 ELSE v(1) - 1
<1>1. PICK n, x, y, i, j, row, col :
         /\ n = v(1) /\ x = PosX(t) /\ y = PosY(t) /\ i = d(2) /\ j = d(1)
         /\ row = last(Rows) /\ col = last(Cols)
    OBVIOUS
<1>2. t.values \in Seq(Nat) /\ Cols \in Nat \ {0} /\ Rows \in Nat \ {0}
    BY ScreenTyped DEF TermOK, ParserOK
<1>3. v(1) \in Nat /\ v(2) \in Nat
    BY <1>2
<1> HIDE DEF v
<1>4. n \in Nat /\ i \in Int /\ j \in Int /\ row \in Int /\ col \in Int
    BY <1>1, <1>2, <1>3
<1>5. Ready(t) /\ t.x \in 0 .. Cols
    BY TermReady DEF TermOK
<1>6. x \in 0 .. Cols - 1 /\ y \in 0 .. Rows - 1
    BY <1>1, <1>5, PosIs
<1>7. x \in Int /\ y \in Int /\ x \in Nat /\ y \in Nat /\ 0 \in Int /\ x + n \in Int /\ x - n \in Int
    BY <1>2, <1>4, <1>6
<1>8. ASSUME Moved(t, Control(t, c)) PROVE Step(t, Control(t, c))
    BY <1>8, MovedSteps
<1> DEFINE D == Control(t, c)
<1>10. ASSUME c \in {"A", "F", "B", "e", "E"} PROVE Moved(t, D)
  <2>1. CASE c = "A"
    <3>1. D = Up(t, x, y, n)
        BY <1>1, <2>1 DEF Control, v
    <3> QED BY <3>1, <1>4, <1>5, <1>7, UpMoves
  <2>2. CASE c = "F"
    <3>1. D = Up(t, 0, y, n)
        BY <1>1, <2>2 DEF Control, v
    <3> QED BY <3>1, <1>4, <1>5, <1>7, UpMoves
  <2>3. CASE c \in {"B", "e"}
    <3>1. D = Down(t, x, y, n)
        BY <1>1, <2>3 DEF Control, v
    <3> QED BY <3>1, <1>4, <1>5, <1>7, DownMoves
  <2>4. CASE c = "E"
    <3>1. D = Down(t, 0, y, n)
        BY <1>1, <2>4 DEF Control, v
    <3> QED BY <3>1, <1>4, <1>5, <1>7, DownMoves
  <2> QED BY <1>10, <2>1, <2>2, <2>3, <2>4
<1>11. ASSUME c \in {"C", "a", "D", "d", "G", "backquote", "H", "f", "u"} PROVE Moved(t, D)
  <2>1. CASE c \in {"C", "a"}
    <3>1. D = SetCursor(t, x + n, y)
        BY <1>1, <2>1 DEF Control, v
    <3> QED BY <3>1, <1>5, <1>7, SetCursorMoves
  <2>2. CASE c = "D"
    <3>1. D = SetCursor(t, x - n, y)
        BY <1>1, <2>2 DEF Control, v
    <3> QED BY <3>1, <1>5, <1>7, SetCursorMoves
  <2>3. CASE c = "d"
    <3>1. D = SetCursor(t, x, row)
        BY <1>1, <2>3 DEF Control, v
    <3> QED BY <3>1, <1>4, <1>5, <1>7, SetCursorMoves
  <2>4. CASE c \in {"G", "backquote"}
    <3>1. D = SetCursor(t, col, y)
        BY <1>1, <2>4 DEF Control, v
    <3> QED BY <3>1, <1>4, <1>5, <1>7, SetCursorMoves
  <2>5. CASE c \in {"H", "f"}
    <3>1. D = SetCursor(t, i, j)
        BY <1>1, <2>5 DEF Control, v
    <3> QED BY <3>1, <1>4, <1>5, SetCursorMoves
  <2>6. CASE c = "u"
    <3>1. D = SetCursor(t, t.savedX, t.savedY)
        BY <1>1, <2>6 DEF Control, v
    <3>2. t.savedX \in Int /\ t.savedY \in Int
        BY DEF TermOK, ParserOK
    <3> QED BY <3>1, <3>2, <1>5, SetCursorMoves
  <2> QED BY <1>11, <2>1, <2>2, <2>3, <2>4, <2>5, <2>6
<1>12. ASSUME c \in {"M", "L", "J", "K"} PROVE Moved(t, D)
  <2>1. CASE c = "M"
    <3>1. PICK m, s : m = AtMostRows(n) /\ s = Scrolls(t, m)
        OBVIOUS
    <3>2. D = s
        BY <1>1, <2>1, <3>1 DEF Control, v
    <3>3. m \in Nat
        BY <1>2, <1>4, <3>1 DEF AtMostRows
    <3>4. Drawn(t, s)
        BY <1>5, <3>1, <3>3, ScrollsDraw DEF Ready
    <3>5. Wrote(t, s) /\ s.x = t.x
        BY <1>5, <3>4, DrawnWrote
    <3> QED BY <1>5, <3>2, <3>5 DEF Moved
  <2>2. CASE c = "L"
    <3>1. D = InsertLines(t, y, n)
        BY <1>1, <2>2 DEF Control, v
    <3> QED BY <3>1, <1>4, <1>5, <1>7, InsertLinesMoves
  <2>3. CASE c = "J"
    <3>1. D = EraseScreen(t, x, y, n)
        BY <1>1, <2>3 DEF Control, v
    <3> QED BY <3>1, <1>5, <1>6, EraseScreenMoves
  <2>4. CASE c = "K"
    <3>1. D = EraseLine(t, x, y, n)
        BY <1>1, <2>4 DEF Control, v
    <3> QED BY <3>1, <1>5, <1>6, EraseLineMoves
  <2> QED BY <1>12, <2>1, <2>2, <2>3, <2>4
<1>13. ASSUME c \in {"@", "P", "X"} PROVE Moved(t, D)
  <2>1. CASE c = "@"
    <3>1. D = InsertChars(t, x, y, n)
        BY <1>1, <2>1 DEF Control, v
    <3> QED BY <3>1, <1>5, <1>6, <1>7, InsertCharsMoves
  <2>2. CASE c = "P"
    <3>1. D = DeleteChars(t, x, y, n)
        BY <1>1, <2>2 DEF Control, v
    <3> QED BY <3>1, <1>4, <1>5, <1>7, DeleteCharsMoves
  <2>3. CASE c = "X"
    <3>1. D = EraseChars(t, x, y, n)
        BY <1>1, <2>3 DEF Control, v
    <3> QED BY <3>1, <1>4, <1>5, <1>7, EraseCharsMoves
  <2> QED BY <1>13, <2>1, <2>2, <2>3
<1>14. CASE c = "m"
  <2>1. D = Sgr(t)
      BY <1>14 DEF Control
  <2>2. Coloured(t, Sgr(t))
      BY <1>2, SgrColours DEF TermOK
  <2> QED BY <2>1, <2>2, ColouredSteps
<1>15. CASE c = "s"
  <2>1. PICK u : u = [t EXCEPT !.savedX = x, !.savedY = y]
      OBVIOUS
  <2>2. D = u
      BY <1>1, <1>15, <2>1 DEF Control
  <2>3. But(t, u, {"savedX", "savedY"}) /\ u.savedX = x /\ u.savedY = y
      BY <2>1, FieldNames DEF But, TermOK
  <2>4. /\ u.values = t.values /\ u.digits = t.digits /\ u.unicode = t.unicode
        /\ u.select = t.select /\ u.charset = t.charset
      BY <2>3, FieldNames DEF But
  <2>5. ParserOK(u)
      BY <1>7, <2>3, <2>4 DEF TermOK, ParserOK
  <2>6. But(t, u, Free \union {"values", "digits", "unicode", "select", "charset", "savedX", "savedY"})
      BY <2>3 DEF But
  <2> QED BY <2>2, <2>5, <2>6, ParserSteps
<1>16. CASE c = "r"
  <2>1. D = Margins(t)
      BY <1>16 DEF Control
  <2> QED BY <2>1, MarginsSteps
<1>17. CASE c \in {"h", "l"}
  <2>1. D = Toggle(t, c)
      BY <1>17 DEF Control
  <2>2. But(t, Toggle(t, c), Free)
    <3>1. But(t, t, Free) /\ But(t, [t EXCEPT !.insert = (c = "h")], Free)
        BY DEF But, Free, TermOK
    <3> QED BY <3>1 DEF Toggle
  <2> QED BY <2>1, <2>2, FreeSteps
<1>18. CASE c \notin {"A", "F", "B", "e", "E"} /\ c \notin {"C", "a", "D", "d", "G", "backquote", "H", "f", "u"}
            /\ c \notin {"M", "L", "J", "K"} /\ c \notin {"@", "P", "X"} /\ c \notin {"m", "s", "r", "h", "l"}
  <2>1. D = t
      BY <1>18 DEF Control
  <2> QED BY <2>1, StepSame
<1> QED BY <1>8, <1>10, <1>11, <1>12, <1>13, <1>14, <1>15, <1>16, <1>17, <1>18

\* A private sequence shows the cursor or hides it (flanterm.c:391-423).
LEMMA PrivateSteps ==
    ASSUME NEW t, TermOK(t), NEW c
    PROVE  Step(t, Private(t, c))
<1>1. /\ But(t, [t EXCEPT !.cursorOn = (c = "h"), !.private = FALSE], Free)
      /\ But(t, [t EXCEPT !.private = FALSE], Free)
    BY DEF But, Free, TermOK
<1>2. But(t, Private(t, c), Free)
    BY <1>1 DEF Private
<1> QED BY <1>2, FreeSteps

\* The parameters of a control sequence never exceed their number, and a digit
\* has a value to go to (flanterm.c:484-504).
LEMMA AddDigitSteps ==
    ASSUME NEW t, TermOK(t), NEW c \in DOMAIN Digit
    PROVE  Step(t, AddDigit(t, c))
<1>1. Digit[c] \in Nat
  <2>1. PICK e \in 0 .. 9 : c = Numerals[e + 1]
      BY DEF Digit
  <2>2. Digit[c] = CHOOSE d \in 0 .. 9 : Numerals[d + 1] = c
      BY DEF Digit
  <2>3. Digit[c] \in 0 .. 9
      BY <2>1, <2>2
  <2> QED BY <2>3
<1>2. PICK e : e = Digit[c]
    OBVIOUS
<1>3. /\ t.values \in Seq(Nat) /\ Len(t.values) <= MaxValues /\ (t.digits => t.values # <<>>)
      /\ DOMAIN t = Fields /\ e \in Nat /\ MaxValues \in Nat
    BY <1>1, <1>2, TerminalAssumption DEF TermOK, ParserOK, TerminalAssumption
<1>4. CASE t.digits
  <2>1. PICK w : w = [t.values EXCEPT ![Len(t.values)] = @ * 10 + e]
      OBVIOUS
  <2>2. w \in Seq(Nat) /\ Len(w) = Len(t.values) /\ w # <<>>
    <3>1. Len(t.values) \in 1 .. Len(t.values) /\ t.values[Len(t.values)] \in Nat
        BY <1>3, <1>4
    <3>2. t.values[Len(t.values)] * 10 + e \in Nat
        BY <1>3, <3>1
    <3> QED BY <1>3, <2>1, <3>1, <3>2
  <2>3. PICK u : u = [t EXCEPT !.values = w]
      OBVIOUS
  <2>4. AddDigit(t, c) = u
      BY <1>2, <1>4, <2>1, <2>3 DEF AddDigit
  <2>5. But(t, u, {"values"}) /\ u.values = w
      BY <1>3, <2>3, FieldNames DEF But
  <2>6. /\ u.digits = t.digits /\ u.unicode = t.unicode /\ u.select = t.select
        /\ u.charset = t.charset /\ u.savedX = t.savedX /\ u.savedY = t.savedY
      BY <2>5, FieldNames DEF But
  <2>7. ParserOK(u)
      BY <1>3, <2>2, <2>5, <2>6 DEF TermOK, ParserOK
  <2>8. But(t, u, Free \union {"values", "digits", "unicode", "select", "charset", "savedX", "savedY"})
      BY <2>5 DEF But
  <2> QED BY <2>4, <2>7, <2>8, ParserSteps
<1>5. CASE ~t.digits /\ Len(t.values) = MaxValues
    BY <1>5, StepSame DEF AddDigit
<1>6. CASE ~t.digits /\ Len(t.values) # MaxValues
  <2>1. PICK w : w = Append(t.values, e)
      OBVIOUS
  <2>2. w \in Seq(Nat) /\ Len(w) = Len(t.values) + 1 /\ w # <<>>
      BY <1>3, <2>1
  <2>3. PICK u : u = [t EXCEPT !.values = w, !.digits = TRUE]
      OBVIOUS
  <2>4. AddDigit(t, c) = u
      BY <1>2, <1>6, <2>1, <2>3 DEF AddDigit
  <2>5. But(t, u, {"values", "digits"}) /\ u.values = w
      BY <1>3, <2>3, FieldNames DEF But
  <2>6. /\ u.unicode = t.unicode /\ u.select = t.select
        /\ u.charset = t.charset /\ u.savedX = t.savedX /\ u.savedY = t.savedY
      BY <2>5, FieldNames DEF But
  <2>7. Len(w) <= MaxValues
      BY <1>3, <1>6, <2>2
  <2>8. ParserOK(u)
      BY <2>2, <2>5, <2>6, <2>7 DEF TermOK, ParserOK
  <2>9. But(t, u, Free \union {"values", "digits", "unicode", "select", "charset", "savedX", "savedY"})
      BY <2>5 DEF But
  <2> QED BY <2>4, <2>8, <2>9, ParserSteps
<1> QED BY <1>4, <1>5, <1>6

\* The end of a number (flanterm.c:506-541).
LEMMA EndNumber ==
    ASSUME NEW t, TermOK(t), NEW w, w \in Seq(Nat), Len(w) <= MaxValues
    PROVE  /\ Step(t, [t EXCEPT !.digits = FALSE])
           /\ ~t.digits => Step(t, [t EXCEPT !.values = w])
           /\ Step(t, [t EXCEPT !.csi = TRUE, !.values = <<>>, !.digits = FALSE])
<1> DEFINE Parser == Free \union {"values", "digits", "unicode", "select", "charset", "savedX", "savedY"}
<1>1. Step(t, [t EXCEPT !.digits = FALSE])
  <2>1. PICK u : u = [t EXCEPT !.digits = FALSE]
      OBVIOUS
  <2>2. But(t, u, {"digits"}) /\ u.digits = FALSE
      BY <2>1, FieldNames DEF But, TermOK
  <2>3. /\ u.values = t.values /\ u.unicode = t.unicode /\ u.select = t.select
        /\ u.charset = t.charset /\ u.savedX = t.savedX /\ u.savedY = t.savedY
      BY <2>2, FieldNames DEF But
  <2>4. ParserOK(u)
      BY <2>2, <2>3 DEF TermOK, ParserOK
  <2>5. But(t, u, Parser)
      BY <2>2 DEF But
  <2> QED BY <2>1, <2>4, <2>5, ParserSteps
<1>2. ASSUME ~t.digits PROVE Step(t, [t EXCEPT !.values = w])
  <2>1. PICK u : u = [t EXCEPT !.values = w]
      OBVIOUS
  <2>2. But(t, u, {"values"}) /\ u.values = w
      BY <2>1, FieldNames DEF But, TermOK
  <2>3. /\ u.digits = t.digits /\ u.unicode = t.unicode /\ u.select = t.select
        /\ u.charset = t.charset /\ u.savedX = t.savedX /\ u.savedY = t.savedY
      BY <2>2, FieldNames DEF But
  <2>4. ParserOK(u)
      BY <1>2, <2>2, <2>3 DEF TermOK, ParserOK
  <2>5. But(t, u, Parser)
      BY <2>2 DEF But
  <2> QED BY <2>1, <2>4, <2>5, ParserSteps
<1>3. Step(t, [t EXCEPT !.csi = TRUE, !.values = <<>>, !.digits = FALSE])
  <2>1. PICK u : u = [t EXCEPT !.csi = TRUE, !.values = <<>>, !.digits = FALSE]
      OBVIOUS
  <2>2. But(t, u, {"csi", "values", "digits"}) /\ u.digits = FALSE /\ u.values = <<>>
      BY <2>1, FieldNames DEF But, TermOK
  <2>3. /\ u.unicode = t.unicode /\ u.select = t.select
        /\ u.charset = t.charset /\ u.savedX = t.savedX /\ u.savedY = t.savedY
      BY <2>2, FieldNames DEF But
  <2>4. u.values \in Seq(Nat) /\ Len(u.values) = 0 /\ MaxValues \in Nat
      BY <2>2, TerminalAssumption DEF TerminalAssumption
  <2>5. ParserOK(u)
      BY <2>2, <2>3, <2>4 DEF TermOK, ParserOK
  <2>6. But(t, u, Parser)
      BY <2>2 DEF But, Free
  <2> QED BY <2>1, <2>5, <2>6, ParserSteps
<1> QED BY <1>1, <1>2, <1>3

\* A byte of a control sequence (flanterm.c:484-541).
LEMMA SequenceSteps ==
    ASSUME NEW t, TermOK(t), NEW c
    PROVE  Step(t, Sequence(t, c))
<1>0. ASSUME NEW s, TermOK(s) PROVE Step(s, Done(s))
  <2>1. But(s, Done(s), Free)
      BY <1>0 DEF Done, But, Free, TermOK
  <2> QED BY <1>0, <2>1, FreeSteps
<1>1. CASE t.offset = 2 /\ c = "["
  <2>1. PICK s : s = [t EXCEPT !.discard = TRUE]
      OBVIOUS
  <2>2. But(t, s, Free)
      BY <2>1 DEF But, Free, TermOK
  <2>3. Step(t, s)
      BY <2>2, FreeSteps
  <2>4. Step(t, Done(s))
      BY <1>0, <2>3, StepOn DEF Step
  <2>5. Sequence(t, c) = Done(s)
      BY <1>1, <2>1 DEF Sequence
  <2> QED BY <2>4, <2>5
<1>2. CASE t.offset = 2 /\ c = "?"
  <2>1. But(t, [t EXCEPT !.private = TRUE], Free)
      BY DEF But, Free, TermOK
  <2>2. Sequence(t, c) = [t EXCEPT !.private = TRUE]
      BY <1>2 DEF Sequence
  <2> QED BY <2>1, <2>2, FreeSteps
<1>3. CASE ~(t.offset = 2 /\ c \in {"[", "?"}) /\ c \in DOMAIN Digit
  <2>1. Sequence(t, c) = AddDigit(t, c)
      BY <1>3 DEF Sequence
  <2> QED BY <1>3, <2>1, AddDigitSteps
<1>4. CASE ~(t.offset = 2 /\ c \in {"[", "?"}) /\ c \notin DOMAIN Digit /\ c = ";"
  <2>1. CASE t.digits \/ Len(t.values) = MaxValues
    <3>1. Sequence(t, c) = [t EXCEPT !.digits = FALSE]
        BY <1>4, <2>1 DEF Sequence
    <3>2. Step(t, [t EXCEPT !.digits = FALSE])
        BY EndNumber DEF TermOK, ParserOK
    <3> QED BY <3>1, <3>2
  <2>2. CASE ~(t.digits \/ Len(t.values) = MaxValues)
    <3>1. PICK w : w = Append(t.values, 0)
        OBVIOUS
    <3>2. Sequence(t, c) = [t EXCEPT !.values = w]
        BY <1>4, <2>2, <3>1 DEF Sequence
    <3>3. t.values \in Seq(Nat) /\ Len(t.values) <= MaxValues /\ MaxValues \in Nat
        BY TerminalAssumption DEF TermOK, ParserOK, TerminalAssumption
    <3>4. w \in Seq(Nat) /\ Len(w) = Len(t.values) + 1
        BY <3>1, <3>3
    <3>5. Len(w) <= MaxValues
        BY <2>2, <3>3, <3>4
    <3>6. Step(t, [t EXCEPT !.values = w])
        BY <2>2, <3>4, <3>5, EndNumber
    <3> QED BY <3>2, <3>6
  <2> QED BY <2>1, <2>2
<1>5. CASE ~(t.offset = 2 /\ c \in {"[", "?"}) /\ c \notin DOMAIN Digit /\ c # ";"
  <2>1. PICK s, u : s = [t EXCEPT !.digits = FALSE] /\ u = IF s.private THEN Private(s, c) ELSE Control(s, c)
      OBVIOUS
  <2>2. Step(t, s)
      BY <2>1, EndNumber DEF TermOK, ParserOK
  <2>3. Step(s, u)
      BY <2>1, <2>2, PrivateSteps, ControlSteps DEF Step
  <2>4. Step(u, Done(u))
      BY <1>0, <2>3 DEF Step
  <2>5. Sequence(t, c) = Done(u)
      BY <1>5, <2>1 DEF Sequence
  <2>6. Step(t, Done(u))
      BY <2>2, <2>3, <2>4, StepOn
  <2> QED BY <2>5, <2>6
<1> QED BY <1>1, <1>2, <1>3, <1>4, <1>5

\* What a saved state has.
LEMMA SavedFields ==
    /\ DOMAIN Unsaved = {"bold", "bgBold", "reverse", "charset", "primary", "back", "fg", "bg", "x", "y"}
    /\ DOMAIN Unsaved \subseteq Fields
BY FieldNames DEF Unsaved

\* Saving the state (flanterm.c:801-810).
LEMMA SaveSteps ==
    ASSUME NEW t, TermOK(t)
    PROVE  Step(t, SaveState(t))
<1>1. PICK s : s = [f \in DOMAIN Unsaved |-> t[f]]
    OBVIOUS
<1>2. PICK u : u = [t EXCEPT !.saved = s]
    OBVIOUS
<1>3. u = SaveState(t)
    BY <1>1, <1>2 DEF SaveState
<1>4. DOMAIN u = Fields /\ But(t, u, {"saved"}) /\ u.saved = s
    BY <1>2, FieldNames DEF But, TermOK
<1>5. /\ u.values = t.values /\ u.digits = t.digits /\ u.unicode = t.unicode
      /\ u.select = t.select /\ u.charset = t.charset /\ u.savedX = t.savedX /\ u.savedY = t.savedY
    BY <1>4, FieldNames DEF But
<1>6. /\ u.pend = t.pend /\ u.queue = t.queue /\ u.x = t.x /\ u.y = t.y
      /\ u.top = t.top /\ u.bottom = t.bottom /\ Kept(t, u)
    BY <1>4, FieldNames DEF But, Kept
<1>7. DOMAIN s = DOMAIN Unsaved /\ s.x = t.x /\ s.y = t.y /\ s.charset = t.charset
    BY <1>1, SavedFields
<1>8. ParserOK(u)
    BY <1>5 DEF TermOK, ParserOK
<1>9. SavedOK(u.saved)
    BY <1>4, <1>7 DEF TermOK, SavedOK, ParserOK
<1>10. MarginsOK(u)
    BY <1>4, <1>6, <1>7 DEF TermOK, MarginsOK
<1>11. QueueOK(u)
    BY <1>6 DEF TermOK, QueueOK
<1>12. u.x \in 0 .. Cols /\ u.y \in Nat
    BY <1>6 DEF TermOK
<1> QED BY <1>3, <1>4, <1>6, <1>8, <1>9, <1>10, <1>11, <1>12 DEF Step, TermOK

\* And coming back to it, with its cursor (flanterm.c:790-799).
LEMMA RestoreSteps ==
    ASSUME NEW t, TermOK(t)
    PROVE  Step(t, RestoreState(t))
<1>1. PICK u : u = RestoreState(t)
    OBVIOUS
<1>2. DOMAIN t.saved = DOMAIN Unsaved /\ DOMAIN t = Fields
    BY DEF TermOK, SavedOK
<1>3. /\ DOMAIN u = Fields
      /\ \A f \in Fields : u[f] = IF f \in DOMAIN Unsaved THEN t.saved[f] ELSE t[f]
    BY <1>1, <1>2, SavedFields DEF RestoreState, Over
<1>4. u.x = t.saved.x /\ u.y = t.saved.y /\ u.charset = t.saved.charset
    BY <1>3, SavedFields, FieldNames
<1>5. /\ u.values = t.values /\ u.digits = t.digits /\ u.unicode = t.unicode
      /\ u.select = t.select /\ u.savedX = t.savedX /\ u.savedY = t.savedY
    BY <1>3, SavedFields, FieldNames
<1>6. u.pend = t.pend /\ u.queue = t.queue /\ u.top = t.top /\ u.bottom = t.bottom /\ u.saved = t.saved
    BY <1>3, SavedFields, FieldNames
<1>7. Kept(t, u)
    BY <1>3, SavedFields, FieldNames DEF Kept
<1>8. ParserOK(u)
    BY <1>4, <1>5 DEF TermOK, ParserOK, SavedOK
<1>9. MarginsOK(u) /\ SavedOK(u.saved)
    BY <1>4, <1>6 DEF TermOK, MarginsOK
<1>10. QueueOK(u)
    BY <1>6 DEF TermOK, QueueOK
<1>11. u.x \in 0 .. Cols /\ u.y \in Nat
    BY <1>4 DEF TermOK, SavedOK
<1> QED BY <1>1, <1>3, <1>7, <1>8, <1>9, <1>10, <1>11 DEF Step, TermOK

\* The fields of a reset.
LEMMA ReinitFields ==
    /\ DOMAIN Reinit \subseteq Fields
    /\ {"grid", "pend", "queue", "overrun", "shown", "x", "y", "oldX", "oldY", "saved"} \cap DOMAIN Reinit = {}
    /\ {"values", "digits", "unicode", "select", "charset", "savedX", "savedY", "top", "bottom"} \subseteq DOMAIN Reinit
    /\ Reinit.values = <<>> /\ Reinit.digits = FALSE /\ Reinit.unicode = 0 /\ Reinit.select = 0
    /\ Reinit.charset = 1 /\ Reinit.savedX = 0 /\ Reinit.savedY = 0
    /\ Reinit.top = 0 /\ Reinit.bottom = Rows
<1>1. DOMAIN Reinit = {"cursorOn", "escape", "csi", "osc", "oscEscape", "discard", "digits", "private",
          "insert", "offset", "values", "bold", "bgBold", "reverse", "unicode", "select", "charsets",
          "charset", "primary", "back", "savedX", "savedY", "top", "bottom"}
    BY DEF Reinit
<1>2. {"grid", "pend", "queue", "overrun", "shown", "x", "y", "oldX", "oldY", "saved"} \cap DOMAIN Reinit = {}
    BY <1>1
<1>3. DOMAIN Reinit \subseteq Fields
    BY <1>1, FieldNames
<1>4. {"values", "digits", "unicode", "select", "charset", "savedX", "savedY", "top", "bottom"} \subseteq DOMAIN Reinit
    BY <1>1
<1> QED BY <1>2, <1>3, <1>4 DEF Reinit

\* A reset gives the whole screen back and clears it (flanterm.c:840-886).
LEMMA ResetSteps ==
    ASSUME NEW t, TermOK(t)
    PROVE  Step(t, [Clear(Over(Reinit, t)) EXCEPT !.x = 0, !.y = 0])
<1>1. PICK s, d, u : s = Over(Reinit, t) /\ d = Clear(s) /\ u = [d EXCEPT !.x = 0, !.y = 0]
    OBVIOUS
<1>2. DOMAIN t = Fields
    BY DEF TermOK
<1>3. DOMAIN s = Fields /\ \A f \in Fields : s[f] = IF f \in DOMAIN Reinit THEN Reinit[f] ELSE t[f]
    BY <1>1, <1>2, ReinitFields DEF Over
<1>4. /\ s.values = <<>> /\ s.digits = FALSE /\ s.unicode = 0 /\ s.select = 0
      /\ s.charset = 1 /\ s.savedX = 0 /\ s.savedY = 0 /\ s.top = 0 /\ s.bottom = Rows
    BY <1>3, ReinitFields, FieldNames
<1>5. Kept(t, s) /\ s.saved = t.saved /\ s.pend = t.pend /\ s.queue = t.queue /\ s.x = t.x /\ s.y = t.y
    BY <1>3, ReinitFields, FieldNames DEF Kept
<1>6. QueueOK(s)
    BY <1>5 DEF QueueOK, TermOK
<1>7. Drawn(s, d)
    BY <1>1, <1>3, <1>6, ClearDraws
<1>8. QueueOK(d) /\ DOMAIN d = Fields /\ \A f \in Fields \ {"pend", "queue"} : d[f] = s[f]
    BY <1>3, <1>7 DEF Drawn, But
<1>9. /\ DOMAIN u = Fields /\ u.x = 0 /\ u.y = 0 /\ u.pend = d.pend /\ u.queue = d.queue
      /\ \A f \in Fields \ {"x", "y"} : u[f] = d[f]
    BY <1>1, <1>8, FieldNames
<1>10. \A f \in Fields \ {"pend", "queue", "x", "y"} : u[f] = s[f]
    BY <1>8, <1>9
<1>11. /\ u.values = <<>> /\ u.digits = FALSE /\ u.unicode = 0 /\ u.select = 0
       /\ u.charset = 1 /\ u.savedX = 0 /\ u.savedY = 0 /\ u.top = 0 /\ u.bottom = Rows
    BY <1>4, <1>10, FieldNames
<1>12. Kept(t, u) /\ u.saved = t.saved
    BY <1>5, <1>10, FieldNames DEF Kept
<1>13. QueueOK(u)
    BY <1>8, <1>9 DEF QueueOK
<1>14. Rows \in Nat \ {0, 1} /\ Cols \in Nat /\ MaxValues \in Nat
    BY ScreenTyped, TerminalAssumption DEF TerminalAssumption
<1>15. ParserOK(u)
    BY <1>11, <1>14 DEF ParserOK
<1>16. MarginsOK(u) /\ SavedOK(u.saved)
    BY <1>9, <1>11, <1>12, <1>14 DEF MarginsOK, TermOK
<1>17. u.x \in 0 .. Cols /\ u.y \in Nat
    BY <1>9, <1>14
<1> QED BY <1>1, <1>9, <1>12, <1>13, <1>15, <1>16, <1>17 DEF Step, TermOK

\* Fields the parser sets (flanterm.c:1206-1353).
LEMMA ParserSets ==
    ASSUME NEW t, TermOK(t), NEW n
    PROVE  /\ n \in 0 .. 3 => Step(t, [t EXCEPT !.unicode = n])
           /\ n \in 0 .. 2 => Step(t, [t EXCEPT !.select = n])
           /\ n \in {1, 2} => Step(t, [t EXCEPT !.charset = n])
<1> DEFINE Parser == Free \union {"values", "digits", "unicode", "select", "charset", "savedX", "savedY"}
<1>1. ASSUME n \in 0 .. 3 PROVE Step(t, [t EXCEPT !.unicode = n])
  <2>1. PICK u : u = [t EXCEPT !.unicode = n]
      OBVIOUS
  <2>2. But(t, u, {"unicode"}) /\ u.unicode = n
      BY <2>1, FieldNames DEF But, TermOK
  <2>3. /\ u.values = t.values /\ u.digits = t.digits /\ u.select = t.select
        /\ u.charset = t.charset /\ u.savedX = t.savedX /\ u.savedY = t.savedY
      BY <2>2, FieldNames DEF But
  <2>4. ParserOK(u)
      BY <1>1, <2>2, <2>3 DEF TermOK, ParserOK
  <2>5. But(t, u, Parser)
      BY <2>2 DEF But
  <2> QED BY <2>1, <2>4, <2>5, ParserSteps
<1>2. ASSUME n \in 0 .. 2 PROVE Step(t, [t EXCEPT !.select = n])
  <2>1. PICK u : u = [t EXCEPT !.select = n]
      OBVIOUS
  <2>2. But(t, u, {"select"}) /\ u.select = n
      BY <2>1, FieldNames DEF But, TermOK
  <2>3. /\ u.values = t.values /\ u.digits = t.digits /\ u.unicode = t.unicode
        /\ u.charset = t.charset /\ u.savedX = t.savedX /\ u.savedY = t.savedY
      BY <2>2, FieldNames DEF But
  <2>4. ParserOK(u)
      BY <1>2, <2>2, <2>3 DEF TermOK, ParserOK
  <2>5. But(t, u, Parser)
      BY <2>2 DEF But
  <2> QED BY <2>1, <2>4, <2>5, ParserSteps
<1>3. ASSUME n \in {1, 2} PROVE Step(t, [t EXCEPT !.charset = n])
  <2>1. PICK u : u = [t EXCEPT !.charset = n]
      OBVIOUS
  <2>2. But(t, u, {"charset"}) /\ u.charset = n
      BY <2>1, FieldNames DEF But, TermOK
  <2>3. /\ u.values = t.values /\ u.digits = t.digits /\ u.unicode = t.unicode
        /\ u.select = t.select /\ u.savedX = t.savedX /\ u.savedY = t.savedY
      BY <2>2, FieldNames DEF But
  <2>4. ParserOK(u)
      BY <1>3, <2>2, <2>3 DEF TermOK, ParserOK
  <2>5. But(t, u, Parser)
      BY <2>2 DEF But
  <2> QED BY <2>1, <2>4, <2>5, ParserSteps
<1> QED BY <1>1, <1>2, <1>3

\* What one write does is a step.
LEMMA MoveSteps ==
    ASSUME NEW t, TermOK(t), NEW x \in Int, NEW y \in Int, NEW c
    PROVE  /\ Step(t, SetCursor(t, x, y))
           /\ Step(t, NextLine(t, x)) /\ Step(t, PreviousLine(t))
           /\ Step(t, PutGlyph(t, c))
BY TermReady, MovedSteps, SetCursorMoves, NextLineMoves, PreviousLineMoves, PutGlyphMoves

\* A character that may scroll the screen (fb.c:789-809).
LEMMA PutcharSteps ==
    ASSUME NEW t, TermOK(t), NEW c, NEW u, u = RawPutchar(t, c, TRUE)
    PROVE  Step(t, u)
<1>1. Moved(t, u)
    BY TermReady, RawPutcharWrites DEF Moved
<1> QED BY <1>1, MovedSteps

\* The byte behind an escape (flanterm.c:840-886).
LEMMA EscapeCodeSteps ==
    ASSUME NEW t, TermOK(t), NEW c
    PROVE  Step(t, EscapeCode(t, c))
<1>0. PosX(t) \in Int /\ 0 \in Int
    BY TermReady, PosIs, ScreenTyped
<1>1. CASE c = "7"
    BY <1>1, SaveSteps DEF EscapeCode
<1>2. CASE c = "8"
    BY <1>2, RestoreSteps DEF EscapeCode
<1>3. CASE c = "c"
    BY <1>3, ResetSteps DEF EscapeCode
<1>4. CASE c = "D"
    BY <1>0, <1>4, MoveSteps DEF EscapeCode
<1>5. CASE c = "E"
    BY <1>0, <1>5, MoveSteps DEF EscapeCode
<1>6. CASE c = "M"
    BY <1>0, <1>6, MoveSteps DEF EscapeCode
<1>7. CASE c \in {"(", ")"}
  <2>1. PICK n : n = IF c = "(" THEN 1 ELSE 2
      OBVIOUS
  <2>2. EscapeCode(t, c) = [t EXCEPT !.select = n]
      BY <1>7, <2>1 DEF EscapeCode
  <2>3. n \in 0 .. 2
      BY <2>1
  <2>4. Step(t, [t EXCEPT !.select = n])
      BY <2>3, ParserSets
  <2> QED BY <2>2, <2>4
<1>8. CASE c \notin {"7", "8", "c", "D", "E", "M", "(", ")"}
    BY <1>8, StepSame DEF EscapeCode
<1> QED BY <1>1, <1>2, <1>3, <1>4, <1>5, <1>6, <1>7, <1>8

\* An operating system command goes on, or ends (flanterm.c:461-482).
LEMMA OscSteps ==
    ASSUME NEW t, TermOK(t), NEW c
    PROVE  Step(t, Osc(t, c))
<1>1. /\ But(t, [t EXCEPT !.oscEscape = FALSE, !.osc = FALSE, !.escape = FALSE], Free)
      /\ But(t, [t EXCEPT !.oscEscape = (c = "ESC")], Free)
    BY DEF But, Free, TermOK
<1>2. But(t, Osc(t, c), Free)
    BY <1>1 DEF Osc
<1> QED BY <1>2, FreeSteps

\* A byte of an escape sequence (flanterm.c:812-839).
LEMMA EscapeSteps ==
    ASSUME NEW t0, TermOK(t0), NEW c
    PROVE  Step(t0, Escape(t0, c))
<1>1. PICK t : t = [t0 EXCEPT !.offset = @ + 1]
    OBVIOUS
<1>2. Step(t0, t)
  <2>1. But(t0, t, Free)
      BY <1>1 DEF But, Free, TermOK
  <2> QED BY <2>1, FreeSteps
<1>3. TermOK(t)
    BY <1>2 DEF Step
<1>4. CASE t.osc
  <2>1. Escape(t0, c) = Osc(t, c)
      BY <1>1, <1>4 DEF Escape
  <2> QED BY <1>2, <1>3, <2>1, OscSteps, StepOn
<1>5. CASE ~t.osc /\ t.csi
  <2>1. PICK s : s = [t EXCEPT !.offset = IF @ > 3 THEN 3 ELSE @]
      OBVIOUS
  <2>2. But(t, s, Free)
      BY <1>3, <2>1 DEF But, Free, TermOK
  <2>3. Step(t, s)
      BY <1>3, <2>2, FreeSteps
  <2>4. Step(s, Sequence(s, c))
      BY <2>3, SequenceSteps DEF Step
  <2>5. Escape(t0, c) = Sequence(s, c)
      BY <1>1, <1>5, <2>1 DEF Escape
  <2> QED BY <1>2, <2>3, <2>4, <2>5, StepOn
<1>6. CASE ~t.osc /\ ~t.csi /\ c = "]"
  <2>1. PICK s : s = [t EXCEPT !.osc = TRUE, !.oscEscape = FALSE]
      OBVIOUS
  <2>2. But(t, s, Free)
      BY <1>3, <2>1 DEF But, Free, TermOK
  <2>3. Escape(t0, c) = s
      BY <1>1, <1>6, <2>1 DEF Escape
  <2> QED BY <1>2, <1>3, <2>2, <2>3, FreeSteps, StepOn
<1>7. CASE ~t.osc /\ ~t.csi /\ c = "["
  <2>1. PICK s : s = [t EXCEPT !.csi = TRUE, !.values = <<>>, !.digits = FALSE]
      OBVIOUS
  <2>2. Step(t, s)
      BY <1>3, <2>1, EndNumber DEF TermOK, ParserOK
  <2>3. Escape(t0, c) = s
      BY <1>1, <1>7, <2>1 DEF Escape
  <2> QED BY <1>2, <2>2, <2>3, StepOn
<1>8. CASE ~t.osc /\ ~t.csi /\ c # "]" /\ c # "["
  <2>1. PICK s, u : s = EscapeCode(t, c) /\ u = [s EXCEPT !.escape = FALSE]
      OBVIOUS
  <2>2. Step(t, s)
      BY <1>3, <2>1, EscapeCodeSteps
  <2>3. TermOK(s)
      BY <2>2 DEF Step
  <2>4. But(s, u, Free)
      BY <2>1, <2>3 DEF But, Free, TermOK
  <2>5. Step(s, u)
      BY <2>3, <2>4, FreeSteps
  <2>6. Escape(t0, c) = u
      BY <1>1, <1>8, <2>1 DEF Escape
  <2> QED BY <1>2, <2>2, <2>5, <2>6, StepOn
<1> QED BY <1>4, <1>5, <1>6, <1>7, <1>8

\* A byte that is dropped ends whatever had begun (flanterm.c:1207-1216).
LEMMA AbortSteps ==
    ASSUME NEW t, TermOK(t)
    PROVE  Step(t, Abort(t))
<1>1. PICK u : u = Abort(t)
    OBVIOUS
<1>2. /\ But(t, u, Free \union {"unicode", "select"}) /\ u.unicode = 0 /\ u.select = 0
    BY <1>1, FieldNames DEF But, Abort, Free, TermOK
<1>3. /\ u.values = t.values /\ u.digits = t.digits
      /\ u.charset = t.charset /\ u.savedX = t.savedX /\ u.savedY = t.savedY
    BY <1>2, FieldNames DEF But, Free
<1>4. ParserOK(u)
    BY <1>2, <1>3 DEF TermOK, ParserOK
<1>5. But(t, u, Free \union {"values", "digits", "unicode", "select", "charset", "savedX", "savedY"})
    BY <1>2 DEF But
<1> QED BY <1>1, <1>4, <1>5, ParserSteps

\* A continuation byte (flanterm.c:1218-1244).
LEMMA ContinueSteps ==
    ASSUME NEW t, TermOK(t), t.unicode # 0, NEW c
    PROVE  Step(t, Continue(t, c))
<1>1. PICK n, s : n = t.unicode - 1 /\ s = [t EXCEPT !.unicode = n]
    OBVIOUS
<1>2. n \in 0 .. 3
    BY <1>1 DEF TermOK, ParserOK
<1>3. Step(t, s) /\ s.unicode = n
    BY <1>1, <1>2, ParserSets, FieldNames DEF TermOK
<1>4. PICK a, b, d, e : /\ a = RawPutchar(s, "437", TRUE) /\ b = RawPutchar(s, "box", TRUE)
                        /\ d = RawPutchar(b, " ", TRUE)
                        /\ e = Continue(t, c)
    OBVIOUS
<1>5. Step(s, a) /\ Step(s, b)
    BY <1>3, <1>4, PutcharSteps DEF Step
<1>6. Step(b, d)
    BY <1>4, <1>5, PutcharSteps DEF Step
<1>7. e \in {s, a, b, d}
    BY <1>1, <1>4 DEF Continue
<1>8. Step(t, a) /\ Step(t, b)
    BY <1>3, <1>5, StepOn
<1>9. Step(t, d)
    BY <1>6, <1>8, StepOn
<1> QED BY <1>3, <1>4, <1>7, <1>8, <1>9

\* The choice of a character set (flanterm.c:1266-1276).
LEMMA CharsetSteps ==
    ASSUME NEW t, TermOK(t), NEW c
    PROVE  Step(t, Charset(t, c))
<1>1. PICK s : s = [t EXCEPT !.select = 0]
    OBVIOUS
<1>2. Step(t, s)
  <2>1. 0 \in 0 .. 2
      OBVIOUS
  <2> QED BY <1>1, <2>1, ParserSets
<1>3. /\ But(s, [s EXCEPT !.charsets[t.select] = FALSE], Free)
      /\ But(s, [s EXCEPT !.charsets[t.select] = TRUE], Free)
      /\ But(s, s, Free)
    BY <1>2 DEF But, Free, TermOK, Step
<1>4. But(s, Charset(t, c), Free)
    BY <1>1, <1>3 DEF Charset
<1> QED BY <1>2, <1>4, FreeSteps, StepOn DEF Step

\* A control code (flanterm.c:1278-1326).
LEMMA CodeSteps ==
    ASSUME NEW t, TermOK(t), NEW c
    PROVE  Step(t, Code(t, c))
<1>1. PICK x, y, k : /\ x = PosX(t) /\ y = PosY(t)
                     /\ k = IF x \div TabSize + 1 >= Cols THEN Cols - 1 ELSE (x \div TabSize + 1) * TabSize
    OBVIOUS
<1>2. x \in Nat /\ y \in Int /\ x - 1 \in Int /\ 0 \in Int
    BY <1>1, TermReady, PosIs, ScreenTyped
<1>3. k \in Int
  <2>1. TabSize \in Nat \ {0} /\ Cols \in Nat
      BY TerminalAssumption, ScreenTyped DEF TerminalAssumption
  <2>2. x \div TabSize \in Nat
      BY <1>2, <2>1
  <2> QED BY <1>1, <2>1, <2>2
<1>4. CASE c = "ESC"
  <2>1. But(t, [t EXCEPT !.offset = 0, !.escape = TRUE], Free)
      BY DEF But, Free, TermOK
  <2> QED BY <1>4, <2>1, FreeSteps DEF Code
<1>5. CASE c = "TAB"
  <2>1. Code(t, c) = SetCursor(t, k, y)
      BY <1>1, <1>5 DEF Code
  <2> QED BY <1>2, <1>3, <2>1, MoveSteps
<1>6. CASE c = "LF"
    BY <1>2, <1>6, MoveSteps DEF Code
<1>7. CASE c = "BS"
  <2>1. Code(t, c) = SetCursor(t, x - 1, y)
      BY <1>1, <1>7 DEF Code
  <2> QED BY <1>2, <2>1, MoveSteps
<1>8. CASE c = "CR"
  <2>1. Code(t, c) = SetCursor(t, 0, y)
      BY <1>1, <1>8 DEF Code
  <2> QED BY <1>2, <2>1, MoveSteps
<1>9. CASE c \in {"SO", "SI"}
    BY <1>9, ParserSets DEF Code
<1>10. CASE c \notin {"ESC", "TAB", "LF", "BS", "CR", "SO", "SI"}
    BY <1>10, StepSame DEF Code
<1> QED BY <1>4, <1>5, <1>6, <1>7, <1>8, <1>9, <1>10

\* Any byte keeps the terminal in order (flanterm.c:1206-1353).
LEMMA ByteSteps ==
    ASSUME NEW t0, TermOK(t0), NEW c
    PROVE  Step(t0, Byte(t0, c))
<1>1. PICK t : t = IF c \in Continuation THEN t0 ELSE [t0 EXCEPT !.unicode = 0]
    OBVIOUS
<1>2. Step(t0, t)
  <2>1. Step(t0, [t0 EXCEPT !.unicode = 0])
    <3>1. 0 \in 0 .. 3
        OBVIOUS
    <3> QED BY <3>1, ParserSets
  <2> QED BY <1>1, <2>1, StepSame
<1>3. TermOK(t)
    BY <1>2 DEF Step
<1>4. CASE t0.discard \/ c = "CAN"
    BY <1>4, AbortSteps DEF Byte
<1>5. CASE ~(t0.discard \/ c = "CAN")
  <2>1. PICK e : e = Byte(t0, c)
      OBVIOUS
  <2>2. CASE t.unicode # 0
    <3>1. e = Continue(t, c)
        BY <1>1, <1>5, <2>1, <2>2 DEF Byte
    <3> QED BY <1>2, <1>3, <2>1, <2>2, <3>1, ContinueSteps, StepOn
  <2>3. CASE t.unicode = 0 /\ c \in DOMAIN Lead
    <3>1. e = [t EXCEPT !.unicode = Lead[c]]
        BY <1>1, <1>5, <2>1, <2>3 DEF Byte
    <3>2. Lead[c] \in 0 .. 3
        BY <2>3 DEF Lead
    <3> QED BY <1>2, <1>3, <2>1, <3>1, <3>2, ParserSets, StepOn
  <2>4. CASE t.unicode = 0 /\ c \notin DOMAIN Lead /\ t.escape
    <3>1. e = Escape(t, c)
        BY <1>1, <1>5, <2>1, <2>4 DEF Byte
    <3> QED BY <1>2, <1>3, <2>1, <3>1, EscapeSteps, StepOn
  <2>5. CASE t.unicode = 0 /\ c \notin DOMAIN Lead /\ ~t.escape
    <3>1. \/ e = Charset(t, c)
          \/ e = Code(t, c)
          \/ e = PutGlyph(t, c)
        BY <1>1, <1>5, <2>1, <2>5 DEF Byte
    <3>2. 0 \in Int
        OBVIOUS
    <3>3. Step(t, e)
        BY <1>3, <3>1, <3>2, CharsetSteps, CodeSteps, MoveSteps
    <3> QED BY <1>2, <2>1, <3>3, StepOn
  <2> QED BY <2>2, <2>3, <2>4, <2>5
<1> QED BY <1>4, <1>5

-----------------------------------------------------------------------------
(* The flush. *)

\* The grid and the picture have the screen's cells, and the cursor is drawn
\* nowhere but where it was at the last flush (fb.c:724-787).
ScreenOK(t) ==
    /\ DOMAIN t.grid = Cells /\ DOMAIN t.shown = Cells
    /\ t.oldX \in Nat /\ t.oldY \in Nat /\ ~t.overrun
    /\ \A i \in Cells : i \notin At(t.oldX, t.oldY) => t.shown[i] = Plot(t.grid[i])

\* Two positions on the screen have different cells (fb.c:559).
LEMMA PositionsDiffer ==
    ASSUME NEW x \in Nat, NEW y \in Nat, NEW a \in Nat, NEW b \in Nat, NEW i,
           i \in At(x, y), i \in At(a, b)
    PROVE  x = a /\ y = b
<1>1. x < Cols /\ a < Cols /\ i = y * Cols + x /\ i = b * Cols + a /\ Cols \in Nat
    BY ScreenTyped DEF At
<1>2. CASE y < b
  <2>1. (y + 1) * Cols <= b * Cols
      BY <1>1, <1>2
  <2>2. (y + 1) * Cols = y * Cols + Cols /\ y * Cols \in Nat /\ b * Cols \in Nat
      BY <1>1
  <2> QED BY <1>1, <2>1, <2>2
<1>3. CASE b < y
  <2>1. (b + 1) * Cols <= y * Cols
      BY <1>1, <1>3
  <2>2. (b + 1) * Cols = b * Cols + Cols /\ y * Cols \in Nat /\ b * Cols \in Nat
      BY <1>1
  <2> QED BY <1>1, <2>1, <2>2
<1>4. CASE y = b
    BY <1>1, <1>4
<1> QED BY <1>2, <1>3, <1>4

\* A flush empties the queue, which was never asked for more items than it has,
\* and brings the picture up to date: the queue's cells, the cursor's, and the one
\* it was in before (fb.c:724-787).
LEMMA FlushIs ==
    ASSUME NEW t, TermOK(t), ScreenOK(t), NEW u, u = Flush(t)
    PROVE  TermOK(u) /\ ScreenOK(u) /\ u.pend = <<>> /\ u.shown = Picture(u)
<1>1. PICK here, old, grid :
         /\ here = IF t.cursorOn THEN At(t.x, t.y) ELSE {}
         /\ old = IF <<t.oldX, t.oldY>> # <<t.x, t.y>> \/ ~t.cursorOn
                  THEN At(t.oldX, t.oldY) ELSE {}
         /\ grid = Over(t.pend, t.grid)
    OBVIOUS
<1>2. PICK shown : shown = [i \in Cells |-> IF i \in old THEN Plot(grid[i])
                                            ELSE IF i \in here THEN Inverted(grid[i])
                                            ELSE IF i \in DOMAIN t.pend THEN Plot(t.pend[i])
                                            ELSE t.shown[i]]
    OBVIOUS
<1>3. PICK over : over = (t.overrun \/ Overfull(t))
    OBVIOUS
<1>4. /\ DOMAIN u = Fields /\ But(t, u, {"grid", "pend", "queue", "overrun", "shown", "oldX", "oldY"})
      /\ u.grid = grid /\ u.pend = <<>> /\ u.queue = <<>> /\ u.overrun = over
      /\ u.shown = shown /\ u.oldX = t.x /\ u.oldY = t.y
  <2>1. u = [t EXCEPT !.grid = grid, !.pend = <<>>, !.queue = <<>>, !.shown = shown,
                      !.overrun = over, !.oldX = t.x, !.oldY = t.y]
      BY <1>1, <1>2, <1>3 DEF Flush
  <2>2. DOMAIN t = Fields
      BY DEF TermOK
  <2>3. /\ DOMAIN u = Fields
        /\ \A f \in Fields \ {"grid", "pend", "queue", "overrun", "shown", "oldX", "oldY"} : u[f] = t[f]
      BY ONLY <2>1, <2>2
  <2>4. /\ u.grid = grid /\ u.pend = <<>> /\ u.queue = <<>> /\ u.overrun = over
        /\ u.shown = shown /\ u.oldX = t.x /\ u.oldY = t.y
      BY ONLY <2>1, <2>2, FieldNames
  <2> QED BY <2>2, <2>3, <2>4 DEF But
<1>5. /\ u.values = t.values /\ u.digits = t.digits /\ u.unicode = t.unicode
      /\ u.select = t.select /\ u.charset = t.charset /\ u.savedX = t.savedX /\ u.savedY = t.savedY
      /\ u.saved = t.saved /\ u.top = t.top /\ u.bottom = t.bottom /\ u.x = t.x /\ u.y = t.y
      /\ u.cursorOn = t.cursorOn
    BY <1>4, FieldNames DEF But
<1>6. QueueOK(u)
  <2>1. DOMAIN u.pend = {} /\ Cardinality({}) = 0 /\ Len(u.queue) = 0 /\ u.queue \in Seq(Int)
      BY <1>4, FS_EmptySet
  <2> QED BY <2>1 DEF QueueOK
<1>7. TermOK(u)
  <2>1. ParserOK(u)
      BY <1>5 DEF TermOK, ParserOK
  <2>2. MarginsOK(u) /\ SavedOK(u.saved)
      BY <1>5 DEF TermOK, MarginsOK
  <2>3. u.x \in 0 .. Cols /\ u.y \in Nat
      BY <1>5 DEF TermOK
  <2> QED BY <1>4, <1>6, <2>1, <2>2, <2>3 DEF TermOK
<1>8. t.x \in Nat /\ t.y \in Nat /\ t.oldX \in Nat /\ t.oldY \in Nat
    BY ScreenTyped DEF TermOK, ScreenOK
<1>9. /\ DOMAIN grid = Cells
      /\ \A i \in Cells : i \in DOMAIN t.pend => grid[i] = t.pend[i]
      /\ \A i \in Cells : i \notin DOMAIN t.pend => grid[i] = t.grid[i]
  <2>1. DOMAIN t.pend \subseteq Cells /\ DOMAIN t.grid = Cells
      BY DEF TermOK, QueueOK, ScreenOK
  <2> QED BY <1>1, <2>1 DEF Over
<1>10. ASSUME NEW i \in Cells
       PROVE  shown[i] = IF t.cursorOn /\ i \in At(t.x, t.y) THEN Inverted(grid[i]) ELSE Plot(grid[i])
  <2>1. CASE i \in old
    <3>1. shown[i] = Plot(grid[i])
        BY <1>2, <2>1
    <3>2. i \in At(t.oldX, t.oldY) /\ (<<t.oldX, t.oldY>> # <<t.x, t.y>> \/ ~t.cursorOn)
        BY <1>1, <2>1
    <3>3. ~(t.cursorOn /\ i \in At(t.x, t.y))
        BY <1>8, <3>2, PositionsDiffer
    <3> QED BY <3>1, <3>3
  <2>2. CASE i \notin old /\ i \in here
    <3>1. shown[i] = Inverted(grid[i])
        BY <1>2, <2>2
    <3>2. t.cursorOn /\ i \in At(t.x, t.y)
        BY <1>1, <2>2
    <3> QED BY <3>1, <3>2
  <2>3. CASE i \notin old /\ i \notin here /\ i \in DOMAIN t.pend
    <3>1. shown[i] = Plot(grid[i])
        BY <1>2, <1>9, <2>3
    <3>2. ~(t.cursorOn /\ i \in At(t.x, t.y))
        BY <1>1, <2>3
    <3> QED BY <3>1, <3>2
  <2>4. CASE i \notin old /\ i \notin here /\ i \notin DOMAIN t.pend
    <3>1. shown[i] = t.shown[i] /\ grid[i] = t.grid[i]
        BY <1>2, <1>9, <2>4
    <3>2. ~(t.cursorOn /\ i \in At(t.x, t.y))
        BY <1>1, <2>4
    <3>3. i \notin At(t.oldX, t.oldY)
        BY <1>1, <1>8, <2>4
    <3>4. t.shown[i] = Plot(t.grid[i])
        BY <3>3 DEF ScreenOK
    <3> QED BY <3>1, <3>2, <3>4
  <2> QED BY <2>1, <2>2, <2>3, <2>4
<1>11. u.shown = Picture(u)
  <2>1. Picture(u) = [i \in Cells |-> IF t.cursorOn /\ i \in At(t.x, t.y) THEN Inverted(grid[i])
                                      ELSE Plot(grid[i])]
      BY <1>4, <1>5 DEF Picture
  <2>2. shown = [i \in Cells |-> shown[i]]
      BY <1>2
  <2> QED BY <1>4, <1>10, <2>1, <2>2
<1>12. ScreenOK(u)
  <2>1. ~u.overrun
    <3>1. Rows * Cols \in Nat /\ Len(t.queue) \in 0 .. Rows * Cols
        BY QueueFits, ScreenTyped DEF TermOK
    <3>2. ~Overfull(t)
        BY <3>1 DEF Overfull
    <3>3. ~t.overrun
        BY DEF ScreenOK
    <3> QED BY <1>3, <1>4, <3>2, <3>3
  <2>2. DOMAIN shown = Cells
      BY <1>2
  <2>3. \A i \in Cells : i \notin At(u.oldX, u.oldY) => u.shown[i] = Plot(u.grid[i])
      BY <1>4, <1>10
  <2> QED BY <1>4, <1>8, <1>9, <2>1, <2>2, <2>3 DEF ScreenOK
<1> QED BY <1>4, <1>7, <1>11, <1>12

\* A terminal between two bytes: in order, and with nothing left to draw.
Ok(t) == TermOK(t) /\ ScreenOK(t) /\ t.pend = <<>> /\ t.shown = Picture(t)

\* A byte and its flush (flanterm.c:105-110).
LEMMA PutcharOk ==
    ASSUME NEW t, Ok(t), NEW c
    PROVE  Ok(Putchar(t, c))
<1>1. PICK b, u : b = Byte(t, c) /\ u = Flush(b)
    OBVIOUS
<1>2. TermOK(b) /\ Kept(t, b)
    BY <1>1, ByteSteps DEF Step, Ok
<1>3. ScreenOK(b)
    BY <1>2 DEF ScreenOK, Kept, Ok
<1>4. Ok(u)
    BY <1>1, <1>2, <1>3, FlushIs DEF Ok
<1> QED BY <1>1, <1>4 DEF Putchar

\* A text of any length (flanterm.c:112-120).
LEMMA WriteOk ==
    ASSUME NEW t, Ok(t), NEW s, Len(s) \in Nat
    PROVE  Ok(Write(t, s))
<1>1. PICK n : n = Len(s)
    OBVIOUS
<1>2. PICK f : /\ Write(t, s) = f[n]
               /\ f[0] = t
               /\ \A k \in 1 .. n : f[k] = Putchar(f[k - 1], s[k])
    BY <1>1, WriteIs
<1> DEFINE S == {k \in Nat : Ok(f[k])}
<1>3. 0 \in S
    BY <1>2
<1>4. ASSUME NEW k \in 1 .. n, k - 1 \in S PROVE k \in S
  <2>1. Ok(f[k - 1]) /\ f[k] = Putchar(f[k - 1], s[k])
      BY <1>2, <1>4
  <2>2. Ok(f[k])
      BY <2>1, PutcharOk
  <2> QED BY <1>1, <2>2
<1> HIDE DEF S
<1>5. n \in Nat
    BY <1>1
<1>6. \A k \in 0 .. n : k \in S
    BY ONLY <1>3, <1>4, <1>5, BoundedInduction
<1>7. n \in S
    BY <1>5, <1>6
<1> QED BY <1>2, <1>7 DEF S

-----------------------------------------------------------------------------
(* The shell on the terminal. *)

\* The inductive invariant: the terminal with nothing coming and the picture up to
\* date, and the shell's variables with their types.
ConsoleInv ==
    /\ Ok(term)
    /\ line \in Seq(STRING)
    /\ inScanf \in BOOLEAN /\ shifted \in BOOLEAN /\ capslock \in BOOLEAN /\ tracked \in BOOLEAN
    /\ scripts \in 0 .. MaxScripts
    /\ home \in 0 .. Cols

\* The terminal as it starts: blank, with the cursor in the first cell (fb.c:1002-1100).
LEMMA InitOk == Ok(FlantermInit)
<1>1. PICK t : t = FlantermInit
    OBVIOUS
<1>2. DOMAIN t = Fields
    BY <1>1 DEF Fields
<1>3. \A f \in Fields : t[f] = IF f \in DOMAIN Reinit THEN Reinit[f]
                               ELSE IF f = "saved" THEN Unsaved ELSE FbInit[f]
    BY <1>1 DEF FlantermInit, Over, Fields
<1>4. /\ t.values = <<>> /\ t.digits = FALSE /\ t.unicode = 0 /\ t.select = 0 /\ t.charset = 1
      /\ t.savedX = 0 /\ t.savedY = 0 /\ t.top = 0 /\ t.bottom = Rows /\ t.cursorOn = TRUE
  <2>1. "cursorOn" \in DOMAIN Reinit /\ Reinit.cursorOn = TRUE
      BY DEF Reinit
  <2> QED BY <1>3, <2>1, ReinitFields, FieldNames
<1>5. t.saved = Unsaved
    BY <1>3, ReinitFields, FieldNames
<1>6. /\ t.grid = FbInit.grid /\ t.pend = FbInit.pend /\ t.queue = FbInit.queue /\ t.overrun = FbInit.overrun
      /\ t.shown = FbInit.shown /\ t.x = FbInit.x /\ t.y = FbInit.y /\ t.oldX = FbInit.oldX
      /\ t.oldY = FbInit.oldY
    BY <1>3, ReinitFields, FieldNames
<1>7. PICK blank : blank = << " ", DefaultFg, Transparent >>
    OBVIOUS
<1>8. /\ t.grid = [i \in Cells |-> blank] /\ t.pend = <<>> /\ t.queue = <<>> /\ t.overrun = FALSE
      /\ t.shown = [i \in Cells |-> IF i = 0 THEN Inverted(blank) ELSE Plot(blank)]
      /\ t.x = 0 /\ t.y = 0 /\ t.oldX = 0 /\ t.oldY = 0
    BY <1>6, <1>7 DEF FbInit
<1>9. Cols \in Nat \ {0} /\ Rows \in Nat \ {0, 1} /\ MaxValues \in Nat /\ Rows * Cols \in Nat
    BY ScreenTyped, TerminalAssumption DEF TerminalAssumption
<1>10. QueueOK(t)
  <2>1. DOMAIN t.pend = {} /\ Cardinality({}) = 0 /\ Len(t.queue) = 0 /\ t.queue \in Seq(Int)
      BY <1>8, FS_EmptySet
  <2> QED BY <2>1 DEF QueueOK
<1>11. ParserOK(t)
    BY <1>4, <1>9 DEF ParserOK
<1>12. MarginsOK(t)
    BY <1>4, <1>8, <1>9 DEF MarginsOK
<1>13. SavedOK(t.saved)
    BY <1>5, <1>9 DEF SavedOK, Unsaved
<1>14. TermOK(t)
    BY <1>2, <1>8, <1>9, <1>10, <1>11, <1>12, <1>13 DEF TermOK
<1>15. At(0, 0) = {0}
    BY <1>9 DEF At
<1>16. ScreenOK(t)
    BY <1>8, <1>9, <1>15 DEF ScreenOK
<1>17. t.shown = Picture(t)
    BY <1>4, <1>8, <1>15 DEF Picture
<1> QED BY <1>1, <1>8, <1>14, <1>16, <1>17 DEF Ok

\* The shell starts in order (keyboard.c:12-19).
LEMMA ConsoleInit == Init => ConsoleInv
<1> SUFFICES ASSUME Init PROVE ConsoleInv
    OBVIOUS
<1>1. Ok(term)
    BY InitOk DEF Init
<1>2. MaxScripts \in Nat /\ Cols \in Nat
    BY ConsoleAssumption, ScreenTyped DEF ConsoleAssumption
<1>3. line \in Seq(STRING)
    BY DEF Init
<1>4. inScanf \in BOOLEAN /\ shifted \in BOOLEAN /\ capslock \in BOOLEAN /\ tracked \in BOOLEAN
    BY DEF Init
<1>5. scripts \in 0 .. MaxScripts /\ home \in 0 .. Cols
    BY <1>2 DEF Init
<1> QED BY <1>1, <1>3, <1>4, <1>5 DEF ConsoleInv

\* What the shell answers is a text (shell.c:45-129).
LEMMA AnswerIs ==
    ASSUME NEW l, NEW w \in Answer(l)
    PROVE  \E T : w \in Seq(T) /\ "LF" \in T
<1>0. PICK T : T = STRING \union {"E", "LF"}
    OBVIOUS
<1>1. CASE l = <<"q">>
  <2>1. w = <<>>
      BY <1>1 DEF Answer
  <2>2. w \in Seq(T) /\ "LF" \in T
      BY <1>0, <2>1
  <2> QED BY <2>2
<1>2. CASE l # <<"q">> /\ l = <<"f">>
  <2>1. PICK v \in Labels : w = v \o <<"LF">>
      BY <1>2 DEF Answer
  <2>2. v \in Seq(STRING)
      BY ConsoleAssumption DEF ConsoleAssumption
  <2>3. v \in Seq(T) /\ "LF" \in T
      BY <1>0, <2>2
  <2>4. <<"LF">> \in Seq(T)
      BY ONLY <2>3
  <2>5. v \o <<"LF">> \in Seq(T)
      BY <2>3, <2>4
  <2> QED BY <2>1, <2>3, <2>5
<1>3. CASE l # <<"q">> /\ l # <<"f">>
  <2>1. w = <<"E", "LF">>
      BY <1>3 DEF Answer
  <2>2. "E" \in T /\ "LF" \in T
      BY <1>0
  <2>3. <<"E", "LF">> \in Seq(T)
      BY ONLY <2>2
  <2> QED BY <2>1, <2>2, <2>3
<1> QED BY <1>1, <1>2, <1>3

\* Enter runs the line (keyboard.c:169-178).
LEMMA EnterKeeps == ConsoleInv /\ Enter => ConsoleInv'
<1> SUFFICES ASSUME ConsoleInv, Enter PROVE ConsoleInv'
    OBVIOUS
<1>1. PICK w \in Answer(line) :
         LET t == Write(term, <<"LF">> \o w)
         IN  IF inScanf' THEN Prompted(Write(t, Prompt))
             ELSE term' = t /\ tracked' = FALSE /\ home' = home
    BY DEF Enter
<1>2. PICK t, u : t = Write(term, <<"LF">> \o w) /\ u = Write(t, Prompt)
    OBVIOUS
<1>3. Ok(t)
  <2>1. PICK T : w \in Seq(T) /\ <<"LF">> \in Seq(T)
    <3>1. PICK T : w \in Seq(T) /\ "LF" \in T
        BY AnswerIs
    <3>2. <<"LF">> \in Seq(T)
        BY ONLY <3>1
    <3> QED BY <3>1, <3>2
  <2>2. PICK s : s = <<"LF">> \o w
      OBVIOUS
  <2>3. s \in Seq(T)
      BY <2>1, <2>2
  <2>4. Len(s) \in Nat
      BY <2>3
  <2> QED BY <1>2, <2>2, <2>4, WriteOk DEF ConsoleInv
<1>4. Ok(u)
  <2>1. PICK p : p = Prompt
      OBVIOUS
  <2>2. Len(p) \in Nat
      BY <2>1 DEF Prompt
  <2> QED BY <1>2, <1>3, <2>1, <2>2, WriteOk
<1>5. \/ inScanf' /\ Prompted(u)
      \/ ~inScanf' /\ term' = t /\ tracked' = FALSE /\ home' = home
    BY <1>1, <1>2
<1>6. Ok(term') /\ home' \in 0 .. Cols /\ tracked' \in BOOLEAN
  <2>1. CASE inScanf' /\ Prompted(u)
    <3>1. term' = u /\ home' = u.x /\ tracked' = Quiet(u)
        BY <2>1 DEF Prompted
    <3>2. Quiet(u) \in BOOLEAN
        BY DEF Quiet
    <3> QED BY <1>4, <3>1, <3>2 DEF Ok, TermOK
  <2>2. CASE ~inScanf' /\ term' = t /\ tracked' = FALSE /\ home' = home
      BY <1>3, <2>2 DEF ConsoleInv
  <2> QED BY <1>5, <2>1, <2>2
<1>7. /\ line' = <<>> /\ inScanf' \in BOOLEAN /\ shifted' = shifted /\ capslock' = capslock
      /\ scripts' = scripts
    BY DEF Enter, Key
<1>8. line' \in Seq(STRING)
    BY <1>7
<1> QED BY <1>6, <1>7, <1>8 DEF ConsoleInv

\* F1 starts the shell (keyboard.c:179-183).
LEMMA F1Keeps == ConsoleInv /\ F1 => ConsoleInv'
<1> SUFFICES ASSUME ConsoleInv, F1 PROVE ConsoleInv'
    OBVIOUS
<1>1. PICK t : t = Write(term, Banner)
    OBVIOUS
<1>2. Ok(t)
  <2>1. PICK s : s = Banner
      OBVIOUS
  <2>2. Len(s) \in Nat
    <3>1. PICK p, x, y : p = <<x, y>> /\ p = Prompt
        BY DEF Prompt
    <3>2. PICK T : "S" \in T /\ "LF" \in T /\ x \in T /\ y \in T
      <4>1. PICK T : T = {"S", "LF", x, y}
          OBVIOUS
      <4> QED BY <4>1
    <3>3. PICK a : a = <<"S", "LF", "LF">>
        OBVIOUS
    <3>4. a \in Seq(T)
        BY ONLY <3>2, <3>3
    <3>5. p \in Seq(T)
        BY ONLY <3>1, <3>2
    <3>6. PICK q : q = a \o p
        OBVIOUS
    <3>7. q \in Seq(T)
        BY ONLY <3>4, <3>5, <3>6
    <3>8. s = q
        BY <2>1, <3>1, <3>3, <3>6 DEF Banner
    <3>9. Len(q) \in Nat
        BY ONLY <3>7
    <3> QED BY <3>8, <3>9
  <2> QED BY <1>1, <2>1, <2>2, WriteOk DEF ConsoleInv
<1>3. term' = t /\ home' = t.x /\ tracked' = (Quiet(t) /\ line = <<>>)
    BY <1>1 DEF F1
<1>4. inScanf' = TRUE /\ shifted' = FALSE /\ line' = line /\ capslock' = capslock /\ scripts' = scripts
    BY DEF F1, Key
<1>5. home' \in 0 .. Cols
    BY <1>2, <1>3 DEF Ok, TermOK
<1>6. tracked' \in BOOLEAN
    BY <1>3
<1> QED BY <1>2, <1>3, <1>4, <1>5, <1>6 DEF ConsoleInv

\* Backspace takes a character back (keyboard.c:188-197).
LEMMA BackspaceKeeps == ConsoleInv /\ Backspace => ConsoleInv'
<1> SUFFICES ASSUME ConsoleInv, Backspace PROVE ConsoleInv'
    OBVIOUS
<1>1. inScanf' = inScanf /\ shifted' = shifted /\ capslock' = capslock /\ home' = home /\ scripts' = scripts
    BY DEF Backspace, Key
<1>2. CASE UNCHANGED <<term, line, tracked>>
    BY <1>1, <1>2 DEF ConsoleInv
<1>3. CASE ~UNCHANGED <<term, line, tracked>>
  <2>1. /\ line # <<>> /\ term' = Write(term, <<"BS", " ", "BS">>)
        /\ line' = SubSeq(line, 1, Len(line) - 1)
        /\ tracked' = (tracked /\ term.x \in 1 .. Cols - 1)
      BY <1>3 DEF Backspace
  <2>2. Ok(term')
    <3>1. PICK s : s = <<"BS", " ", "BS">>
        OBVIOUS
    <3>2. Len(s) \in Nat
        BY <3>1
    <3> QED BY <2>1, <3>1, <3>2, WriteOk DEF ConsoleInv
  <2>3. line' \in Seq(STRING)
    <3>1. line \in Seq(STRING) /\ Len(line) \in Nat /\ Len(line) - 1 \in Int
        BY DEF ConsoleInv
    <3>2. \A k \in 1 .. Len(line) - 1 : line[k] \in STRING
        BY <3>1
    <3>3. 1 \in Int
        OBVIOUS
    <3>4. SubSeq(line, 1, Len(line) - 1) \in Seq(STRING)
        BY ONLY <3>1, <3>2, <3>3, SubSeqProperties
    <3> QED BY <2>1, <3>4
  <2>4. tracked' \in BOOLEAN
      BY <2>1
  <2> QED BY <1>1, <2>2, <2>3, <2>4 DEF ConsoleInv
<1> QED BY <1>2, <1>3

\* A character is echoed and added to the line (keyboard.c:184-207).
LEMMA CharacterKeeps ==
    ASSUME NEW k, ConsoleInv, Character(k)
    PROVE  ConsoleInv'
<1>1. /\ inScanf' = inScanf /\ capslock' = capslock /\ home' = home /\ scripts' = scripts
      /\ k \in DOMAIN Table
    BY DEF Character, Key
<1>2. PICK c : c = Table[k][IF capslock \/ shifted THEN 2 ELSE 1]
    OBVIOUS
<1>3. c \in STRING
    BY <1>1, <1>2, ConsoleAssumption DEF ConsoleAssumption
<1>4. CASE inScanf
  <2>1. /\ term' = Putchar(term, c) /\ line' = Append(line, c) /\ shifted' = FALSE
        /\ tracked' = (tracked /\ c \notin Controls \union Strange
                               /\ (term.x < Cols \/ WholeScreen(term)))
      BY <1>2, <1>4 DEF Character
  <2>2. Ok(term')
      BY <2>1, PutcharOk DEF ConsoleInv
  <2>3. line' \in Seq(STRING)
      BY <1>3, <2>1 DEF ConsoleInv
  <2>4. tracked' \in BOOLEAN
      BY <2>1
  <2> QED BY <1>1, <2>1, <2>2, <2>3, <2>4 DEF ConsoleInv
<1>5. CASE ~inScanf
  <2>1. UNCHANGED <<term, line, shifted, tracked>>
      BY <1>5 DEF Character
  <2> QED BY <1>1, <2>1 DEF ConsoleInv
<1> QED BY <1>4, <1>5

\* Every step of the shell keeps the invariant (keyboard.c:160-207).
LEMMA ConsoleStep == ConsoleInv /\ [Next]_vars => ConsoleInv'
<1> SUFFICES ASSUME ConsoleInv, [Next]_vars PROVE ConsoleInv'
    OBVIOUS
<1>1. CASE \E s \in Scripts : Type(s)
  <2>1. /\ UNCHANGED <<term, line, inScanf, shifted, capslock, home, tracked>>
        /\ scripts < MaxScripts /\ scripts' = scripts + 1
      BY <1>1 DEF Type
  <2>2. scripts' \in 0 .. MaxScripts
      BY <2>1, ConsoleAssumption DEF ConsoleInv, ConsoleAssumption
  <2> QED BY <2>1, <2>2 DEF ConsoleInv
<1>2. CASE Enter
    BY <1>2, EnterKeeps
<1>3. CASE F1
    BY <1>3, F1Keeps
<1>4. CASE Backspace
    BY <1>4, BackspaceKeeps
<1>5. CASE \E k \in {"Caps", "Shift", "Ctrl", "Up", "Enter"} : Modifier(k)
  <2>1. PICK k : Modifier(k)
      BY <1>5
  <2>2. UNCHANGED <<term, line, inScanf, home, tracked>> /\ scripts' = scripts
      BY <2>1 DEF Modifier, Key
  <2>3. capslock' = (capslock # (inScanf /\ k = "Caps"))
      BY <2>1 DEF Modifier
  <2>4. shifted' = IF ~inScanf THEN shifted
                   ELSE IF k = "Shift" THEN TRUE
                   ELSE IF k = "Ctrl" THEN FALSE
                   ELSE shifted
      BY <2>1 DEF Modifier
  <2>5. capslock' \in BOOLEAN
      BY <2>3
  <2>6. shifted' \in BOOLEAN
      BY <2>4 DEF ConsoleInv
  <2> QED BY <2>2, <2>5, <2>6 DEF ConsoleInv
<1>6. CASE \E k \in DOMAIN Table : Character(k)
    BY <1>6, CharacterKeeps
<1>7. CASE UNCHANGED vars
    BY <1>7 DEF ConsoleInv, vars
<1> QED BY <1>1, <1>2, <1>3, <1>4, <1>5, <1>6, <1>7 DEF Next

\* The invariant holds of every behaviour of the shell (keyboard.c:160-207).
THEOREM ConsoleInvariant == Spec => []ConsoleInv
<1>1. Init => ConsoleInv
    BY ConsoleInit
<1>2. ConsoleInv /\ [Next]_vars => ConsoleInv'
    BY ConsoleStep
<1> QED BY <1>1, <1>2, PTL DEF Spec

\* Types: the cursor's column, the values of a control sequence and the line are
\* what the code declares, whatever bytes come (flanterm.c:484-541, 1206-1353).
THEOREM ConsoleTyped == Spec => []TypeOK
<1>1. ConsoleInv => TypeOK
  <2> SUFFICES ASSUME ConsoleInv PROVE TypeOK
      OBVIOUS
  <2>1. DOMAIN term.grid = Cells /\ DOMAIN term.shown = Cells
      BY DEF ConsoleInv, Ok, ScreenOK
  <2>2. term.x \in 0 .. Cols /\ ParserOK(term)
      BY DEF ConsoleInv, Ok, TermOK
  <2> QED BY <2>1, <2>2 DEF TypeOK, ConsoleInv, ParserOK
<1> QED BY <1>1, ConsoleInvariant, PTL

\* After every key the screen shows the grid and the cursor (fb.c:724-787).
THEOREM ScreenUpToDate == Spec => []PictureUpToDate
<1>1. ConsoleInv => PictureUpToDate
    BY DEF ConsoleInv, Ok, PictureUpToDate
<1> QED BY <1>1, ConsoleInvariant, PTL

\* The queue never overflows: its array has one item for each cell, and no key,
\* command or script makes push_to_queue take another (fb.c:521-543, 1083).
THEOREM QueueNeverFull == Spec => []QueueBounded
<1>1. ConsoleInv => QueueBounded
    BY ScreenTyped DEF ConsoleInv, Ok, ScreenOK, QueueBounded
<1> QED BY <1>1, ConsoleInvariant, PTL

\* The margins hold two rows of the screen or more, and while they reach down to
\* its end the cursor is on it, unless it was saved outside (flanterm.c:751-773, fb.c:799).
THEOREM RegionKept == Spec => []RegionSound
<1>1. ConsoleInv => RegionSound
    BY DEF ConsoleInv, Ok, TermOK, MarginsOK, RegionSound
<1> QED BY <1>1, ConsoleInvariant, PTL

-----------------------------------------------------------------------------
(* What is in the cells, or on its way to them. *)

\* Cells copied from d cells behind, in ascending order: each gets what was
\* there, and the others keep what they have (fb.c:576-586).
LEMMA CopyRunMoves ==
    ASSUME NEW t, DOMAIN t = Fields, QueueOK(t), NEW to \in Nat, NEW d \in Nat \ {0}, NEW n \in Int,
           to + d + n <= Rows * Cols
    PROVE  \A j \in Cells : Content(CopyRun(t, to + d, to, 1, n), j) =
              IF to <= j /\ j < to + n THEN Content(t, j + d) ELSE Content(t, j)
<1>0. Cells \subseteq Nat /\ Rows * Cols \in Nat
    BY ScreenTyped
<1>1. CASE n <= 0
    BY <1>0, <1>1 DEF CopyRun
<1>2. CASE n > 0
  <2>1. PICK from : from = to + d
      OBVIOUS
  <2>2. PICK f : /\ CopyRun(t, from, to, 1, n) = f[n]
                 /\ f[0] = t
                 /\ \A k \in 1 .. n : f[k] = Copy(f[k - 1], from + 1 * (k - 1), to + 1 * (k - 1))
      BY <1>2, CopyRunIs
  <2> DEFINE P(k) == /\ Drawn(t, f[k])
                     /\ \A j \in Cells : Content(f[k], j) =
                           IF to <= j /\ j < to + k THEN Content(t, j + d) ELSE Content(t, j)
             S == {k \in Nat : P(k)}
  <2>3. 0 \in S
    <3>1. \A j \in Cells : ~(to <= j /\ j < to + 0)
        BY <1>0
    <3> QED BY <2>2, <3>1, NoneDrawn
  <2>4. ASSUME NEW k \in 1 .. n, k - 1 \in S PROVE k \in S
    <3>1. PICK i, s, a : i = to + (k - 1) /\ s = i + d /\ a = f[k - 1]
        OBVIOUS
    <3>2. i \in Nat /\ s \in Cells /\ from + 1 * (k - 1) = s /\ to + 1 * (k - 1) = i
        BY <1>0, <2>1, <3>1, ScreenTyped
    <3>3. /\ Drawn(t, a)
          /\ \A j \in Cells : Content(a, j) =
                IF to <= j /\ j < to + (k - 1) THEN Content(t, j + d) ELSE Content(t, j)
        BY <2>4, <3>1
    <3>4. f[k] = Copy(a, s, i)
        BY <2>2, <3>1, <3>2
    <3>5. DOMAIN a = Fields /\ QueueOK(a)
        BY <3>3, DrawnFields
    <3>6. /\ Drawn(a, f[k])
          /\ i \in Cells => Content(f[k], i) = Content(a, s)
          /\ \A j \in Cells : j # i => Content(f[k], j) = Content(a, j)
        BY <3>2, <3>4, <3>5, CopyIs
    <3>7. Content(a, s) = Content(t, s)
      <4>1. ~(to <= s /\ s < to + (k - 1))
          BY <3>1, <3>2
      <4> QED BY <3>2, <3>3, <4>1
    <3>8. ASSUME NEW j \in Cells
          PROVE  Content(f[k], j) = IF to <= j /\ j < to + k THEN Content(t, j + d) ELSE Content(t, j)
      <4>1. CASE j = i
        <5>1. to <= j /\ j < to + k /\ j + d = s
            BY <3>1, <3>2, <4>1
        <5> QED BY <3>6, <3>7, <4>1, <5>1
      <4>2. CASE j # i
        <5>1. to <= j /\ j < to + (k - 1) <=> to <= j /\ j < to + k
            BY <1>0, <3>1, <3>2, <4>2
        <5> QED BY <3>3, <3>6, <4>2, <5>1
      <4> QED BY <4>1, <4>2
    <3>9. Drawn(t, f[k])
        BY <3>3, <3>6, DrawnOn
    <3> QED BY <3>8, <3>9
  <2> HIDE DEF S
  <2>5. n \in S
      BY <1>2, <2>3, <2>4, BoundedInduction
  <2>6. P(n)
      BY <2>5 DEF S
  <2> QED BY <2>1, <2>2, <2>6
<1> QED BY <1>1, <1>2

\* The margins' rows are rows of the screen.
Inside(t) == Region(t) /\ t.top + 1 < t.bottom /\ t.bottom <= Rows

\* Scrolling: the rows of the region go up by one, its last becomes blank, and
\* the other rows stay (fb.c:573-596).
LEMMA ScrollIs ==
    ASSUME NEW t, DOMAIN t = Fields, QueueOK(t), Inside(t)
    PROVE  \A j \in Cells : Content(Scroll(t), j) =
              IF t.top * Cols <= j /\ j < (t.bottom - 1) * Cols THEN Content(t, j + Cols)
              ELSE IF (t.bottom - 1) * Cols <= j /\ j < t.bottom * Cols THEN Blank(t)
              ELSE Content(t, j)
<1>1. PICK to, first, last, end, n : /\ to = t.top * Cols /\ first = (t.top + 1) * Cols
                                     /\ last = (t.bottom - 1) * Cols /\ end = t.bottom * Cols
                                     /\ n = end - first
    OBVIOUS
<1>2. /\ Cols \in Nat \ {0} /\ Rows \in Nat /\ Rows * Cols \in Nat /\ Cells = 0 .. Rows * Cols - 1
      /\ t.top \in Nat /\ t.bottom \in Nat \ {0} /\ t.top + 1 < t.bottom /\ t.bottom <= Rows
    BY ScreenTyped DEF Inside, Region
<1>3. /\ to \in Nat /\ first = to + Cols /\ first \in Nat /\ last \in Nat
      /\ end = last + Cols
  <2>1. (t.top + 1) * Cols = t.top * Cols + Cols /\ t.top * Cols \in Nat
      BY <1>2
  <2>2. to \in Nat /\ first = to + Cols
      BY <1>1, <2>1
  <2>3. (t.bottom - 1) * Cols = t.bottom * Cols - Cols /\ t.bottom * Cols \in Nat
      BY <1>2
  <2>4. PICK b \in Nat : b = t.bottom - 1
      BY <1>2
  <2>5. last \in Nat
    <3>1. last = b * Cols /\ Cols \in Nat
        BY <1>1, <1>2, <2>4
    <3> QED BY <3>1
  <2>6. end = last + Cols
      BY <1>1, <1>2, <2>3
  <2>7. first \in Nat
      BY <1>2, <2>2
  <2> QED BY <2>2, <2>5, <2>6, <2>7
<1>4. last + Cols <= Rows * Cols
  <2>1. end <= Rows * Cols
      BY <1>1, <1>2
  <2> QED BY <1>3, <2>1
<1>5. n \in Int /\ to + Cols + n = last + Cols /\ to + n = last
  <2>1. n = end - first
      BY <1>1
  <2> QED BY <1>2, <1>3, <2>1
<1>6. PICK u : u = CopyRun(t, to + Cols, to, 1, n)
    OBVIOUS
<1>7. \A j \in Cells : Content(u, j) =
         IF to <= j /\ j < to + n THEN Content(t, j + Cols) ELSE Content(t, j)
  <2>1. to + Cols + n <= Rows * Cols
      BY <1>4, <1>5
  <2>2. to \in Nat /\ Cols \in Nat \ {0} /\ n \in Int
      BY <1>2, <1>3, <1>5
  <2>3. \A j \in Cells : Content(CopyRun(t, to + Cols, to, 1, n), j) =
           IF to <= j /\ j < to + n THEN Content(t, j + Cols) ELSE Content(t, j)
      BY ONLY <2>1, <2>2, CopyRunMoves, DOMAIN t = Fields, QueueOK(t)
  <2> QED BY <1>6, <2>3
<1>8. Drawn(t, u)
  <2>1. \A k \in 1 .. n : to + 1 * (k - 1) \in Nat
      BY <1>3, <1>5
  <2> QED BY <1>5, <1>6, <2>1, CopyRunDraws
<1>9. DOMAIN u = Fields /\ QueueOK(u) /\ u.bottom = t.bottom /\ Blank(u) = Blank(t)
    BY <1>8, DrawnFields DEF Blank
<1>10. Scroll(t) = BlankRun(u, last, Cols)
  <2>1. first - Cols = to
      BY <1>2, <1>3
  <2> QED BY <1>1, <1>3, <1>6, <1>9, <2>1 DEF Scroll, BlankRow
<1>11. \A j \in Cells : Content(Scroll(t), j) =
          IF last <= j /\ j < last + Cols THEN Blank(u) ELSE Content(u, j)
    BY <1>2, <1>3, <1>9, <1>10, BlankRunDraws
<1>12. ASSUME NEW j \in Cells
       PROVE  Content(Scroll(t), j) =
                 IF to <= j /\ j < last THEN Content(t, j + Cols)
                 ELSE IF last <= j /\ j < last + Cols THEN Blank(t)
                 ELSE Content(t, j)
  <2>1. j \in Nat
      BY <1>2
  <2>2. CASE to <= j /\ j < last
    <3>1. ~(last <= j)
        BY <1>3, <2>1, <2>2
    <3> QED BY <1>5, <1>7, <1>11, <2>2, <3>1
  <2>3. CASE ~(to <= j /\ j < last)
    <3>1. CASE last <= j /\ j < last + Cols
        BY <1>9, <1>11, <2>3, <3>1
    <3>2. CASE ~(last <= j /\ j < last + Cols)
        BY <1>5, <1>7, <1>11, <2>3, <3>2
    <3> QED BY <3>1, <3>2
  <2> QED BY <2>2, <2>3
<1> QED BY <1>1, <1>3, <1>12

\* A character in the row goes to the cursor's cell and nowhere else (fb.c:804-808).
LEMMA PutsInRow ==
    ASSUME NEW t, Ready(t), t.x < Cols, t.y < Rows, NEW c, NEW scrolls, NEW u,
           u = RawPutchar(t, c, scrolls)
    PROVE  /\ u.x = t.x + 1 /\ u.y = t.y
           /\ Ahead(t) \in Cells /\ Content(u, Ahead(t)) = << c, t.fg, t.bg >>
           /\ \A j \in Cells : j # Ahead(t) => Content(u, j) = Content(t, j)
<1>1. t.x \in Nat /\ t.y \in Nat /\ Cols \in Nat
    BY ScreenTyped DEF Ready
<1>2. PICK p : p = Push(t, << c, t.fg, t.bg >>, t.x, t.y)
    OBVIOUS
<1>3. u = [p EXCEPT !.x = p.x + 1]
    BY <1>1, <1>2 DEF RawPutchar
<1>4. /\ Drawn(t, p)
      /\ Content(p, t.y * Cols + t.x) = << c, t.fg, t.bg >>
      /\ \A j \in Cells : j # t.y * Cols + t.x => Content(p, j) = Content(t, j)
    BY <1>1, <1>2, PushIs DEF Ready
<1>5. DOMAIN p = Fields /\ p.x = t.x /\ p.y = t.y
    BY <1>4, DrawnFields DEF Ready
<1>6. u.pend = p.pend /\ u.grid = p.grid /\ u.x = t.x + 1 /\ u.y = t.y
    BY <1>3, <1>5, FieldNames
<1>7. \A j : Content(u, j) = Content(p, j)
    BY <1>6 DEF Content
<1>8. Ahead(t) = t.y * Cols + t.x /\ Ahead(t) \in Cells
    BY <1>1, CellOf DEF Ahead
<1> QED BY <1>4, <1>6, <1>7, <1>8

\* Behind the end of a row a character goes to the next, from the last row by
\* scrolling the whole screen by d cells (fb.c:792-802).
LEMMA WrapsWhole ==
    ASSUME NEW t, Ready(t), t.x = Cols, t.y < Rows, WholeScreen(t), Rows <= Cols, NEW w, w = Wrapped(t)
    PROVE  \E d \in {0, Cols} :
              /\ w.x = 0 /\ w.y < Rows /\ Ahead(w) = Ahead(t) - d /\ Ready(w)
              /\ \A j \in Cells : j < Ahead(w) => j + d \in Cells /\ Content(w, j) = Content(t, j + d)
              /\ d = 0 => \A j \in Cells : Content(w, j) = Content(t, j)
<1>1. /\ t.y \in Nat /\ Cols \in Nat \ {0} /\ Rows \in Nat \ {0, 1} /\ t.top = 0 /\ t.bottom = Rows
      /\ Cells = 0 .. Rows * Cols - 1 /\ Rows * Cols \in Nat
    BY ScreenTyped DEF Ready, WholeScreen
<1>2. Wrote(t, w) /\ w.x = 0
    BY WrappedWrites
<1>3. Ready(w) /\ w.y < Rows /\ w.y \in Nat
    BY <1>1, <1>2, WroteOn DEF Wrote
<1>4. CASE t.y + 1 = Rows
  <2>1. PICK s, z : s = Scroll(t) /\ z = Rows - 1
      OBVIOUS
  <2>2. w = [s EXCEPT !.x = 0, !.y = z]
    <3>1. PICK y, q, v : /\ y = t.y + 1 /\ q = (IF y = t.bottom THEN Scroll(t) ELSE t)
                         /\ v = IF y = t.bottom THEN y - 1 ELSE y
        OBVIOUS
    <3>2. Wrapped(t) = [q EXCEPT !.x = 0, !.y = IF v >= Cols THEN Cols - 1 ELSE v]
        BY <3>1 DEF Wrapped
    <3>3. y = t.bottom /\ q = s
        BY <1>1, <1>4, <2>1, <3>1
    <3>4. v = z /\ ~(v >= Cols)
        BY <1>1, <1>4, <2>1, <3>1, <3>3
    <3> QED BY <3>2, <3>3, <3>4
  <2>3. DOMAIN t = Fields /\ QueueOK(t) /\ Region(t) /\ Inside(t)
    <3>1. DOMAIN t = Fields /\ QueueOK(t) /\ Region(t)
        BY DEF Ready
    <3> QED BY <1>1, <3>1 DEF Inside
  <2>4. Drawn(t, s)
      BY <2>1, <2>3, ScrollDraws
  <2>5. DOMAIN s = Fields
      BY <2>3, <2>4, DrawnFields
  <2>6. w.pend = s.pend /\ w.grid = s.grid /\ w.y = z
      BY <2>2, <2>5, FieldNames
  <2>7. \A j : Content(w, j) = Content(s, j)
      BY <2>6 DEF Content
  <2>8. PICK last : last = (Rows - 1) * Cols
      OBVIOUS
  <2>9. t.y * Cols = last /\ last \in Nat /\ Rows * Cols = last + Cols
    <3>1. PICK b \in Nat : b = Rows - 1
        BY <1>1
    <3>2. b * Cols \in Nat /\ (b + 1) * Cols = b * Cols + Cols /\ Rows = b + 1 /\ t.y = b
        BY <1>1, <1>4, <3>1
    <3> QED BY <2>8, <3>1, <3>2
  <2>10. Ahead(t) = last + Cols /\ Ahead(w) = last
    <3>1. Ahead(w) = z * Cols + 0
        BY <1>2, <2>6 DEF Ahead
    <3>2. z * Cols = last
        BY <2>1, <2>8
    <3> QED BY <2>9, <3>1, <3>2 DEF Ahead
  <2>11. Ahead(w) = Ahead(t) - Cols
      BY <1>1, <2>9, <2>10
  <2>12. ASSUME NEW j \in Cells, j < Ahead(w)
         PROVE  j + Cols \in Cells /\ Content(w, j) = Content(t, j + Cols)
    <3>1. j \in Nat /\ j < last /\ j + Cols \in Cells
        BY <1>1, <2>9, <2>10, <2>12
    <3>2. t.top * Cols = 0 /\ (t.bottom - 1) * Cols = last
        BY <1>1, <2>8
    <3>3. t.top * Cols <= j /\ j < (t.bottom - 1) * Cols
        BY <3>1, <3>2
    <3>4. Content(s, j) = Content(t, j + Cols)
        BY <2>1, <2>3, <3>3, ScrollIs
    <3> QED BY <2>7, <3>1, <3>4
  <2>13. Cols # 0
      BY <1>1
  <2> QED BY <1>2, <1>3, <2>11, <2>12, <2>13
<1>5. CASE t.y + 1 # Rows
  <2>1. t.y + 1 < Rows /\ ~(t.y + 1 >= Cols) /\ t.y + 1 # t.bottom
      BY <1>1, <1>5
  <2>2. w = [t EXCEPT !.x = 0, !.y = t.y + 1]
      BY <1>1, <2>1 DEF Wrapped
  <2>3. w.pend = t.pend /\ w.grid = t.grid /\ w.y = t.y + 1
      BY <2>2, FieldNames DEF Ready
  <2>4. \A j : Content(w, j) = Content(t, j)
      BY <2>3 DEF Content
  <2>5. (t.y + 1) * Cols = t.y * Cols + Cols /\ t.y * Cols \in Nat
      BY <1>1
  <2>6. Ahead(w) = (t.y + 1) * Cols + 0 /\ Ahead(t) = t.y * Cols + Cols
      BY <1>2, <2>3 DEF Ahead
  <2>7. Ahead(w) = Ahead(t) - 0
      BY <1>1, <2>5, <2>6
  <2>8. ASSUME NEW j \in Cells PROVE j + 0 \in Cells /\ Content(w, j) = Content(t, j + 0)
    <3>1. j + 0 = j
        BY <1>1
    <3> QED BY <2>4, <3>1
  <2> QED BY <1>2, <1>3, <2>4, <2>7, <2>8
<1> QED BY <1>4, <1>5

\* The character that a printable byte becomes, written at the cursor (flanterm.c:1353).
Echo(t, c) == RawPutchar(t, c, TRUE)

\* An echo is a character that may scroll.
LEMMA EchoIs ==
    ASSUME NEW t, NEW c, NEW u, u = Echo(t, c)
    PROVE  \E scrolls : scrolls = TRUE /\ u = RawPutchar(t, c, scrolls)
BY DEF Echo

\* A character where the editor puts one, in the row or, on the whole screen, behind
\* its end: it comes behind what was there, which has moved up by d cells.
LEMMA PutsBehind ==
    ASSUME NEW t, Ready(t), t.x \in 0 .. Cols, t.y < Rows,
           t.x < Cols \/ (WholeScreen(t) /\ Rows <= Cols),
           NEW c, NEW u, u = Echo(t, c)
    PROVE  \E d \in Nat :
              /\ t.x < Cols => d = 0
              /\ Ahead(u) = Ahead(t) + 1 - d /\ u.x % Cols = (t.x + 1) % Cols
              /\ Ahead(t) - d \in Cells /\ Content(u, Ahead(t) - d)[1] = c
              /\ \A j \in Cells : j < Ahead(t) - d =>
                    j + d \in Cells /\ Content(u, j) = Content(t, j + d)
<1>1. /\ t.x \in Nat /\ t.y \in Nat /\ Cols \in Nat \ {0} /\ Rows * Cols \in Nat
      /\ Cells = 0 .. Rows * Cols - 1
    BY ScreenTyped DEF Ready
<1>0. PICK scrolls : scrolls = TRUE /\ u = RawPutchar(t, c, scrolls)
    BY EchoIs
<1>2. ASSUME NEW s, Ready(s), s.x < Cols, s.y < Rows, u = RawPutchar(s, c, scrolls)
      PROVE  /\ Ahead(u) = Ahead(s) + 1 /\ u.x = s.x + 1
             /\ Ahead(s) \in Cells /\ Content(u, Ahead(s))[1] = c
             /\ \A j \in Cells : j # Ahead(s) => Content(u, j) = Content(s, j)
  <2>1. /\ u.x = s.x + 1 /\ u.y = s.y
        /\ Ahead(s) \in Cells /\ Content(u, Ahead(s)) = << c, s.fg, s.bg >>
        /\ \A j \in Cells : j # Ahead(s) => Content(u, j) = Content(s, j)
    <3>1. Ready(s) /\ s.x < Cols /\ s.y < Rows /\ u = RawPutchar(s, c, scrolls)
        BY <1>2
    <3> QED BY ONLY <3>1, PutsInRow
  <2>2. s.x \in Nat /\ s.y * Cols \in Nat
      BY <1>1, <1>2 DEF Ready
  <2>3. Ahead(u) = Ahead(s) + 1
    <3>1. Ahead(u) = s.y * Cols + (s.x + 1) /\ Ahead(s) = s.y * Cols + s.x
        BY <2>1 DEF Ahead
    <3> QED BY <2>2, <3>1
  <2>4. Content(u, Ahead(s))[1] = c
      BY <2>1
  <2> QED BY <2>1, <2>3, <2>4
<1>3. CASE t.x < Cols
  <2>1. /\ Ahead(u) = Ahead(t) + 1 /\ u.x = t.x + 1
        /\ Ahead(t) \in Cells /\ Content(u, Ahead(t))[1] = c
        /\ \A j \in Cells : j # Ahead(t) => Content(u, j) = Content(t, j)
      BY <1>0, <1>2, <1>3
  <2>2. Ahead(t) - 0 = Ahead(t) /\ Ahead(t) + 1 - 0 = Ahead(t) + 1
      BY <1>1, <2>1
  <2>3. ASSUME NEW j \in Cells, j < Ahead(t) - 0
        PROVE  j + 0 \in Cells /\ Content(u, j) = Content(t, j + 0)
    <3>1. j + 0 = j /\ j # Ahead(t)
        BY <1>1, <2>1, <2>3
    <3> QED BY <2>1, <3>1
  <2>4. 0 \in Nat
      OBVIOUS
  <2> QED BY <1>3, <2>1, <2>2, <2>3, <2>4
<1>4. CASE ~(t.x < Cols)
  <2>1. t.x = Cols /\ WholeScreen(t) /\ Rows <= Cols
      BY <1>1, <1>4
  <2>2. PICK w : w = Wrapped(t)
      OBVIOUS
  <2>3. PICK d \in {0, Cols} :
           /\ w.x = 0 /\ w.y < Rows /\ Ahead(w) = Ahead(t) - d /\ Ready(w)
           /\ \A j \in Cells : j < Ahead(w) => j + d \in Cells /\ Content(w, j) = Content(t, j + d)
      BY <2>1, <2>2, WrapsWhole
  <2>4. u = RawPutchar(w, c, scrolls)
    <3>1. ~(w.x >= Cols) /\ t.x >= Cols
        BY <1>1, <2>1, <2>3
    <3> QED BY <1>0, <2>2, <3>1 DEF RawPutchar
  <2>5. w.x < Cols
      BY <1>1, <2>3
  <2>6. /\ Ahead(u) = Ahead(w) + 1 /\ u.x = w.x + 1
        /\ Ahead(w) \in Cells /\ Content(u, Ahead(w))[1] = c
        /\ \A j \in Cells : j # Ahead(w) => Content(u, j) = Content(w, j)
      BY <1>2, <2>3, <2>4, <2>5
  <2>7. u.x % Cols = (t.x + 1) % Cols
    <3>1. u.x = 1 /\ t.x + 1 = Cols + 1
        BY <2>1, <2>3, <2>6
    <3>2. (Cols + 1) % Cols = 1 % Cols
        BY <1>1
    <3> QED BY <3>1, <3>2
  <2>8. Ahead(t) + 1 - d = Ahead(u)
    <3>1. Ahead(t) \in Int /\ d \in Int
        BY <1>1 DEF Ahead
    <3>2. Ahead(w) = Ahead(t) - d /\ Ahead(u) = Ahead(w) + 1
        BY <2>3, <2>6
    <3> QED BY <3>1, <3>2
  <2>9. ASSUME NEW j \in Cells, j < Ahead(t) - d
        PROVE  j + d \in Cells /\ Content(u, j) = Content(t, j + d)
    <3>1. j # Ahead(w)
        BY <1>1, <2>3, <2>6, <2>9
    <3> QED BY <2>3, <2>6, <2>9, <3>1
  <2>10. d \in Nat
      BY <1>1
  <2> QED BY <1>4, <2>3, <2>6, <2>7, <2>8, <2>9, <2>10
<1> QED BY <1>3, <1>4

\* A terminal that takes bytes as they are typed: no escape, no character set and
\* no mode changes them (flanterm.c:1206-1278), and its cursor is on the screen.
Plainly(t) == /\ ~t.escape /\ ~t.discard /\ t.select = 0 /\ t.unicode = 0
              /\ ~t.charsets[t.charset] /\ ~t.insert /\ t.y < Rows

\* A byte with a glyph of its own.
Printable(c) == c \notin Controls \union Strange \union DOMAIN Lead

\* What an echo leaves alone (fb.c:789-809).
LEMMA EchoKeeps ==
    ASSUME NEW t, TermOK(t), Plainly(t), NEW c, NEW u, u = Echo(t, c),
           t.x < Cols \/ t.bottom = Rows
    PROVE  Wrote(t, u) /\ Plainly(u)
<1>1. Ready(t)
    BY TermReady
<1>2. PICK scrolls : scrolls = TRUE /\ u = RawPutchar(t, c, scrolls)
    BY EchoIs
<1>3. Wrote(t, u)
    BY ONLY <1>1, <1>2, RawPutcharWrites
<1>4. u.y < Rows
  <2>1. CASE t.x < Cols
    <3>1. u.y = t.y
        BY ONLY <1>1, <1>2, <2>1, RawPutcharWrites
    <3> QED BY <3>1 DEF Plainly
  <2>2. CASE t.bottom = Rows
      BY <1>3, <2>2 DEF Wrote, Plainly
  <2> QED BY <2>1, <2>2
<1>5. /\ u.escape = t.escape /\ u.discard = t.discard /\ u.select = t.select
      /\ u.unicode = t.unicode /\ u.charsets = t.charsets /\ u.charset = t.charset
      /\ u.insert = t.insert
    BY <1>3, FieldNames DEF Wrote, But
<1> QED BY <1>3, <1>4, <1>5 DEF Plainly

\* A printable byte is echoed (flanterm.c:1206-1264, 1328-1353).
LEMMA ByteEchoes ==
    ASSUME NEW t, TermOK(t), Plainly(t), NEW c, Printable(c)
    PROVE  Byte(t, c) = Echo([t EXCEPT !.unicode = 0], c)
<1>1. PICK s : s = [t EXCEPT !.unicode = 0]
    OBVIOUS
<1>2. /\ s.unicode = 0 /\ s.escape = t.escape /\ s.select = t.select /\ s.insert = t.insert
      /\ s.charsets = t.charsets /\ s.charset = t.charset
    BY <1>1, FieldNames DEF TermOK
<1>3. c \notin Continuation /\ c # "CAN" /\ c \notin DOMAIN Lead /\ c \notin Controls /\ c \notin Strange
    BY DEF Printable, Strange, Controls
<1>4. Byte(t, c) = PutGlyph(s, c)
    BY <1>1, <1>2, <1>3 DEF Byte, Plainly
<1>5. Glyph(s, c) = c
    BY <1>2, <1>3 DEF Glyph, Plainly
<1>6. PutGlyph(s, c) = Echo(s, c)
    BY <1>2, <1>5 DEF PutGlyph, Plainly, Echo
<1> QED BY <1>1, <1>4, <1>6

\* A flush puts into the grid what was on its way there (fb.c:750-787).
LEMMA FlushBrings ==
    ASSUME NEW t, TermOK(t), ScreenOK(t), NEW u, u = Flush(t)
    PROVE  /\ But(t, u, {"grid", "pend", "queue", "overrun", "shown", "oldX", "oldY"})
           /\ \A j \in Cells : u.grid[j] = Content(t, j)
<1>1. PICK grid, shown, over : /\ grid = Over(t.pend, t.grid)
                               /\ u = [t EXCEPT !.grid = grid, !.pend = <<>>, !.queue = <<>>, !.shown = shown,
                                                !.overrun = over, !.oldX = t.x, !.oldY = t.y]
  <2>1. PICK over : over = (t.overrun \/ Overfull(t))
      OBVIOUS
  <2> QED BY <2>1 DEF Flush
<1>2. /\ But(t, u, {"grid", "pend", "queue", "overrun", "shown", "oldX", "oldY"})
      /\ u.grid = grid
  <2>1. DOMAIN t = Fields
      BY DEF TermOK
  <2>2. u.grid = grid /\ DOMAIN u = Fields
      BY ONLY <1>1, <2>1, FieldNames
  <2>3. \A f \in Fields \ {"grid", "pend", "queue", "overrun", "shown", "oldX", "oldY"} : u[f] = t[f]
      BY ONLY <1>1, <2>1
  <2> QED BY <2>1, <2>2, <2>3 DEF But
<1>3. DOMAIN t.pend \subseteq Cells /\ DOMAIN t.grid = Cells
    BY DEF TermOK, QueueOK, ScreenOK
<1>4. \A j \in Cells : grid[j] = Content(t, j)
    BY <1>1, <1>3 DEF Over, Content
<1> QED BY <1>2, <1>4

\* A byte other than a continuation starts with no character begun (flanterm.c:1246).
LEMMA Afresh ==
    ASSUME NEW t, Ok(t), Plainly(t), NEW s, s = [t EXCEPT !.unicode = 0]
    PROVE  /\ TermOK(s) /\ ScreenOK(s) /\ Plainly(s) /\ Ready(s)
           /\ s.x = t.x /\ s.y = t.y /\ s.top = t.top /\ s.bottom = t.bottom
           /\ \A j : Content(s, j) = t.grid[j]
<1>1. DOMAIN t = Fields
    BY DEF Ok, TermOK
<1>2. /\ s.x = t.x /\ s.y = t.y /\ s.top = t.top /\ s.bottom = t.bottom /\ s.pend = t.pend
      /\ s.grid = t.grid /\ s.escape = t.escape /\ s.discard = t.discard /\ s.select = t.select
      /\ s.unicode = 0 /\ s.charsets = t.charsets /\ s.charset = t.charset /\ s.insert = t.insert
    BY <1>1, FieldNames
<1>3. Plainly(s)
    BY <1>2 DEF Plainly
<1>4. Step(t, s)
  <2>1. 0 \in 0 .. 3 /\ TermOK(t)
      BY DEF Ok
  <2> QED BY <2>1, ParserSets
<1>5. TermOK(s) /\ ScreenOK(s)
    BY <1>4 DEF Step, Kept, ScreenOK, Ok
<1>6. s.pend = <<>>
    BY <1>2 DEF Ok
<1>7. \A j : Content(s, j) = t.grid[j]
    BY <1>2, <1>6 DEF Content
<1> QED BY <1>2, <1>3, <1>5, <1>7, TermReady

\* A flush leaves the terminal's modes and its cursor alone (fb.c:750-787).
LEMMA FlushPlain ==
    ASSUME NEW t, TermOK(t), ScreenOK(t), Plainly(t), NEW u, u = Flush(t)
    PROVE  /\ Plainly(u) /\ u.x = t.x /\ u.y = t.y
           /\ \A j \in Cells : u.grid[j] = Content(t, j)
<1>1. /\ But(t, u, {"grid", "pend", "queue", "overrun", "shown", "oldX", "oldY"})
      /\ \A j \in Cells : u.grid[j] = Content(t, j)
    BY FlushBrings
<1>2. /\ u.x = t.x /\ u.y = t.y /\ u.escape = t.escape /\ u.discard = t.discard
      /\ u.select = t.select /\ u.unicode = t.unicode /\ u.charsets = t.charsets
      /\ u.charset = t.charset /\ u.insert = t.insert
    BY <1>1, FieldNames DEF But
<1> QED BY <1>1, <1>2 DEF Plainly

\* A character typed in the row: its cell alone changes (keyboard.c:200).
LEMMA TypedInRow ==
    ASSUME NEW t, Ok(t), Plainly(t), t.x < Cols, NEW c, Printable(c), NEW u, u = Putchar(t, c)
    PROVE  /\ Plainly(u) /\ u.x = t.x + 1 /\ u.y = t.y
           /\ \A j \in Cells : j # Ahead(t) => u.grid[j] = t.grid[j]
<1>1. PICK s, b : s = [t EXCEPT !.unicode = 0] /\ b = Echo(s, c)
    OBVIOUS
<1>2. /\ TermOK(s) /\ ScreenOK(s) /\ Plainly(s) /\ Ready(s) /\ s.x = t.x /\ s.y = t.y
      /\ \A j : Content(s, j) = t.grid[j]
    BY <1>1, Afresh
<1>3. u = Flush(b)
    BY <1>1, ByteEchoes DEF Putchar, Ok
<1>4. Wrote(s, b) /\ Plainly(b)
    BY <1>1, <1>2, EchoKeeps
<1>5. TermOK(b) /\ ScreenOK(b)
  <2>1. b = Byte(t, c)
      BY <1>1, ByteEchoes DEF Ok
  <2> QED BY <2>1, ByteSteps DEF Ok, Step, Kept, ScreenOK
<1>6. PICK scrolls : scrolls = TRUE /\ b = RawPutchar(s, c, scrolls)
    BY <1>1, EchoIs
<1>7. s.x < Cols /\ s.y < Rows
    BY <1>2 DEF Plainly
<1>8. /\ b.x = s.x + 1 /\ b.y = s.y
      /\ Ahead(s) \in Cells /\ Content(b, Ahead(s)) = << c, s.fg, s.bg >>
      /\ \A j \in Cells : j # Ahead(s) => Content(b, j) = Content(s, j)
  <2>1. Ready(s) /\ s.x < Cols /\ s.y < Rows /\ b = RawPutchar(s, c, scrolls)
      BY <1>2, <1>6, <1>7
  <2> QED BY ONLY <2>1, PutsInRow
<1>9. Plainly(u) /\ u.x = b.x /\ u.y = b.y /\ \A j \in Cells : u.grid[j] = Content(b, j)
    BY <1>3, <1>4, <1>5, FlushPlain
<1>10. Ahead(s) = Ahead(t)
    BY <1>2 DEF Ahead
<1> QED BY <1>2, <1>8, <1>9, <1>10

\* A character typed behind a line: the line moves up by the d cells the screen
\* has scrolled, and the character stands behind it (keyboard.c:200).
LEMMA TypedBehind ==
    ASSUME NEW t, Ok(t), Plainly(t), t.x < Cols \/ WholeScreen(t), Rows <= Cols,
           NEW c, Printable(c), NEW u, u = Putchar(t, c)
    PROVE  \E d \in Nat :
              /\ Ahead(u) = Ahead(t) + 1 - d /\ u.x % Cols = (t.x + 1) % Cols
              /\ Ahead(t) - d \in Cells /\ u.grid[Ahead(t) - d][1] = c
              /\ \A j \in Cells : j < Ahead(t) - d =>
                    j + d \in Cells /\ u.grid[j] = t.grid[j + d]
<1>1. PICK s, b : s = [t EXCEPT !.unicode = 0] /\ b = Echo(s, c)
    OBVIOUS
<1>2. /\ TermOK(s) /\ ScreenOK(s) /\ Plainly(s) /\ Ready(s) /\ s.x = t.x /\ s.y = t.y
      /\ s.top = t.top /\ s.bottom = t.bottom
      /\ \A j : Content(s, j) = t.grid[j]
    BY <1>1, Afresh
<1>3. u = Flush(b) /\ b = Byte(t, c)
    BY <1>1, ByteEchoes DEF Putchar, Ok
<1>4. s.x < Cols \/ s.bottom = Rows
    BY <1>2 DEF WholeScreen
<1>5. Plainly(b)
    BY <1>1, <1>2, <1>4, EchoKeeps
<1>6. TermOK(b) /\ ScreenOK(b)
    BY <1>3, ByteSteps DEF Ok, Step, Kept, ScreenOK
<1>8. /\ s.x \in 0 .. Cols /\ s.y < Rows
      /\ s.x < Cols \/ (WholeScreen(s) /\ Rows <= Cols)
    BY <1>2 DEF Plainly, WholeScreen, TermOK
<1>9. \E d \in Nat :
         /\ s.x < Cols => d = 0
         /\ Ahead(b) = Ahead(s) + 1 - d /\ b.x % Cols = (s.x + 1) % Cols
         /\ Ahead(s) - d \in Cells /\ Content(b, Ahead(s) - d)[1] = c
         /\ \A j \in Cells : j < Ahead(s) - d =>
               j + d \in Cells /\ Content(b, j) = Content(s, j + d)
  <2>1. Ready(s) /\ b = Echo(s, c)
      BY <1>1, <1>2
  <2>2. s.x \in 0 .. Cols /\ s.y < Rows
      BY <1>8
  <2>3. s.x < Cols \/ (WholeScreen(s) /\ Rows <= Cols)
      BY <1>8
  <2> QED BY ONLY <2>1, <2>2, <2>3, PutsBehind
<1>10. u.x = b.x /\ u.y = b.y /\ \A j \in Cells : u.grid[j] = Content(b, j)
    BY <1>3, <1>5, <1>6, FlushPlain
<1>11. Ahead(s) = Ahead(t) /\ Ahead(u) = Ahead(b)
    BY <1>2, <1>10 DEF Ahead
<1> QED BY <1>2, <1>9, <1>10, <1>11

\* A backspace takes the cursor back in its row (flanterm.c:1306-1308).
LEMMA StepsBack ==
    ASSUME NEW t, Ok(t), Plainly(t), t.x \in 1 .. Cols - 1, NEW u, u = Putchar(t, "BS")
    PROVE  /\ Plainly(u) /\ u.x = t.x - 1 /\ u.y = t.y
           /\ \A j \in Cells : u.grid[j] = t.grid[j]
<1>1. PICK s, b : s = [t EXCEPT !.unicode = 0] /\ b = Byte(t, "BS")
    OBVIOUS
<1>2. /\ TermOK(s) /\ ScreenOK(s) /\ Plainly(s) /\ Ready(s) /\ s.x = t.x /\ s.y = t.y
      /\ \A j : Content(s, j) = t.grid[j]
    BY <1>1, Afresh
<1>3. /\ "BS" \notin Continuation /\ "BS" \notin DOMAIN Lead /\ "BS" \in Controls
    BY DEF Continuation, Width, Lead, Controls
<1>4. b = Code(s, "BS")
    BY <1>1, <1>2, <1>3 DEF Byte, Plainly
<1>5. s.x \in 0 .. Cols - 1 /\ s.x - 1 \in 0 .. Cols - 1 /\ s.y \in 0 .. Rows - 1
    BY <1>2, ScreenTyped DEF Plainly, Ready
<1>6. b = SetCursor(s, s.x - 1, s.y)
  <2>1. PosX(s) = s.x /\ PosY(s) = s.y
      BY <1>2, <1>5, PosIs, ScreenTyped
  <2> QED BY <1>4, <2>1 DEF Code
<1>7. /\ But(s, b, {"x", "y"}) /\ b.x = s.x - 1 /\ b.y = s.y
    BY <1>2, <1>5, <1>6, SetCursorIs
<1>8. /\ b.escape = s.escape /\ b.discard = s.discard /\ b.select = s.select
      /\ b.unicode = s.unicode /\ b.charsets = s.charsets /\ b.charset = s.charset
      /\ b.insert = s.insert /\ b.pend = s.pend /\ b.grid = s.grid
    BY <1>7, FieldNames DEF But
<1>9. Plainly(b) /\ \A j : Content(b, j) = Content(s, j)
    BY <1>2, <1>7, <1>8 DEF Plainly, Content
<1>10. TermOK(b) /\ ScreenOK(b)
    BY <1>1, ByteSteps DEF Ok, Step, Kept, ScreenOK
<1>11. u = Flush(b)
    BY <1>1 DEF Putchar
<1>12. Plainly(u) /\ u.x = b.x /\ u.y = b.y /\ \A j \in Cells : u.grid[j] = Content(b, j)
    BY <1>9, <1>10, <1>11, FlushPlain
<1> QED BY <1>2, <1>7, <1>9, <1>12

\* A space has a glyph.
LEMMA SpacePrints == Printable(" ")
BY DEF Printable, Controls, Strange, Continuation, Width, Lead

\* Back, a character, and back again: the cell before the cursor has changed.
LEMMA BackAndForth ==
    ASSUME NEW t, Ok(t), Plainly(t), t.x \in 1 .. Cols - 1, NEW c, Printable(c),
           NEW a, a = Putchar(t, "BS"), NEW b, b = Putchar(a, c), NEW u, u = Putchar(b, "BS")
    PROVE  /\ Plainly(u) /\ u.x = t.x - 1 /\ u.y = t.y
           /\ \A j \in Cells : j # Ahead(t) - 1 => u.grid[j] = t.grid[j]
<1>1. /\ Plainly(a) /\ a.x = t.x - 1 /\ a.y = t.y
      /\ \A j \in Cells : a.grid[j] = t.grid[j]
    BY StepsBack
<1>2. Ok(a) /\ Ok(b)
    BY PutcharOk
<1>3. t.x \in Nat /\ t.y \in Nat /\ Cols \in Nat \ {0} /\ t.x < Cols
    BY ScreenTyped DEF Ok, TermOK
<1>4. a.x < Cols
    BY ONLY <1>1, <1>3
<1>5. /\ Plainly(b) /\ b.x = a.x + 1 /\ b.y = a.y
      /\ \A j \in Cells : j # Ahead(a) => b.grid[j] = a.grid[j]
    BY <1>1, <1>2, <1>4, TypedInRow
<1>6. b.x = t.x /\ b.x \in 1 .. Cols - 1
    BY ONLY <1>1, <1>3, <1>5, t.x \in 1 .. Cols - 1
<1>7. /\ Plainly(u) /\ u.x = b.x - 1 /\ u.y = b.y
      /\ \A j \in Cells : u.grid[j] = b.grid[j]
    BY <1>2, <1>5, <1>6, StepsBack
<1>8. Ahead(a) = Ahead(t) - 1
    BY ONLY <1>1, <1>3 DEF Ahead
<1> QED BY <1>1, <1>5, <1>6, <1>7, <1>8

\* A text of three bytes is written one after the other.
LEMMA WriteThree ==
    ASSUME NEW t, NEW s, Len(s) = 3
    PROVE  Write(t, s) = Putchar(Putchar(Putchar(t, s[1]), s[2]), s[3])
<1>0. Len(s) \in Nat
    OBVIOUS
<1>1. PICK f : /\ Write(t, s) = f[3] /\ f[0] = t
               /\ \A k \in 1 .. 3 : f[k] = Putchar(f[k - 1], s[k])
  <2>1. \E f : /\ Write(t, s) = f[Len(s)] /\ f[0] = t
               /\ \A k \in 1 .. Len(s) : f[k] = Putchar(f[k - 1], s[k])
      BY ONLY <1>0, WriteIs
  <2> QED BY <2>1
<1>2. 1 \in 1 .. 3 /\ 2 \in 1 .. 3 /\ 3 \in 1 .. 3 /\ 1 - 1 = 0 /\ 2 - 1 = 1 /\ 3 - 1 = 2
    OBVIOUS
<1>3. f[1] = Putchar(f[0], s[1]) /\ f[2] = Putchar(f[1], s[2]) /\ f[3] = Putchar(f[2], s[3])
    BY <1>1, <1>2
<1> QED BY <1>1, <1>3

\* What is written for a backspace leaves a blank in the cell before the cursor,
\* and changes no other (keyboard.c:195).
LEMMA RubsOut ==
    ASSUME NEW t, Ok(t), Plainly(t), t.x \in 1 .. Cols - 1, NEW u, u = Write(t, <<"BS", " ", "BS">>)
    PROVE  /\ Plainly(u) /\ u.x = t.x - 1 /\ u.y = t.y
           /\ \A j \in Cells : j # Ahead(t) - 1 => u.grid[j] = t.grid[j]
<1>1. u = Putchar(Putchar(Putchar(t, "BS"), " "), "BS")
  <2>1. PICK s : s = <<"BS", " ", "BS">>
      OBVIOUS
  <2>2. Len(s) = 3 /\ s[1] = "BS" /\ s[2] = " " /\ s[3] = "BS"
      BY <2>1
  <2> QED BY <2>1, <2>2, WriteThree
<1>2. PICK c : c = " "
    OBVIOUS
<1>3. Printable(c)
    BY <1>2, SpacePrints
<1>4. PICK a, b : a = Putchar(t, "BS") /\ b = Putchar(a, c) /\ u = Putchar(b, "BS")
    BY <1>1, <1>2
<1>5. Ok(t) /\ Plainly(t) /\ t.x \in 1 .. Cols - 1
    OBVIOUS
<1> QED BY ONLY <1>3, <1>4, <1>5, BackAndForth

-----------------------------------------------------------------------------
(* Editing a line. *)

\* A step of the editor, as far as the line and the screen are concerned: a character
\* is typed, one is rubbed out, a new line begins, or nothing happens (keyboard.c:160-207).
Types(c) == /\ c \in STRING
            /\ term' = Putchar(term, c) /\ line' = Append(line, c) /\ home' = home
            /\ tracked' => tracked /\ Printable(c) /\ (term.x < Cols \/ WholeScreen(term))
RubsOne == /\ line # <<>> /\ term' = Write(term, <<"BS", " ", "BS">>)
           /\ line' = SubSeq(line, 1, Len(line) - 1) /\ home' = home
           /\ tracked' => tracked /\ term.x \in 1 .. Cols - 1
Begins == tracked' => Quiet(term') /\ line' = <<>> /\ home' = term'.x
Idles == term' = term /\ line' = line /\ home' = home /\ tracked' = tracked

\* A key's character has a glyph, or is no longer only editing (keyboard.c:21-52).
LEMMA CharacterTypes ==
    ASSUME NEW k, ConsoleInv, Character(k)
    PROVE  Idles \/ \E c : Types(c)
<1>1. PICK c : c = Table[k][IF capslock \/ shifted THEN 2 ELSE 1]
    OBVIOUS
<1>2. c \in STRING /\ c \notin DOMAIN Lead
    BY <1>1, ConsoleAssumption DEF ConsoleAssumption, Character
<1>3. CASE inScanf
  <2>1. /\ term' = Putchar(term, c) /\ line' = Append(line, c) /\ home' = home
        /\ tracked' = (tracked /\ c \notin Controls \union Strange
                               /\ (term.x < Cols \/ WholeScreen(term)))
      BY <1>1, <1>3 DEF Character
  <2>2. tracked' => tracked /\ c \notin Controls \union Strange
                            /\ (term.x < Cols \/ WholeScreen(term))
      BY <2>1
  <2>3. Types(c)
      BY <1>2, <2>1, <2>2 DEF Types, Printable
  <2> QED BY <2>3
<1>4. CASE ~inScanf
    BY <1>4 DEF Character, Idles
<1> QED BY <1>3, <1>4

\* What every step is to the editor (keyboard.c:160-207).
LEMMA EditorSteps ==
    ASSUME ConsoleInv, [Next]_vars
    PROVE  Idles \/ (\E c : Types(c)) \/ RubsOne \/ ((Enter \/ F1) /\ Begins)
<1>1. CASE \E s \in Scripts : Type(s)
    BY <1>1 DEF Type, Idles
<1>2. CASE Enter
  <2>1. PICK w \in Answer(line) :
           LET t == Write(term, <<"LF">> \o w)
           IN  IF inScanf' THEN Prompted(Write(t, Prompt))
               ELSE term' = t /\ tracked' = FALSE /\ home' = home
      BY <1>2 DEF Enter
  <2>2. PICK t, u : t = Write(term, <<"LF">> \o w) /\ u = Write(t, Prompt)
      OBVIOUS
  <2>3. (inScanf' /\ Prompted(u)) \/ tracked' = FALSE
      BY <2>1, <2>2
  <2>4. line' = <<>>
      BY <1>2 DEF Enter
  <2>5. CASE Prompted(u)
    <3>1. term' = u /\ home' = u.x /\ tracked' = Quiet(u)
        BY <2>5 DEF Prompted
    <3>2. tracked' => Quiet(term') /\ home' = term'.x
        BY <3>1
    <3> QED BY <1>2, <2>4, <3>2 DEF Begins
  <2>6. CASE tracked' = FALSE
      BY <1>2, <2>6 DEF Begins
  <2> QED BY <2>3, <2>5, <2>6
<1>3. CASE F1
  <2>1. PICK t : t = Write(term, Banner)
      OBVIOUS
  <2>2. term' = t /\ home' = t.x /\ tracked' = (Quiet(t) /\ line = <<>>) /\ line' = line
      BY <1>3, <2>1 DEF F1
  <2>3. tracked' => Quiet(t) /\ line = <<>>
      BY <2>2
  <2> QED BY <1>3, <2>2, <2>3 DEF Begins
<1>4. CASE Backspace
  <2>1. home' = home
      BY <1>4 DEF Backspace
  <2>2. CASE UNCHANGED <<term, line, tracked>>
      BY <2>1, <2>2 DEF Idles
  <2>3. CASE ~UNCHANGED <<term, line, tracked>>
    <3>1. /\ line # <<>> /\ term' = Write(term, <<"BS", " ", "BS">>)
          /\ line' = SubSeq(line, 1, Len(line) - 1)
          /\ tracked' = (tracked /\ term.x \in 1 .. Cols - 1)
        BY <1>4, <2>3 DEF Backspace
    <3>2. tracked' => tracked /\ term.x \in 1 .. Cols - 1
        BY <3>1
    <3> QED BY <2>1, <3>1, <3>2 DEF RubsOne
  <2> QED BY <2>2, <2>3
<1>5. CASE \E k \in {"Caps", "Shift", "Ctrl", "Up", "Enter"} : Modifier(k)
    BY <1>5 DEF Modifier, Idles
<1>6. CASE \E k \in DOMAIN Table : Character(k)
    BY <1>6, CharacterTypes
<1>7. CASE UNCHANGED vars
    BY <1>7 DEF vars, Idles
<1> QED BY <1>1, <1>2, <1>3, <1>4, <1>5, <1>6, <1>7 DEF Next

\* A character leaves the terminal as plain as it was (keyboard.c:200).
LEMMA TypedPlain ==
    ASSUME NEW t, Ok(t), Plainly(t), t.x < Cols \/ WholeScreen(t),
           NEW c, Printable(c), NEW u, u = Putchar(t, c)
    PROVE  Plainly(u)
<1>1. PICK s, b : s = [t EXCEPT !.unicode = 0] /\ b = Echo(s, c)
    OBVIOUS
<1>2. /\ TermOK(s) /\ ScreenOK(s) /\ Plainly(s) /\ s.x = t.x /\ s.bottom = t.bottom
    BY <1>1, Afresh
<1>3. u = Flush(b) /\ b = Byte(t, c)
    BY <1>1, ByteEchoes DEF Putchar, Ok
<1>4. s.x < Cols \/ s.bottom = Rows
    BY <1>2 DEF WholeScreen
<1>5. Plainly(b)
    BY <1>1, <1>2, <1>4, EchoKeeps
<1>6. TermOK(b) /\ ScreenOK(b)
    BY <1>3, ByteSteps DEF Ok, Step, Kept, ScreenOK
<1> QED BY <1>3, <1>5, <1>6, FlushPlain

\* While the history says that a line is edited, no mode is on (keyboard.c:160-207).
EditInv == ConsoleInv /\ (tracked => Plainly(term))

\* It starts so and every step keeps it so.
LEMMA EditKept == Spec => []EditInv
<1>1. Init => EditInv
  <2> SUFFICES ASSUME Init PROVE EditInv
      OBVIOUS
  <2>1. ~tracked
      BY DEF Init
  <2> QED BY <2>1, ConsoleInit DEF EditInv
<1>2. EditInv /\ [Next]_vars => EditInv'
  <2> SUFFICES ASSUME EditInv, [Next]_vars, tracked' PROVE Plainly(term')
      BY ConsoleStep DEF EditInv
  <2>1. ConsoleInv /\ Ok(term) /\ (tracked => Plainly(term))
      BY DEF EditInv, ConsoleInv
  <2>2. CASE Idles
      BY <2>1, <2>2 DEF Idles
  <2>3. CASE \E c : Types(c)
    <3>1. PICK c : Types(c)
        BY <2>3
    <3> QED BY <2>1, <3>1, TypedPlain DEF Types
  <2>4. CASE RubsOne
    <3>1. term' = Write(term, <<"BS", " ", "BS">>) /\ Plainly(term) /\ term.x \in 1 .. Cols - 1
        BY <2>1, <2>4 DEF RubsOne
    <3> QED BY ONLY <2>1, <3>1, RubsOut
  <2>5. CASE Begins
      BY <2>5 DEF Begins, Quiet, Plainly
  <2> QED BY <2>1, <2>2, <2>3, <2>4, <2>5, EditorSteps
<1> QED BY <1>1, <1>2, PTL DEF Spec

\* Editing a line in a row changes no cell but those of the line: not the prompt's,
\* no other row's, none behind the line's end (keyboard.c:188-206).
THEOREM LineEditedInPlace == Spec => EditsInPlace
<1> DEFINE A == tracked /\ tracked' /\ ~(Enter \/ F1) /\ term.x < Cols =>
                  \A i \in Cells : term.grid[i] # term'.grid[i] =>
                     i \in Ahead(term) - Len(line) .. Ahead(term)
<1>1. EditInv /\ [Next]_vars => [A]_vars
  <2> SUFFICES ASSUME EditInv, [Next]_vars, tracked, tracked', ~(Enter \/ F1), term.x < Cols,
                      NEW i \in Cells, term.grid[i] # term'.grid[i]
               PROVE  i \in Ahead(term) - Len(line) .. Ahead(term)
      OBVIOUS
  <2>1. ConsoleInv /\ Ok(term) /\ Plainly(term) /\ line \in Seq(STRING)
      BY DEF EditInv, ConsoleInv
  <2>2. Ahead(term) \in Int /\ Len(line) \in Nat /\ Cells \subseteq Int
      BY <2>1, ScreenTyped DEF Ahead, Ok, TermOK
  <2>3. CASE Idles
      BY <2>3 DEF Idles
  <2>4. CASE \E c : Types(c)
    <3>1. PICK c : Types(c)
        BY <2>4
    <3>2. i = Ahead(term)
        BY <2>1, <3>1, TypedInRow DEF Types
    <3> QED BY ONLY <2>2, <3>2
  <2>5. CASE RubsOne
    <3>1. term' = Write(term, <<"BS", " ", "BS">>) /\ term.x \in 1 .. Cols - 1 /\ line # <<>>
        BY <2>5 DEF RubsOne
    <3>2. \A j \in Cells : j # Ahead(term) - 1 => term'.grid[j] = term.grid[j]
        BY ONLY <2>1, <3>1, RubsOut
    <3>3. i = Ahead(term) - 1
        BY <3>2
    <3>4. Len(line) # 0
        BY ONLY <2>1, <3>1, EmptySeq
    <3> QED BY ONLY <2>2, <3>3, <3>4
  <2> QED BY <2>1, <2>3, <2>4, <2>5, EditorSteps
<1> QED BY <1>1, EditKept, PTL DEF Spec, EditsInPlace

-----------------------------------------------------------------------------
(* The line on the screen. *)

\* What is left of whole rows and a column is the column.
LEMMA RestIs ==
    ASSUME NEW q \in Int, NEW m \in Nat \ {0}, NEW r \in 0 .. m - 1
    PROVE  (q * m + r) % m = r
<1>1. PICK v \in Int : v = q * m + r
    OBVIOUS
<1>2. PICK p \in Int, s \in 0 .. m - 1 : v = m * p + s /\ v % m = s
  <2>1. v \div m \in Int /\ v % m \in 0 .. m - 1 /\ v = m * (v \div m) + (v % m)
      BY <1>1
  <2> QED BY <2>1
<1>3. ~(p >= q + 1)
  <2> SUFFICES ASSUME p >= q + 1 PROVE FALSE
      OBVIOUS
  <2>1. PICK e \in Nat : p = q + 1 + e
      BY <1>2
  <2>2. m * p = m * q + m + m * e /\ m * e >= 0 /\ m * q = q * m
      BY <2>1
  <2> QED BY <1>1, <1>2, <2>2
<1>4. ~(q >= p + 1)
  <2> SUFFICES ASSUME q >= p + 1 PROVE FALSE
      OBVIOUS
  <2>1. PICK e \in Nat : q = p + 1 + e
      BY <1>2
  <2>2. q * m = m * p + m + m * e /\ m * e >= 0
      BY <1>2, <2>1
  <2> QED BY <1>1, <1>2, <2>2
<1>5. p = q
    BY <1>2, <1>3, <1>4
<1>6. m * p = q * m
    BY <1>5
<1> QED BY <1>1, <1>2, <1>6

\* Equal columns have equal neighbours, around the end of the row.
LEMMA RestOfNext ==
    ASSUME NEW m \in Nat \ {0}, NEW a \in Int, NEW b \in Int, a % m = b % m
    PROVE  (a + 1) % m = (b + 1) % m /\ (a - 1) % m = (b - 1) % m
<1>1. ASSUME NEW v \in Int
      PROVE  /\ (v + 1) % m = IF v % m = m - 1 THEN 0 ELSE (v % m) + 1
             /\ (v - 1) % m = IF v % m = 0 THEN m - 1 ELSE (v % m) - 1
  <2>1. PICK q \in Int, r \in 0 .. m - 1 : v = q * m + r /\ v % m = r
    <3>1. v \div m \in Int /\ v % m \in 0 .. m - 1 /\ v = (v \div m) * m + (v % m)
        BY <1>1
    <3> QED BY <3>1
  <2>2. (q + 1) * m = q * m + m /\ (q - 1) * m = q * m - m /\ q * m \in Int
      BY <2>1
  <2>3. (v + 1) % m = IF r = m - 1 THEN 0 ELSE r + 1
    <3>1. CASE r = m - 1
      <4>1. v + 1 = (q + 1) * m + 0 /\ q + 1 \in Int /\ 0 \in 0 .. m - 1
          BY <2>1, <2>2, <3>1
      <4> QED BY <3>1, <4>1, RestIs
    <3>2. CASE r # m - 1
      <4>1. v + 1 = q * m + (r + 1) /\ r + 1 \in 0 .. m - 1
          BY <2>1, <2>2, <3>2
      <4> QED BY <3>2, <4>1, RestIs
    <3> QED BY <3>1, <3>2
  <2>4. (v - 1) % m = IF r = 0 THEN m - 1 ELSE r - 1
    <3>1. CASE r = 0
      <4>1. v - 1 = (q - 1) * m + (m - 1) /\ q - 1 \in Int /\ m - 1 \in 0 .. m - 1
          BY <2>1, <2>2, <3>1
      <4> QED BY <3>1, <4>1, RestIs
    <3>2. CASE r # 0
      <4>1. v - 1 = q * m + (r - 1) /\ r - 1 \in 0 .. m - 1
          BY <2>1, <2>2, <3>2
      <4> QED BY <3>2, <4>1, RestIs
    <3> QED BY <3>1, <3>2
  <2> QED BY <2>1, <2>3, <2>4
<1> QED BY <1>1

\* The characters before the cursor are the line's, as far as they are on the screen.
Echoed(t, l, h) ==
    /\ t.x % Cols = (h + Len(l)) % Cols
    /\ \A i \in DOMAIN l : LET cell == Ahead(t) - Len(l) + i - 1
                           IN  cell >= 0 => t.grid[cell][1] = l[i]

\* The cells before the cursor are on the screen (fb.c:792-809).
LEMMA AheadOnScreen ==
    ASSUME NEW t, Ok(t), t.y < Rows
    PROVE  /\ Ahead(t) \in Nat /\ t.x \in Nat
           /\ \A j \in Int : 0 <= j /\ j < Ahead(t) => j \in Cells
<1>1. /\ t.x \in 0 .. Cols /\ t.y \in Nat /\ Cols \in Nat \ {0} /\ Rows \in Nat
      /\ Cells = 0 .. Rows * Cols - 1 /\ Rows * Cols \in Nat
    BY ScreenTyped DEF Ok, TermOK
<1>2. PICK e \in Nat : Rows = t.y + 1 + e
  <2>1. Rows - t.y - 1 \in Nat /\ Rows = t.y + 1 + (Rows - t.y - 1)
      BY ONLY <1>1, t.y < Rows
  <2> QED BY ONLY <2>1
<1>3. PICK p \in Nat, q \in Nat : p = t.y * Cols /\ q = e * Cols /\ Rows * Cols = p + Cols + q
  <2>1. t.y * Cols \in Nat /\ e * Cols \in Nat
      BY ONLY <1>1, <1>2
  <2>2. Rows * Cols = t.y * Cols + Cols + e * Cols
      BY ONLY <1>1, <1>2
  <2> QED BY ONLY <2>1, <2>2
<1>4. Ahead(t) = p + t.x
    BY <1>3 DEF Ahead
<1>5. PICK r \in Nat, a \in Int : r = Rows * Cols /\ a = Ahead(t)
  <2>1. Ahead(t) \in Int
      BY ONLY <1>1, <1>3, <1>4
  <2> QED BY ONLY <1>1, <2>1
<1>6. r = p + Cols + q /\ a = p + t.x
    BY ONLY <1>3, <1>4, <1>5
<1>7. a \in 0 .. r
    BY ONLY <1>1, <1>5, <1>6
<1>8. ASSUME NEW j \in Int, 0 <= j, j < a PROVE j \in 0 .. r - 1
    BY ONLY <1>5, <1>7, <1>8
<1> QED BY ONLY <1>1, <1>5, <1>7, <1>8

\* A character typed at the end of a line (keyboard.c:200-206).
LEMMA TypedEchoed ==
    ASSUME NEW t, Ok(t), Plainly(t), t.x < Cols \/ WholeScreen(t), Rows <= Cols,
           NEW c \in STRING, Printable(c), NEW u, u = Putchar(t, c),
           NEW h \in Nat, NEW l \in Seq(STRING), Echoed(t, l, h)
    PROVE  Echoed(u, Append(l, c), h)
<1>1. PICK d \in Nat :
         /\ Ahead(u) = Ahead(t) + 1 - d /\ u.x % Cols = (t.x + 1) % Cols
         /\ Ahead(t) - d \in Cells /\ u.grid[Ahead(t) - d][1] = c
         /\ \A j \in Cells : j < Ahead(t) - d =>
               j + d \in Cells /\ u.grid[j] = t.grid[j + d]
    BY TypedBehind
<1>2. PICK n \in Nat, a \in Nat : n = Len(l) /\ a = Ahead(t) /\ t.x \in Nat
    BY AheadOnScreen DEF Plainly
<1>3. PICK k : k = Append(l, c)
    OBVIOUS
<1>4. Len(k) = n + 1 /\ k[n + 1] = c /\ \A i \in 1 .. n : k[i] = l[i]
    BY <1>2, <1>3
<1>5. DOMAIN k = 1 .. n + 1 /\ DOMAIN l = 1 .. n
    BY <1>2, <1>3
<1>6. Cols \in Nat \ {0} /\ Cells \subseteq Nat /\ Cells = 0 .. Rows * Cols - 1 /\ Rows * Cols \in Nat
    BY ScreenTyped
<1>7. u.x % Cols = (h + Len(k)) % Cols
  <2>1. (t.x + 1) % Cols = ((h + n) + 1) % Cols
    <3>1. t.x % Cols = (h + n) % Cols /\ t.x \in Int /\ h + n \in Int
        BY <1>2 DEF Echoed
    <3> QED BY ONLY <1>6, <3>1, RestOfNext
  <2>2. (h + n) + 1 = h + (n + 1)
      BY <1>2
  <2> QED BY <1>1, <1>4, <2>1, <2>2
<1>8. ASSUME NEW i \in DOMAIN k, NEW cell, cell = Ahead(u) - Len(k) + i - 1, cell >= 0
      PROVE  u.grid[cell][1] = k[i]
  <2>1. i \in 1 .. n + 1 /\ cell \in Int /\ cell = a - d - n + i - 1
      BY ONLY <1>1, <1>2, <1>4, <1>5, <1>8
  <2>2. CASE i = n + 1
    <3>1. cell = a - d
        BY <1>2, <2>1, <2>2
    <3> QED BY <1>1, <1>2, <1>4, <2>2, <3>1
  <2>3. CASE i # n + 1
    <3>1. i \in 1 .. n /\ cell < a - d /\ cell + d = a - n + i - 1 /\ cell + d >= 0
      <4>1. d \in Nat /\ cell >= 0 /\ n \in Nat /\ a \in Nat
          BY <1>1, <1>2, <1>8
      <4> QED BY ONLY <2>1, <2>3, <4>1
    <3>2. cell \in Cells
      <4>1. a - d \in Cells /\ cell >= 0
          BY <1>1, <1>2, <1>8
      <4> QED BY ONLY <1>6, <2>1, <3>1, <4>1
    <3>3. u.grid[cell] = t.grid[cell + d]
        BY <1>1, <1>2, <3>1, <3>2
    <3>4. t.grid[a - n + i - 1][1] = l[i]
        BY <1>2, <1>5, <3>1 DEF Echoed
    <3> QED BY <1>4, <3>1, <3>3, <3>4
  <2> QED BY <2>2, <2>3
<1> QED BY <1>3, <1>7, <1>8 DEF Echoed

\* A character rubbed out within a row (keyboard.c:188-197).
LEMMA RubbedEchoed ==
    ASSUME NEW t, Ok(t), Plainly(t), t.x \in 1 .. Cols - 1, NEW u,
           u.x = t.x - 1 /\ u.y = t.y,
           \A j \in Cells : j # Ahead(t) - 1 => u.grid[j] = t.grid[j],
           NEW h \in Nat, NEW l \in Seq(STRING), l # <<>>, Echoed(t, l, h)
    PROVE  Echoed(u, SubSeq(l, 1, Len(l) - 1), h)
<1>1. PICK n \in Nat, a \in Nat : /\ n = Len(l) /\ a = Ahead(t) /\ t.x \in Nat /\ t.y \in Nat
                                  /\ \A j \in Int : 0 <= j /\ j < a => j \in Cells
  <2>1. t.y < Rows /\ t.y \in Nat /\ Len(l) \in Nat
      BY ScreenTyped DEF Plainly, Ok, TermOK
  <2>2. /\ Ahead(t) \in Nat /\ t.x \in Nat
        /\ \A j \in Int : 0 <= j /\ j < Ahead(t) => j \in Cells
      BY <2>1, AheadOnScreen
  <2> QED BY ONLY <2>1, <2>2
<1>2. n # 0
    BY ONLY <1>1, l # <<>>, l \in Seq(STRING), EmptySeq
<1>3. PICK k : k = SubSeq(l, 1, n - 1)
    OBVIOUS
<1>4. Len(k) = n - 1 /\ DOMAIN k = 1 .. n - 1 /\ \A i \in 1 .. n - 1 : k[i] = l[i]
    BY <1>1, <1>2, <1>3
<1>5. DOMAIN l = 1 .. n /\ Cols \in Nat \ {0}
    BY <1>1, ScreenTyped
<1>6. Ahead(u) = a - 1
    BY <1>1, <1>5 DEF Ahead
<1>7. u.x % Cols = (h + Len(k)) % Cols
  <2>1. (t.x - 1) % Cols = ((h + n) - 1) % Cols
    <3>1. t.x % Cols = (h + n) % Cols /\ t.x \in Int /\ h + n \in Int
        BY <1>1 DEF Echoed
    <3> QED BY ONLY <1>5, <3>1, RestOfNext
  <2>2. (h + n) - 1 = h + (n - 1)
      BY <1>1
  <2> QED BY <1>4, <2>1, <2>2
<1>8. ASSUME NEW i \in DOMAIN k, NEW cell, cell = Ahead(u) - Len(k) + i - 1, cell >= 0
      PROVE  u.grid[cell][1] = k[i]
  <2>1. i \in 1 .. n - 1 /\ cell \in Int /\ cell = a - n + i - 1 /\ cell < a - 1
      BY <1>1, <1>4, <1>6, <1>8
  <2>2. cell \in Cells /\ cell # a - 1
      BY <1>1, <1>8, <2>1
  <2>3. u.grid[cell] = t.grid[cell]
      BY <1>1, <2>2
  <2>4. t.grid[cell][1] = l[i]
    <3>1. \A m \in DOMAIN l : Ahead(t) - Len(l) + m - 1 >= 0
                             => t.grid[Ahead(t) - Len(l) + m - 1][1] = l[m]
        BY DEF Echoed
    <3>2. i \in DOMAIN l /\ cell = Ahead(t) - Len(l) + i - 1
        BY ONLY <1>1, <1>5, <2>1
    <3> QED BY ONLY <1>8, <3>1, <3>2
  <2> QED BY <1>4, <2>1, <2>3, <2>4
<1> QED BY <1>1, <1>3, <1>7, <1>8 DEF Echoed

\* The inductive invariant of the line on the screen (keyboard.c:184-206).
LineInv == EditInv /\ (tracked => Echoed(term, line, home))

\* Every step keeps the line's characters before the cursor.
LEMMA LineStep ==
    ASSUME Rows <= Cols, LineInv, EditInv', [Next]_vars
    PROVE  LineInv'
<1> SUFFICES ASSUME tracked' PROVE Echoed(term', line', home')
    BY DEF LineInv
<1>1. /\ ConsoleInv /\ Ok(term) /\ line \in Seq(STRING) /\ home \in Nat
      /\ tracked => Plainly(term) /\ Echoed(term, line, home)
    BY ScreenTyped DEF LineInv, EditInv, ConsoleInv
<1>2. CASE Idles
    BY <1>1, <1>2 DEF Idles
<1>3. CASE \E c : Types(c)
  <2>1. PICK c : Types(c)
      BY <1>3
  <2> QED BY <1>1, <2>1, TypedEchoed DEF Types
<1>4. CASE RubsOne
  <2>1. /\ term' = Write(term, <<"BS", " ", "BS">>) /\ term.x \in 1 .. Cols - 1 /\ Plainly(term)
        /\ line # <<>> /\ Echoed(term, line, home)
      BY <1>1, <1>4 DEF RubsOne
  <2>2. /\ term'.x = term.x - 1 /\ term'.y = term.y
        /\ \A j \in Cells : j # Ahead(term) - 1 => term'.grid[j] = term.grid[j]
      BY ONLY <1>1, <2>1, RubsOut
  <2>3. Echoed(term', SubSeq(line, 1, Len(line) - 1), home)
      BY ONLY <1>1, <2>1, <2>2, RubbedEchoed
  <2> QED BY <1>4, <2>3 DEF RubsOne
<1>5. CASE Begins
  <2>1. line' = <<>> /\ home' = term'.x
      BY <1>5 DEF Begins
  <2>2. term'.x \in Nat
      BY ScreenTyped DEF LineInv, EditInv, ConsoleInv, Ok, TermOK
  <2>3. Len(line') = 0 /\ DOMAIN line' = {} /\ home' + 0 = term'.x
      BY <2>1, <2>2
  <2> QED BY <2>3 DEF Echoed
<1> QED BY <1>1, <1>2, <1>3, <1>4, <1>5, EditorSteps

\* What stands before the cursor is what Enter will run, wherever the line has wrapped
\* and scrolled to, while only a line is edited.  The screen has no more rows than
\* columns: the row is compared with the number of columns (keyboard.c:184-206, fb.c:799).
THEOREM LineOnScreen ==
    ASSUME Rows <= Cols
    PROVE  Spec => []WhatYouSeeRuns
<1>1. Init => LineInv
  <2> SUFFICES ASSUME Init PROVE LineInv
      OBVIOUS
  <2>1. ~tracked
      BY DEF Init
  <2> QED BY <2>1, ConsoleInit DEF LineInv, EditInv
<1>2. LineInv /\ EditInv' /\ [Next]_vars => LineInv'
    BY LineStep
<1>3. LineInv => WhatYouSeeRuns
  <2> SUFFICES ASSUME LineInv, tracked
               PROVE  /\ term.x % Cols = (home + Len(line)) % Cols
                      /\ \A i \in DOMAIN line :
                            LET cell == Ahead(term) - Len(line) + i - 1
                            IN  cell >= 0 => term.shown[cell][1] = line[i]
      BY DEF WhatYouSeeRuns
  <2>1. /\ Ok(term) /\ Plainly(term) /\ Echoed(term, line, home) /\ line \in Seq(STRING)
      BY DEF LineInv, EditInv, ConsoleInv
  <2>2. /\ Ahead(term) \in Nat
        /\ \A j \in Int : 0 <= j /\ j < Ahead(term) => j \in Cells
      BY <2>1, AheadOnScreen DEF Plainly
  <2>3. \A j \in Cells : term.shown[j][1] = term.grid[j][1]
      BY <2>1 DEF Ok, Picture, Inverted, Plot
  <2>4. ASSUME NEW i \in DOMAIN line, NEW cell, cell = Ahead(term) - Len(line) + i - 1, cell >= 0
        PROVE  term.shown[cell][1] = line[i]
    <3>1. i \in 1 .. Len(line) /\ Len(line) \in Nat
        BY <2>1, <2>4
    <3>2. cell \in Cells
        BY <2>2, <2>4, <3>1
    <3>3. term.grid[cell][1] = line[i]
        BY <2>1, <2>4 DEF Echoed
    <3> QED BY <2>3, <3>2, <3>3
  <2> QED BY <2>1, <2>4 DEF Echoed
<1> QED BY <1>1, <1>2, <1>3, EditKept, PTL DEF Spec

-----------------------------------------------------------------------------
(* Rows outside the scroll region. *)

\* What a row holds is the same, or on its way to it.
SameRow(t, u, y) == \A x \in 0 .. Cols - 1 : Content(u, y * Cols + x) = Content(t, y * Cols + x)

\* From t to u the cursor goes down or stays in its row, and but for the region's rows
\* and those it goes through none changes (flanterm.c:1296-1305, fb.c:789-809).
Downward(t, u) ==
    /\ u.top = t.top /\ u.bottom = t.bottom /\ PosY(t) <= PosY(u)
    /\ \A y \in 0 .. Rows - 1 :
          y \in t.top .. t.bottom - 1 \/ y \in PosY(t) .. PosY(u) \/ SameRow(t, u, y)

\* Twice downwards is downwards.
LEMMA DownwardOn ==
    ASSUME NEW t, NEW u, NEW w, Ready(t), Ready(u), Ready(w), Downward(t, u), Downward(u, w)
    PROVE  Downward(t, w)
<1>1. PosY(t) \in Int /\ PosY(u) \in Int /\ PosY(w) \in Int
    BY PosIs, ScreenTyped
<1>2. PosY(t) <= PosY(u) /\ PosY(u) <= PosY(w) /\ u.top = t.top /\ u.bottom = t.bottom
    BY DEF Downward
<1>3. ASSUME NEW y \in 0 .. Rows - 1, y \notin t.top .. t.bottom - 1, y \notin PosY(t) .. PosY(w)
      PROVE  SameRow(t, w, y)
  <2>1. y \in Int
      BY ScreenTyped
  <2>2. y \notin PosY(t) .. PosY(u) /\ y \notin PosY(u) .. PosY(w)
      BY ONLY <1>1, <1>2, <1>3, <2>1
  <2>3. SameRow(t, u, y) /\ SameRow(u, w, y)
      BY <1>2, <1>3, <2>2 DEF Downward
  <2> QED BY <2>3 DEF SameRow
<1> QED BY <1>1, <1>2, <1>3 DEF Downward

\* Where no content changes and the cursor does not go up, it is downwards.
LEMMA StillDownward ==
    ASSUME NEW t, NEW u, \A j : Content(u, j) = Content(t, j),
           u.top = t.top, u.bottom = t.bottom, PosY(t) <= PosY(u)
    PROVE  Downward(t, u)
BY DEF Downward, SameRow

\* The rows on each side of a cell's, and cells of different rows.
LEMMA RowCells ==
    ASSUME NEW y \in 0 .. Rows - 1, NEW x \in 0 .. Cols - 1, NEW k \in Nat
    PROVE  /\ y * Cols + x \in Cells
           /\ k * Cols <= y * Cols + x <=> k <= y
           /\ y * Cols + x < k * Cols <=> y < k
           /\ \A v \in 0 .. Cols - 1 : y * Cols + x = k * Cols + v => y = k
<1>1. Cols \in Nat \ {0} /\ Rows \in Nat \ {0} /\ y \in Nat /\ x \in Nat /\ x < Cols /\ y < Rows
    BY ScreenTyped
<1>2. y * Cols + x \in Cells
    BY <1>1, CellOf
<1>3. PICK p \in Nat, q \in Nat : p = y * Cols /\ q = k * Cols
  <2>1. y * Cols \in Nat /\ k * Cols \in Nat
      BY ONLY <1>1, k \in Nat
  <2> QED BY <2>1
<1>4. CASE k <= y
  <2>1. PICK e \in Nat : y = k + e
    <3>1. y - k \in Nat /\ y = k + (y - k)
        BY <1>1, <1>4
    <3> QED BY <3>1
  <2>2. PICK r \in Nat : r = e * Cols
    <3>1. e * Cols \in Nat
        BY <1>1
    <3> QED BY <3>1
  <2>3. p = q + r /\ (e # 0 => r >= Cols)
    <3>1. (k + e) * Cols = k * Cols + e * Cols
        BY <1>1
    <3>2. e # 0 => e * Cols >= Cols
        BY <1>1
    <3> QED BY <1>3, <2>1, <2>2, <3>1, <3>2
  <2>4. \A v \in 0 .. Cols - 1 : p + x = q + v => e = 0
      BY ONLY <1>1, <1>3, <2>1, <2>2, <2>3
  <2> QED BY <1>1, <1>2, <1>3, <1>4, <2>1, <2>2, <2>3, <2>4
<1>5. CASE ~(k <= y)
  <2>1. PICK e \in Nat : k = y + 1 + e
    <3>1. k - y - 1 \in Nat /\ k = y + 1 + (k - y - 1)
        BY <1>1, <1>5
    <3> QED BY <3>1
  <2>2. PICK r \in Nat : r = e * Cols
    <3>1. e * Cols \in Nat
        BY <1>1
    <3> QED BY <3>1
  <2>3. q = p + Cols + r
    <3>1. (y + 1 + e) * Cols = y * Cols + Cols + e * Cols
        BY <1>1
    <3> QED BY <1>3, <2>1, <2>2, <3>1
  <2> QED BY <1>1, <1>2, <1>3, <1>5, <2>2, <2>3
<1> QED BY <1>4, <1>5

\* Scrolling leaves the rows outside the region alone (fb.c:573-596).
LEMMA ScrollDownward ==
    ASSUME NEW t, Ready(t), Inside(t), NEW u, u = Scroll(t)
    PROVE  Ready(u) /\ u.x = t.x /\ u.y = t.y /\ Downward(t, u)
<1>1. Drawn(t, u) /\ DOMAIN t = Fields /\ QueueOK(t)
    BY ScrollDraws DEF Ready
<1>2. DOMAIN u = Fields /\ QueueOK(u) /\ u.x = t.x /\ u.y = t.y /\ u.top = t.top /\ u.bottom = t.bottom
    BY <1>1, DrawnFields
<1>3. Ready(u) /\ PosY(u) = PosY(t) /\ PosY(t) \in Int
  <2>1. Ready(u) /\ PosY(u) = PosY(t)
      BY <1>2 DEF Ready, Region, PosY
  <2> QED BY <2>1, PosIs, ScreenTyped
<1>4. /\ t.top \in Nat /\ t.bottom \in Nat \ {0} /\ t.top + 1 < t.bottom /\ t.bottom - 1 \in Nat
      /\ Rows \in Nat
    BY ScreenTyped DEF Inside, Region
<1>5. ASSUME NEW y \in 0 .. Rows - 1, y \notin t.top .. t.bottom - 1
      PROVE  SameRow(t, u, y)
  <2>1. ASSUME NEW x \in 0 .. Cols - 1 PROVE Content(u, y * Cols + x) = Content(t, y * Cols + x)
    <3>1. PICK j : j = y * Cols + x
        OBVIOUS
    <3>2. /\ j \in Cells /\ (t.top * Cols <= j <=> t.top <= y)
          /\ (j < (t.bottom - 1) * Cols <=> y < t.bottom - 1)
          /\ ((t.bottom - 1) * Cols <= j <=> t.bottom - 1 <= y)
          /\ (j < t.bottom * Cols <=> y < t.bottom)
        BY <1>4, <3>1, RowCells
    <3>3. y \in Int /\ ~(t.top <= y /\ y < t.bottom)
        BY <1>4, <1>5
    <3>4. /\ ~(t.top * Cols <= j /\ j < (t.bottom - 1) * Cols)
          /\ ~((t.bottom - 1) * Cols <= j /\ j < t.bottom * Cols)
        BY ONLY <1>4, <3>2, <3>3
    <3>5. Content(u, j) = Content(t, j)
        BY <1>1, <3>2, <3>4, ScrollIs
    <3> QED BY <3>1, <3>5
  <2> QED BY <2>1 DEF SameRow
<1> QED BY <1>2, <1>3, <1>5 DEF Downward

\* The row of the cursor, when the cursor is put into another.
LEMMA PosYIs ==
    ASSUME NEW y \in Int
    PROVE  /\ Clamp(y, Rows) \in 0 .. Rows - 1
           /\ y >= Rows => Clamp(y, Rows) = Rows - 1
           /\ y \in 0 .. Rows - 1 => Clamp(y, Rows) = y
           /\ \A z \in Int : z <= y => Clamp(z, Rows) <= Clamp(y, Rows)
BY ScreenTyped DEF Clamp

\* A cursor set further down changes no cell (fb.c:598-615).
LEMMA SetDownward ==
    ASSUME NEW t, Ready(t), NEW x \in Int, NEW y \in Int, PosY(t) <= y, NEW u, u = SetCursor(t, x, y)
    PROVE  Ready(u) /\ Downward(t, u)
<1>1. /\ Wrote(t, u) /\ But(t, u, {"x", "y"})
      /\ u.y \in 0 .. Rows - 1 /\ (y \in 0 .. Rows - 1 => u.y = y)
    BY SetCursorIs
<1>2. Ready(u) /\ u.top = t.top /\ u.bottom = t.bottom
    BY <1>1, WroteOn
<1>3. u.pend = t.pend /\ u.grid = t.grid
    BY <1>1, FieldNames DEF But
<1>4. \A j : Content(u, j) = Content(t, j)
    BY <1>3 DEF Content
<1>5. u.y = Clamp(y, Rows)
    BY FieldNames DEF SetCursor, Ready
<1>6. PosY(u) = u.y /\ PosY(t) \in 0 .. Rows - 1
    BY <1>1, <1>2, PosIs, ScreenTyped
<1>7. PosY(t) <= PosY(u)
  <2>1. PosY(t) \in Int /\ Clamp(PosY(t), Rows) = PosY(t)
      BY <1>6, PosYIs, ScreenTyped
  <2> QED BY <1>5, <1>6, <2>1, PosYIs
<1> QED BY <1>2, <1>4, <1>7, StillDownward

\* Behind the end of a row the cursor goes down, or the region scrolls: on a screen
\* with no more rows than columns (fb.c:792-802).
LEMMA WrappedDownward ==
    ASSUME NEW t, Ready(t), Inside(t), Rows <= Cols, NEW u, u = Wrapped(t)
    PROVE  Ready(u) /\ Downward(t, u)
<1>1. /\ t.y \in Nat /\ t.bottom \in Nat /\ t.bottom <= Rows /\ Rows \in Nat \ {0} /\ Cols \in Nat
      /\ Ready(u)
    BY ScreenTyped, WrappedWrites, WroteOn DEF Ready, Inside, Region
<1>2. CASE t.y + 1 = t.bottom
  <2>1. PICK s : s = Scroll(t)
      OBVIOUS
  <2>2. Ready(s) /\ s.y = t.y /\ Downward(t, s)
      BY <2>1, ScrollDownward
  <2>3. u = [s EXCEPT !.x = 0, !.y = t.y]
    <3>1. PICK y, q, v : /\ y = t.y + 1 /\ q = (IF y = t.bottom THEN Scroll(t) ELSE t)
                         /\ v = IF y = t.bottom THEN y - 1 ELSE y
        OBVIOUS
    <3>2. u = [q EXCEPT !.x = 0, !.y = IF v >= Cols THEN Cols - 1 ELSE v]
        BY <3>1 DEF Wrapped
    <3>3. q = s /\ v = t.y /\ ~(v >= Cols)
        BY <1>1, <1>2, <2>1, <3>1
    <3> QED BY <3>2, <3>3
  <2>4. u.pend = s.pend /\ u.grid = s.grid /\ u.y = s.y /\ u.top = s.top /\ u.bottom = s.bottom
      BY <2>2, <2>3, FieldNames DEF Ready
  <2>5. Downward(s, u)
    <3>1. PosY(u) = PosY(s) /\ PosY(s) \in Int
        BY <2>2, <2>4, PosIs, ScreenTyped DEF PosY
    <3>2. \A j : Content(u, j) = Content(s, j)
        BY <2>4 DEF Content
    <3> QED BY <2>4, <3>1, <3>2, StillDownward
  <2> QED BY <1>1, <2>2, <2>5, DownwardOn
<1>3. CASE t.y + 1 # t.bottom
  <2>1. PICK z \in Int : z = IF t.y + 1 >= Cols THEN Cols - 1 ELSE t.y + 1
      BY <1>1
  <2>2. u = [t EXCEPT !.x = 0, !.y = z]
      BY <1>3, <2>1 DEF Wrapped
  <2>3. u.pend = t.pend /\ u.grid = t.grid /\ u.y = z /\ u.top = t.top /\ u.bottom = t.bottom
      BY <2>2, FieldNames DEF Ready
  <2>4. PosY(t) <= PosY(u)
    <3>1. CASE t.y <= z
        BY <1>1, <2>1, <2>3, <3>1, PosYIs DEF PosY
    <3>2. CASE ~(t.y <= z)
      <4>1. z >= Rows - 1 /\ t.y >= Rows
          BY <1>1, <2>1, <3>2
      <4>2. Clamp(t.y, Rows) = Rows - 1
          BY <1>1, <4>1, PosYIs
      <4>3. Clamp(Rows - 1, Rows) = Rows - 1 /\ Clamp(Rows - 1, Rows) <= Clamp(z, Rows)
          BY <1>1, <4>1, PosYIs
      <4> QED BY <2>3, <4>2, <4>3 DEF PosY
    <3> QED BY <3>1, <3>2
  <2>5. \A j : Content(u, j) = Content(t, j)
      BY <2>3 DEF Content
  <2> QED BY <1>1, <2>3, <2>4, <2>5, StillDownward
<1> QED BY <1>2, <1>3

\* A character changes its cell alone, having wrapped (fb.c:789-809).
LEMMA PutsDownward ==
    ASSUME NEW t, Ready(t), Inside(t), Rows <= Cols, NEW c, NEW scrolls, NEW u,
           u = RawPutchar(t, c, scrolls)
    PROVE  Ready(u) /\ Downward(t, u)
<1>1. PICK s : s = IF t.x >= Cols /\ (t.y < t.bottom - 1 \/ scrolls) THEN Wrapped(t) ELSE t
    OBVIOUS
<1>2. Ready(s) /\ Downward(t, s)
  <2>1. CASE s = Wrapped(t)
      BY <2>1, WrappedDownward
  <2>2. CASE s = t
    <3>1. PosY(t) \in Int
        BY PosIs, ScreenTyped
    <3>2. PosY(t) <= PosY(t)
        BY <3>1
    <3> QED BY <2>2, <3>2, StillDownward
  <2> QED BY <1>1, <2>1, <2>2
<1>3. PICK p : p = Push(s, << c, s.fg, s.bg >>, s.x, s.y)
    OBVIOUS
<1>4. u = [p EXCEPT !.x = p.x + 1]
    BY <1>1, <1>3 DEF RawPutchar
<1>5. /\ Drawn(s, p)
      /\ \A j \in Cells : ~(s.x < Cols /\ s.y < Rows /\ j = s.y * Cols + s.x) => Content(p, j) = Content(s, j)
  <2>1. DOMAIN s = Fields /\ QueueOK(s) /\ s.x \in Nat /\ s.y \in Nat
      BY <1>2 DEF Ready
  <2>2. PICK ch : ch = << c, s.fg, s.bg >>
      OBVIOUS
  <2>3. p = Push(s, ch, s.x, s.y)
      BY <1>3, <2>2
  <2> QED BY ONLY <2>1, <2>3, PushIs
<1>6. DOMAIN p = Fields /\ p.y = s.y /\ p.top = s.top /\ p.bottom = s.bottom
    BY <1>2, <1>5, DrawnFields DEF Ready
<1>7. /\ u.pend = p.pend /\ u.grid = p.grid /\ u.y = s.y /\ u.top = s.top /\ u.bottom = s.bottom
    BY <1>4, <1>6, FieldNames
<1>8. Ready(u)
  <2>1. Wrote(t, u)
      BY RawPutcharWrites
  <2> QED BY <2>1, WroteOn
<1>9. PosY(u) = PosY(s) /\ PosY(s) \in Int /\ (s.y < Rows => PosY(s) = s.y) /\ s.y \in Nat /\ s.x \in Nat
    BY <1>2, <1>7, PosIs, ScreenTyped DEF PosY, Ready
<1>10. Downward(s, u)
  <2>1. ASSUME NEW y \in 0 .. Rows - 1, y \notin PosY(s) .. PosY(u)
        PROVE  SameRow(s, u, y)
    <3>1. ASSUME NEW x \in 0 .. Cols - 1 PROVE Content(u, y * Cols + x) = Content(s, y * Cols + x)
      <4>1. PICK j : j = y * Cols + x
          OBVIOUS
      <4>2. j \in Cells /\ (\A v \in 0 .. Cols - 1 : j = s.y * Cols + v => y = s.y)
          BY <1>9, <4>1, RowCells
      <4>3. ~(s.x < Cols /\ s.y < Rows /\ j = s.y * Cols + s.x)
        <5> SUFFICES ASSUME s.x < Cols, s.y < Rows, j = s.y * Cols + s.x PROVE FALSE
            OBVIOUS
        <5>1. s.x \in 0 .. Cols - 1
            BY <1>9, ScreenTyped
        <5>2. y = s.y
            BY <4>2, <5>1
        <5> QED BY <1>9, <2>1, <5>2
      <4>4. Content(p, j) = Content(s, j)
          BY <1>5, <4>2, <4>3
      <4>5. Content(u, j) = Content(p, j)
          BY <1>7 DEF Content
      <4> QED BY <4>1, <4>4, <4>5
    <3> QED BY <3>1 DEF SameRow
  <2>2. PosY(s) <= PosY(u)
      BY <1>9
  <2> QED BY <1>7, <2>1, <2>2 DEF Downward
<1> QED BY <1>2, <1>8, <1>10, DownwardOn

\* A line feed: down, or the region scrolls (flanterm.c:1296-1305).
LEMMA NextLineDownward ==
    ASSUME NEW t, Ready(t), Inside(t), NEW x \in Int, NEW u, u = NextLine(t, x)
    PROVE  Ready(u) /\ Downward(t, u)
<1>1. PosY(t) \in Int /\ t.bottom \in Int
    BY PosIs, ScreenTyped DEF Inside, Region
<1>2. CASE PosY(t) = t.bottom - 1
  <2>1. PICK s : s = Scroll(t)
      OBVIOUS
  <2>2. Ready(s) /\ s.y = t.y /\ Downward(t, s)
      BY <2>1, ScrollDownward
  <2>3. PosY(s) = PosY(t) /\ PosY(s) <= PosY(t)
      BY <1>1, <2>2 DEF PosY
  <2>4. u = SetCursor(s, x, PosY(t))
      BY <1>2, <2>1 DEF NextLine
  <2>5. Ready(u) /\ Downward(s, u)
      BY <1>1, <2>2, <2>3, <2>4, SetDownward
  <2> QED BY <2>2, <2>5, DownwardOn
<1>3. CASE PosY(t) # t.bottom - 1
  <2>1. u = SetCursor(t, x, PosY(t) + 1)
      BY <1>3 DEF NextLine
  <2>2. PosY(t) + 1 \in Int /\ PosY(t) <= PosY(t) + 1
      BY <1>1
  <2> QED BY <2>1, <2>2, SetDownward
<1> QED BY <1>2, <1>3

\* A character moved within a row changes a cell of that row (fb.c:550-567).
LEMMA MoveInRow ==
    ASSUME NEW t, DOMAIN t = Fields, QueueOK(t), NEW newX, NEW oldX, NEW y \in 0 .. Rows - 1,
           NEW u, u = MoveCharacter(t, newX, oldX, y)
    PROVE  /\ Drawn(t, u)
           /\ \A k \in 0 .. Rows - 1 : k # y => SameRow(t, u, k)
<1>1. y \in Nat
    BY ScreenTyped
<1>2. Drawn(t, u)
    BY <1>1, MoveDraws
<1>3. CASE ~(newX \in 0 .. Cols - 1 /\ oldX \in 0 .. Cols - 1)
    BY <1>2, <1>3 DEF MoveCharacter, SameRow
<1>4. CASE newX \in 0 .. Cols - 1 /\ oldX \in 0 .. Cols - 1
  <2>1. PICK to, from : to = y * Cols + newX /\ from = y * Cols + oldX
      OBVIOUS
  <2>2. to \in Nat
      BY <1>1, <1>4, <2>1, RowCells, ScreenTyped
  <2>3. u = Copy(t, from, to)
      BY <1>4, <2>1 DEF MoveCharacter
  <2>4. \A j \in Cells : j # to => Content(u, j) = Content(t, j)
      BY <2>2, <2>3, CopyIs
  <2>5. ASSUME NEW k \in 0 .. Rows - 1, k # y, NEW x \in 0 .. Cols - 1
        PROVE  Content(u, k * Cols + x) = Content(t, k * Cols + x)
    <3>1. /\ k * Cols + x \in Cells
          /\ \A v \in 0 .. Cols - 1 : k * Cols + x = y * Cols + v => k = y
        BY <1>1, RowCells
    <3>2. k * Cols + x # to
        BY <1>4, <2>1, <2>5, <3>1
    <3> QED BY <2>4, <3>1, <3>2
  <2> QED BY <1>2, <2>5 DEF SameRow
<1> QED BY <1>3, <1>4

\* And so do any number (flanterm.c:1328-1335).
LEMMA MovesInRow ==
    ASSUME NEW t, DOMAIN t = Fields, QueueOK(t), NEW newX, NEW oldX, NEW y \in 0 .. Rows - 1, NEW d,
           NEW n \in Int, NEW u, u = MoveRun(t, newX, oldX, y, d, n)
    PROVE  /\ Drawn(t, u)
           /\ \A k \in 0 .. Rows - 1 : k # y => SameRow(t, u, k)
<1>1. CASE n <= 0
    BY <1>1, NoneDrawn DEF MoveRun, SameRow
<1>2. CASE n > 0
  <2>1. PICK f : /\ MoveRun(t, newX, oldX, y, d, n) = f[n]
                 /\ f[0] = t
                 /\ \A k \in 1 .. n : f[k] = MoveCharacter(f[k - 1], newX + d * (k - 1), oldX + d * (k - 1), y)
      BY <1>2, MoveRunIs
  <2> DEFINE P(k) == Drawn(t, f[k]) /\ \A v \in 0 .. Rows - 1 : v # y => SameRow(t, f[k], v)
             S == {k \in Nat : P(k)}
  <2>2. 0 \in S
      BY <2>1, NoneDrawn DEF SameRow
  <2>3. ASSUME NEW k \in 1 .. n, k - 1 \in S PROVE k \in S
    <3>1. PICK a : a = f[k - 1]
        OBVIOUS
    <3>2. Drawn(t, a) /\ \A v \in 0 .. Rows - 1 : v # y => SameRow(t, a, v)
        BY <2>3, <3>1
    <3>3. DOMAIN a = Fields /\ QueueOK(a)
        BY <3>2, DrawnFields
    <3>4. PICK p, q : f[k] = MoveCharacter(a, p, q, y)
        BY <2>1, <3>1
    <3>5. Drawn(a, f[k]) /\ \A v \in 0 .. Rows - 1 : v # y => SameRow(a, f[k], v)
        BY <3>3, <3>4, MoveInRow
    <3>6. Drawn(t, f[k])
        BY <3>2, <3>5, DrawnOn
    <3>7. \A v \in 0 .. Rows - 1 : v # y => SameRow(t, f[k], v)
        BY <3>2, <3>5 DEF SameRow
    <3> QED BY <3>6, <3>7
  <2> HIDE DEF S
  <2>4. n \in S
      BY <1>2, <2>2, <2>3, BoundedInduction
  <2>5. P(n)
      BY <2>4 DEF S
  <2> QED BY <2>1, <2>5
<1> QED BY <1>1, <1>2

\* A character, having made room for itself in its row (flanterm.c:1328-1353).
LEMMA GlyphDownward ==
    ASSUME NEW t, Ready(t), Inside(t), Rows <= Cols, NEW c, NEW u, u = PutGlyph(t, c)
    PROVE  Ready(u) /\ Downward(t, u)
<1>1. PosY(t) \in 0 .. Rows - 1 /\ PosX(t) \in Int /\ Cols \in Int /\ PosY(t) \in Int
    BY PosIs, ScreenTyped
<1>2. PICK s : s = IF t.insert THEN MoveRun(t, Cols, Cols - 1, PosY(t), -1, Cols - PosX(t)) ELSE t
    OBVIOUS
<1>3. u = RawPutchar(s, Glyph(t, c), TRUE)
    BY <1>2 DEF PutGlyph
<1>4. PICK scrolls : u = RawPutchar(s, Glyph(t, c), scrolls)
    BY <1>3
<1>5. Drawn(t, s) /\ \A k \in 0 .. Rows - 1 : k # PosY(t) => SameRow(t, s, k)
  <2>1. CASE t.insert
    <3>1. PICK n \in Int : n = Cols - PosX(t)
        BY <1>1
    <3>2. s = MoveRun(t, Cols, Cols - 1, PosY(t), -1, n)
        BY <1>2, <2>1, <3>1
    <3> QED BY <1>1, <3>2, MovesInRow DEF Ready
  <2>2. CASE ~t.insert
      BY <1>2, <2>2, NoneDrawn DEF SameRow, Ready
  <2> QED BY <2>1, <2>2
<1>6. /\ Ready(s) /\ s.y = t.y /\ s.top = t.top /\ s.bottom = t.bottom
  <2>1. Wrote(t, s) /\ s.y = t.y
      BY <1>5, DrawnWrote
  <2> QED BY <2>1, WroteOn
<1>7. PosY(s) = PosY(t)
    BY <1>6 DEF PosY
<1>8. Downward(t, s)
  <2>1. ASSUME NEW y \in 0 .. Rows - 1, y \notin PosY(t) .. PosY(s)
        PROVE  SameRow(t, s, y)
    <3>1. y # PosY(t)
        BY <1>1, <1>7, <2>1
    <3> QED BY <1>5, <3>1
  <2>2. PosY(t) <= PosY(s)
      BY <1>1, <1>7
  <2> QED BY <1>6, <2>1, <2>2 DEF Downward
<1>9. Inside(s)
    BY <1>6 DEF Inside, Ready
<1>10. Ready(u) /\ Downward(s, u)
  <2>1. PICK g : u = RawPutchar(s, g, scrolls)
      BY <1>4
  <2> QED BY ONLY <1>6, <1>9, <2>1, PutsDownward, Rows <= Cols
<1> QED BY <1>6, <1>8, <1>10, DownwardOn

\* u follows t downwards, and no escape begins or ends.
Passes(t, u) == TermOK(u) /\ Downward(t, u) /\ u.escape = t.escape

\* Twice is once.
LEMMA PassOn ==
    ASSUME NEW t, NEW u, NEW w, TermOK(t), Passes(t, u), Passes(u, w)
    PROVE  Passes(t, w)
BY TermReady, DownwardOn DEF Passes

\* What changes neither the cells nor the cursor nor the margins.
LEMMA SamePasses ==
    ASSUME NEW t, TermOK(t), NEW u, u.pend = t.pend, u.grid = t.grid, u.y = t.y,
           u.top = t.top, u.bottom = t.bottom
    PROVE  Downward(t, u)
<1>1. PosY(u) = PosY(t) /\ PosY(t) \in Int
    BY TermReady, PosIs, ScreenTyped DEF PosY
<1>2. \A j : Content(u, j) = Content(t, j)
    BY DEF Content
<1> QED BY <1>1, <1>2, StillDownward

\* The terminal's margins are a region of the screen (flanterm.c:751-773).
LEMMA TermInside == ASSUME NEW t, TermOK(t) PROVE Ready(t) /\ Inside(t)
<1>1. Ready(t)
    BY TermReady
<1> QED BY <1>1 DEF Ready, Inside, TermOK, MarginsOK

\* A character of a text (fb.c:789-809).
LEMMA EchoPasses ==
    ASSUME NEW t, TermOK(t), Rows <= Cols, NEW c, NEW u, u = Echo(t, c)
    PROVE  Passes(t, u)
<1>1. PICK scrolls : scrolls = TRUE /\ u = RawPutchar(t, c, scrolls)
    BY EchoIs
<1>2. Ready(t) /\ Inside(t)
    BY TermInside
<1>3. Wrote(t, u) /\ (scrolls = TRUE => u.x \in 0 .. Cols)
    BY ONLY <1>1, <1>2, RawPutcharWrites
<1>4. Downward(t, u)
    BY ONLY <1>1, <1>2, PutsDownward, Rows <= Cols
<1>5. TermOK(u)
    BY <1>1, <1>3, MovedSteps DEF Moved, Step
<1>6. u.escape = t.escape
    BY <1>3, FieldNames DEF Wrote, But
<1> QED BY <1>4, <1>5, <1>6 DEF Passes

\* A continuation byte (flanterm.c:1218-1244).
LEMMA ContinuePasses ==
    ASSUME NEW t, TermOK(t), t.unicode # 0, Rows <= Cols, NEW c, NEW u, u = Continue(t, c)
    PROVE  Passes(t, u)
<1>1. PICK n, s : n = t.unicode - 1 /\ s = [t EXCEPT !.unicode = n]
    OBVIOUS
<1>2. n \in 0 .. 3
    BY <1>1 DEF TermOK, ParserOK
<1>3. /\ TermOK(s) /\ s.pend = t.pend /\ s.grid = t.grid /\ s.y = t.y
      /\ s.top = t.top /\ s.bottom = t.bottom /\ s.escape = t.escape
  <2>1. TermOK(s)
      BY <1>1, <1>2, ParserSets DEF Step
  <2> QED BY <1>1, <2>1, FieldNames DEF TermOK
<1>4. Passes(t, s)
    BY <1>3, SamePasses DEF Passes
<1>5. PICK a, b, d : a = Echo(s, "437") /\ b = Echo(s, "box") /\ d = Echo(b, " ")
    OBVIOUS
<1>6. u \in {s, a, b, d}
    BY <1>1, <1>5 DEF Continue, Echo
<1>7. Passes(s, a) /\ Passes(s, b)
    BY <1>3, <1>5, EchoPasses
<1>8. Passes(b, d)
    BY <1>5, <1>7, EchoPasses DEF Passes
<1>9. Passes(t, a) /\ Passes(t, b)
    BY <1>4, <1>7, PassOn
<1>10. Passes(t, d)
    BY <1>8, <1>9, PassOn
<1> QED BY <1>4, <1>6, <1>9, <1>10

\* The choice of a character set (flanterm.c:1266-1276).
LEMMA CharsetPasses ==
    ASSUME NEW t, TermOK(t), NEW c, NEW u, u = Charset(t, c)
    PROVE  Passes(t, u)
<1>1. /\ u.pend = t.pend /\ u.grid = t.grid /\ u.y = t.y
      /\ u.top = t.top /\ u.bottom = t.bottom /\ u.escape = t.escape
    BY FieldNames DEF Charset, TermOK
<1> QED BY <1>1, CharsetSteps, SamePasses DEF Passes, Step

\* A cursor that stays in its row or goes down from there (flanterm.c:1278-1313).
LEMMA SetPasses ==
    ASSUME NEW t, TermOK(t), NEW x \in Int, NEW y \in Int, PosY(t) <= y, NEW u, u = SetCursor(t, x, y)
    PROVE  Passes(t, u)
<1>1. Ready(t)
    BY TermReady
<1>2. Wrote(t, u) /\ Downward(t, u)
    BY <1>1, SetCursorIs, SetDownward
<1>3. u.escape = t.escape
    BY <1>2, FieldNames DEF Wrote, But
<1> QED BY <1>2, <1>3, MoveSteps DEF Passes, Step

\* A line feed (flanterm.c:1296-1305).
LEMMA LinePasses ==
    ASSUME NEW t, TermOK(t), NEW x \in Int, NEW u, u = NextLine(t, x)
    PROVE  Passes(t, u)
<1>1. Ready(t) /\ Inside(t)
    BY TermInside
<1>2. Wrote(t, u) /\ Downward(t, u)
    BY <1>1, NextLineMoves, NextLineDownward DEF Moved
<1>3. TermOK(u)
    BY <1>1, NextLineMoves, MovedSteps DEF Step
<1>4. u.escape = t.escape
    BY <1>2, FieldNames DEF Wrote, But
<1> QED BY <1>2, <1>3, <1>4 DEF Passes

\* A control code but for the escape (flanterm.c:1278-1326).
LEMMA CodePasses ==
    ASSUME NEW t, TermOK(t), NEW c, c # "ESC", NEW u, u = Code(t, c)
    PROVE  Passes(t, u)
<1>1. PICK x, y, k : /\ x = PosX(t) /\ y = PosY(t)
                     /\ k = IF x \div TabSize + 1 >= Cols THEN Cols - 1 ELSE (x \div TabSize + 1) * TabSize
    OBVIOUS
<1>2. x \in Nat /\ y \in Int /\ x - 1 \in Int /\ 0 \in Int /\ PosY(t) <= y
    BY <1>1, TermReady, PosIs, ScreenTyped
<1>3. k \in Int
  <2>1. TabSize \in Nat \ {0} /\ Cols \in Nat
      BY TerminalAssumption, ScreenTyped DEF TerminalAssumption
  <2>2. x \div TabSize \in Nat
      BY <1>2, <2>1
  <2> QED BY <1>1, <2>1, <2>2
<1>4. CASE c = "TAB"
  <2>1. u = SetCursor(t, k, y)
      BY <1>1, <1>4 DEF Code
  <2> QED BY <1>2, <1>3, <2>1, SetPasses
<1>5. CASE c = "LF"
  <2>1. u = NextLine(t, 0)
      BY <1>5 DEF Code
  <2> QED BY <1>2, <2>1, LinePasses
<1>6. CASE c = "BS"
  <2>1. u = SetCursor(t, x - 1, y)
      BY <1>1, <1>6 DEF Code
  <2> QED BY <1>2, <2>1, SetPasses
<1>7. CASE c = "CR"
  <2>1. u = SetCursor(t, 0, y)
      BY <1>1, <1>7 DEF Code
  <2> QED BY <1>2, <2>1, SetPasses
<1>8. CASE c \notin {"TAB", "LF", "BS", "CR"}
  <2>1. /\ u.pend = t.pend /\ u.grid = t.grid /\ u.y = t.y
        /\ u.top = t.top /\ u.bottom = t.bottom /\ u.escape = t.escape
      BY <1>8, FieldNames DEF Code, TermOK
  <2> QED BY <2>1, CodeSteps, SamePasses DEF Passes, Step
<1> QED BY <1>4, <1>5, <1>6, <1>7, <1>8

\* A character set's glyph at the cursor (flanterm.c:1328-1353).
LEMMA GlyphPasses ==
    ASSUME NEW t, TermOK(t), Rows <= Cols, NEW c, NEW u, u = PutGlyph(t, c)
    PROVE  Passes(t, u)
<1>1. Ready(t) /\ Inside(t)
    BY TermInside
<1>2. Wrote(t, u)
    BY <1>1, PutGlyphMoves DEF Moved
<1>3. Downward(t, u)
    BY <1>1, GlyphDownward
<1>4. TermOK(u)
    BY <1>1, PutGlyphMoves, MovedSteps DEF Step
<1>5. u.escape = t.escape
    BY <1>2, FieldNames DEF Wrote, But
<1> QED BY <1>3, <1>4, <1>5 DEF Passes

\* A byte outside an escape goes down the screen at most, and only ESC begins one
\* (flanterm.c:1206-1353).
LEMMA ByteDownward ==
    ASSUME NEW t0, TermOK(t0), ~t0.escape, Rows <= Cols, NEW c, NEW u, u = Byte(t0, c)
    PROVE  TermOK(u) /\ Downward(t0, u) /\ (c # "ESC" => ~u.escape)
<1>0. TermOK(u)
    BY ByteSteps DEF Step
<1>1. PICK t : t = IF c \in Continuation THEN t0 ELSE [t0 EXCEPT !.unicode = 0]
    OBVIOUS
<1>2. /\ TermOK(t) /\ t.pend = t0.pend /\ t.grid = t0.grid /\ t.y = t0.y
      /\ t.top = t0.top /\ t.bottom = t0.bottom /\ t.escape = t0.escape
  <2>1. TermOK([t0 EXCEPT !.unicode = 0])
    <3>1. 0 \in 0 .. 3
        OBVIOUS
    <3> QED BY <3>1, ParserSets DEF Step
  <2> QED BY <1>1, <2>1, FieldNames DEF TermOK
<1>3. Passes(t0, t)
    BY <1>2, SamePasses DEF Passes
<1>4. CASE t0.discard \/ c = "CAN"
  <2>1. u = Abort(t0)
      BY <1>4 DEF Byte
  <2>2. /\ u.pend = t0.pend /\ u.grid = t0.grid /\ u.y = t0.y
        /\ u.top = t0.top /\ u.bottom = t0.bottom /\ ~u.escape
      BY <2>1, FieldNames DEF Abort, TermOK
  <2> QED BY <1>0, <2>2, SamePasses
<1>5. CASE ~(t0.discard \/ c = "CAN")
  <2>1. CASE t.unicode # 0
    <3>1. u = Continue(t, c)
        BY <1>1, <1>5, <2>1 DEF Byte
    <3>2. Passes(t, u)
        BY <1>2, <2>1, <3>1, ContinuePasses
    <3> QED BY <1>3, <3>2, PassOn DEF Passes
  <2>2. CASE t.unicode = 0 /\ c \in DOMAIN Lead
    <3>1. u = [t EXCEPT !.unicode = Lead[c]]
        BY <1>1, <1>5, <2>2 DEF Byte
    <3>2. /\ u.pend = t0.pend /\ u.grid = t0.grid /\ u.y = t0.y
          /\ u.top = t0.top /\ u.bottom = t0.bottom /\ ~u.escape
        BY <1>2, <3>1, FieldNames DEF TermOK
    <3> QED BY <1>0, <3>2, SamePasses
  <2>3. CASE t.unicode = 0 /\ c \notin DOMAIN Lead
    <3>1. ~t.escape
        BY <1>2
    <3>2. CASE c = "ESC" /\ u = Code(t, c)
      <4>1. /\ u.pend = t0.pend /\ u.grid = t0.grid /\ u.y = t0.y
            /\ u.top = t0.top /\ u.bottom = t0.bottom
          BY <1>2, <3>2, FieldNames DEF Code, TermOK
      <4> QED BY <1>0, <3>2, <4>1, SamePasses
    <3>3. CASE ~(c = "ESC" /\ u = Code(t, c))
      <4>1. \/ u = Charset(t, c)
            \/ u = Code(t, c) /\ c # "ESC"
            \/ u = PutGlyph(t, c)
          BY <1>1, <1>5, <2>3, <3>1, <3>3 DEF Byte
      <4>2. Passes(t, u)
          BY <1>2, <4>1, CharsetPasses, CodePasses, GlyphPasses
      <4> QED BY <1>3, <4>2, PassOn DEF Passes
    <3> QED BY <3>2, <3>3
  <2> QED BY <2>1, <2>2, <2>3
<1> QED BY <1>4, <1>5

\* A byte with the flush behind it (flanterm.c, printk.c; fb.c:724-787).
LEMMA PutcharDownward ==
    ASSUME NEW t, Ok(t), ~t.escape, Rows <= Cols, NEW c, NEW u, u = Putchar(t, c)
    PROVE  Downward(t, u) /\ (c # "ESC" => ~u.escape)
<1>1. PICK b : b = Byte(t, c)
    OBVIOUS
<1>2. TermOK(t) /\ TermOK(b) /\ ScreenOK(b)
    BY <1>1, ByteSteps DEF Ok, Step, Kept, ScreenOK
<1>3. Downward(t, b) /\ (c # "ESC" => ~b.escape)
    BY <1>1, <1>2, ByteDownward
<1>4. u = Flush(b)
    BY <1>1 DEF Putchar
<1>5. TermOK(u) /\ u.pend = <<>>
    BY <1>2, <1>4, FlushIs
<1>6. /\ But(b, u, {"grid", "pend", "queue", "overrun", "shown", "oldX", "oldY"})
      /\ \A j \in Cells : u.grid[j] = Content(b, j)
    BY <1>2, <1>4, FlushBrings
<1>7. u.y = b.y /\ u.top = b.top /\ u.bottom = b.bottom /\ u.escape = b.escape
    BY <1>6, FieldNames DEF But
<1>8. \A j \in Cells : Content(u, j) = Content(b, j)
    BY <1>5, <1>6 DEF Content
<1>9. PosY(u) = PosY(b) /\ PosY(b) \in Int
    BY <1>2, <1>7, TermReady, PosIs, ScreenTyped DEF PosY
<1>10. \A y \in 0 .. Rows - 1 : SameRow(b, u, y)
  <2>1. \A y \in 0 .. Rows - 1 : \A x \in 0 .. Cols - 1 : y * Cols + x \in Cells
    <3>1. 0 \in Nat
        OBVIOUS
    <3> QED BY <3>1, RowCells
  <2> QED BY <1>8, <2>1 DEF SameRow
<1>11. Downward(b, u)
    BY <1>7, <1>9, <1>10 DEF Downward
<1> QED BY <1>2, <1>3, <1>5, <1>7, <1>11, TermReady, DownwardOn

\* A text without an escape.
NoEscape(s) == Len(s) \in Nat /\ \A i \in 1 .. Len(s) : s[i] # "ESC"

\* It is written downwards (flanterm.c:1206-1353).
LEMMA WriteDownward ==
    ASSUME NEW t, Ok(t), ~t.escape, Rows <= Cols,
           NEW s, NoEscape(s), NEW u, u = Write(t, s)
    PROVE  Ok(u) /\ ~u.escape /\ Downward(t, u)
<1>1. PICK n \in Nat : n = Len(s)
    BY DEF NoEscape
<1>2. PICK f : /\ u = f[n] /\ f[0] = t
               /\ \A k \in 1 .. n : f[k] = Putchar(f[k - 1], s[k])
    BY <1>1, WriteIs
<1> DEFINE P(k) == Ok(f[k]) /\ ~f[k].escape /\ Downward(t, f[k])
           S == {k \in Nat : P(k)}
<1>3. 0 \in S
  <2>1. TermOK(t)
      BY DEF Ok
  <2>2. Downward(t, t)
      BY <2>1, SamePasses
  <2> QED BY <1>2, <2>2
<1>4. ASSUME NEW k \in 1 .. n, k - 1 \in S PROVE k \in S
  <2>1. PICK a, b, c : a = f[k - 1] /\ b = f[k] /\ c = s[k]
      OBVIOUS
  <2>2. Ok(a) /\ ~a.escape /\ Downward(t, a)
      BY <1>4, <2>1
  <2>3. b = Putchar(a, c) /\ c # "ESC"
      BY <1>1, <1>2, <2>1 DEF NoEscape
  <2>4. Ok(b) /\ Downward(a, b) /\ ~b.escape
      BY <2>2, <2>3, PutcharOk, PutcharDownward
  <2>5. Ready(t) /\ Ready(a) /\ Ready(b)
      BY <2>2, <2>4, TermReady DEF Ok
  <2>6. Downward(t, b)
      BY <2>2, <2>4, <2>5, DownwardOn
  <2> QED BY <2>1, <2>4, <2>6
<1> HIDE DEF S
<1>5. n \in S
  <2>1. \A k \in 0 .. n : k \in S
      BY ONLY <1>1, <1>3, <1>4, BoundedInduction
  <2> QED BY <1>1, <2>1
<1> QED BY <1>2, <1>5 DEF S

\* A text over bytes that are not ESC.
LEMMA TextPlain ==
    ASSUME NEW T, "ESC" \notin T, NEW s \in Seq(T)
    PROVE  NoEscape(s)
BY DEF NoEscape

\* The prompt holds no escape (keyboard.c:176).
LEMMA PromptPlain ==
    ASSUME NEW p, p = Prompt
    PROVE  NoEscape(p) /\ \E T : "ESC" \notin T /\ p \in Seq(T)
<1>1. PICK x, y : x = "#" /\ y = " "
    OBVIOUS
<1>2. x # "ESC" /\ y # "ESC"
    BY <1>1
<1>3. p = <<x, y>>
    BY <1>1 DEF Prompt
<1>4. PICK T : T = {x, y}
    OBVIOUS
<1>5. "ESC" \notin T /\ x \in T /\ y \in T
    BY ONLY <1>2, <1>4
<1>6. p \in Seq(T)
    BY ONLY <1>3, <1>5
<1> QED BY ONLY <1>5, <1>6, TextPlain

\* Nor does the banner (keyboard.c:181-182).
LEMMA BannerPlain ==
    ASSUME NEW s, s = Banner
    PROVE  NoEscape(s)
<1>1. PICK p : p = Prompt
    OBVIOUS
<1>2. PICK T : "ESC" \notin T /\ p \in Seq(T)
    BY <1>1, PromptPlain
<1>3. PICK v, l : v = "S" /\ l = "LF"
    OBVIOUS
<1>4. v # "ESC" /\ l # "ESC"
    BY <1>3
<1>5. PICK U : U = T \union {v, l}
    OBVIOUS
<1>6. "ESC" \notin U /\ v \in U /\ l \in U /\ p \in Seq(U)
    BY ONLY <1>2, <1>4, <1>5
<1>7. PICK a : a = <<v, l, l>>
    OBVIOUS
<1>8. a \in Seq(U)
    BY ONLY <1>6, <1>7
<1>9. s = a \o p
    BY <1>1, <1>3, <1>7 DEF Banner
<1>10. s \in Seq(U)
    BY ONLY <1>6, <1>8, <1>9
<1> QED BY ONLY <1>6, <1>10, TextPlain

\* Nor what rubs out a character (keyboard.c:195).
LEMMA RubPlain ==
    ASSUME NEW s, s = <<"BS", " ", "BS">>
    PROVE  NoEscape(s)
<1>1. PICK x, y : x = "BS" /\ y = " "
    OBVIOUS
<1>2. x # "ESC" /\ y # "ESC"
    BY <1>1
<1>3. s = <<x, y, x>>
    BY <1>1
<1>4. PICK T : T = {x, y}
    OBVIOUS
<1>5. "ESC" \notin T /\ x \in T /\ y \in T
    BY ONLY <1>2, <1>4
<1>6. s \in Seq(T)
    BY ONLY <1>3, <1>5
<1> QED BY ONLY <1>5, <1>6, TextPlain

\* What is printed for any other command than "fat" (shell.c:45-129).
LEMMA AnswerPlain ==
    ASSUME NEW l, l # <<"f">>, NEW w \in Answer(l), NEW s, s = <<"LF">> \o w
    PROVE  NoEscape(s)
<1>1. PICK x, y : x = "LF" /\ y = "E"
    OBVIOUS
<1>2. x # "ESC" /\ y # "ESC"
    BY <1>1
<1>3. w = <<>> \/ w = <<y, x>>
  <2>1. CASE l = <<"q">>
      BY <2>1 DEF Answer
  <2>2. CASE l # <<"q">>
      BY <1>1, <2>2 DEF Answer
  <2> QED BY <2>1, <2>2
<1>4. PICK T : T = {x, y}
    OBVIOUS
<1>5. "ESC" \notin T /\ x \in T /\ y \in T
    BY ONLY <1>2, <1>4
<1>6. w \in Seq(T)
  <2>1. <<>> \in Seq(T) /\ <<y, x>> \in Seq(T)
      BY ONLY <1>5
  <2> QED BY ONLY <1>3, <2>1
<1>7. PICK a : a = <<x>>
    OBVIOUS
<1>8. a \in Seq(T)
    BY ONLY <1>5, <1>7
<1>9. s = a \o w
    BY <1>1, <1>7
<1>10. s \in Seq(T)
    BY ONLY <1>6, <1>8, <1>9
<1> QED BY ONLY <1>5, <1>10, TextPlain

\* A row of the grid that holds what it held is the same row.
LEMMA RowIs ==
    ASSUME NEW t, NEW u, Ok(t), Ok(u), Downward(t, u), NEW y \in 0 .. Rows - 1,
           y \notin t.top .. t.bottom - 1, y \notin PosY(t) .. PosY(u)
    PROVE  Row(t, y) = Row(u, y)
<1>1. SameRow(t, u, y)
    BY DEF Downward
<1>2. t.pend = <<>> /\ u.pend = <<>>
    BY DEF Ok
<1>3. \A j : Content(t, j) = t.grid[j] /\ Content(u, j) = u.grid[j]
    BY <1>2 DEF Content
<1> QED BY <1>1, <1>3 DEF SameRow, Row

\* Outside an escape, every step but "fat" goes down the screen (keyboard.c:160-207).
LEMMA ConsoleDownward ==
    ASSUME Rows <= Cols, ConsoleInv, ~term.escape, [Next]_vars, ~(Enter /\ line = <<"f">>)
    PROVE  Downward(term, term')
<1>1. Ok(term) /\ TermOK(term)
    BY DEF ConsoleInv, Ok
<1>2. CASE term' = term
  <2>1. Downward(term, term)
      BY <1>1, SamePasses
  <2> QED BY <1>2, <2>1
<1>3. CASE \E c : term' = Putchar(term, c)
    BY <1>1, <1>3, PutcharDownward
<1>4. CASE RubsOne
  <2>1. PICK s : s = <<"BS", " ", "BS">>
      OBVIOUS
  <2>2. term' = Write(term, s) /\ NoEscape(s)
      BY <1>4, <2>1, RubPlain DEF RubsOne
  <2> QED BY ONLY <1>1, <2>2, WriteDownward, Rows <= Cols, ~term.escape
<1>5. CASE F1
  <2>1. PICK s : s = Banner
      OBVIOUS
  <2>2. term' = Write(term, s) /\ NoEscape(s)
      BY <1>5, <2>1, BannerPlain DEF F1
  <2> QED BY ONLY <1>1, <2>2, WriteDownward, Rows <= Cols, ~term.escape
<1>6. CASE Enter
  <2>1. PICK w \in Answer(line) :
           LET t == Write(term, <<"LF">> \o w)
           IN  IF inScanf' THEN Prompted(Write(t, Prompt))
               ELSE term' = t /\ tracked' = FALSE /\ home' = home
      BY <1>6 DEF Enter
  <2>2. PICK s, p, t, u : /\ s = <<"LF">> \o w /\ p = Prompt
                          /\ t = Write(term, s) /\ u = Write(t, p)
      OBVIOUS
  <2>3. term' = u \/ term' = t
      BY <2>1, <2>2 DEF Prompted
  <2>4. NoEscape(s) /\ NoEscape(p)
    <3>1. line # <<"f">>
        BY <1>6
    <3> QED BY <2>2, <3>1, AnswerPlain, PromptPlain
  <2>5. Ok(t) /\ ~t.escape /\ Downward(term, t)
    <3>1. t = Write(term, s)
        BY <2>2
    <3> QED BY ONLY <1>1, <2>4, <3>1, WriteDownward, Rows <= Cols, ~term.escape
  <2>6. Ok(u) /\ Downward(t, u)
    <3>1. u = Write(t, p)
        BY <2>2
    <3> QED BY ONLY <2>4, <2>5, <3>1, WriteDownward, Rows <= Cols
  <2>7. Ready(term) /\ Ready(t) /\ Ready(u)
      BY <1>1, <2>5, <2>6, TermReady DEF Ok
  <2>8. Downward(term, u)
      BY <2>5, <2>6, <2>7, DownwardOn
  <2> QED BY <2>3, <2>5, <2>8
<1> QED BY <1>2, <1>3, <1>4, <1>5, <1>6, EditorSteps DEF Idles, Types

\* While characters and line feeds scroll a region, the rows outside it stay, but for
\* those the cursor goes down through: on a screen with no more rows than columns, as
\* the row is compared with the number of columns (flanterm.c:1296-1305, fb.c:789-809).
THEOREM OutsideKept ==
    ASSUME Rows <= Cols
    PROVE  Spec => OutsideRegionKept
<1> DEFINE A == ~term.escape /\ ~(Enter /\ line = <<"f">>) =>
                  \A y \in 0 .. Rows - 1 :
                     y \in term.top .. term.bottom - 1 \/ y \in PosY(term) .. PosY(term')
                     \/ Row(term, y) = Row(term', y)
<1>1. ConsoleInv /\ ConsoleInv' /\ [Next]_vars => [A]_vars
  <2> SUFFICES ASSUME ConsoleInv, ConsoleInv', [Next]_vars, ~term.escape, ~(Enter /\ line = <<"f">>),
                      NEW y \in 0 .. Rows - 1, y \notin term.top .. term.bottom - 1,
                      y \notin PosY(term) .. PosY(term')
               PROVE  Row(term, y) = Row(term', y)
      OBVIOUS
  <2>1. Downward(term, term')
      BY ConsoleDownward
  <2>2. Ok(term) /\ Ok(term')
      BY DEF ConsoleInv
  <2> QED BY <2>1, <2>2, RowIs
<1> QED BY <1>1, ConsoleInvariant, PTL DEF Spec, OutsideRegionKept
=============================================================================
