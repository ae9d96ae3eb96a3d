----------------------------- MODULE Framebuffer -----------------------------
(***************************************************************************)
(* The frame buffer of the terminal (flanterm/backends/fb.c), as functions *)
(* on the terminal's state t: a grid of characters, a queue of changes to  *)
(* it, and the picture on the screen, which the flush brings up to date.   *)
(* A character is a glyph with its foreground and background; a cell is    *)
(* y * Cols + x, as in the code.                                           *)
(***************************************************************************)
EXTENDS Integers, Sequences

CONSTANTS Cols, Rows

\* There is room for a scroll region, which has two rows.
ASSUME ScreenAssumption == Cols \in Nat \ {0} /\ Rows \in Nat \ {0, 1}

Cells == 0 .. Rows * Cols - 1

\* Colours: of the palette, and what a transparent background looks like.
DefaultFg == <<"grey">>
Transparent == <<"transparent">>
Black == <<"black">>

\* f, and g where f is not defined.
Over(f, g) == [i \in DOMAIN f \union DOMAIN g |-> IF i \in DOMAIN f THEN f[i] ELSE g[i]]

-----------------------------------------------------------------------------
(* The queue.  pend is map with the characters its items hold. *)

Content(t, i) == IF i \in DOMAIN t.pend THEN t.pend[i] ELSE t.grid[i]

Queued(t, i, ch) ==
    [t EXCEPT !.pend = Over([j \in {i} |-> ch], t.pend), !.queue = Append(t.queue, i)]

\* Variant of Push: every change is queued, whether the cell has an item or not.
PushAlways(t, ch, x, y) ==
    IF x >= Cols \/ y >= Rows THEN t ELSE Queued(t, y * Cols + x, ch)

\* Variant of Push: a cell that shows the character already is left alone,
\* though a change is on its way to it.
PushIfNew(t, ch, x, y) ==
    LET i == y * Cols + x
    IN  IF x >= Cols \/ y >= Rows \/ t.grid[i] = ch THEN t
        ELSE IF i \in DOMAIN t.pend THEN [t EXCEPT !.pend[i] = ch]
        ELSE Queued(t, i, ch)

\* push_to_queue: an item for the cell, unless it has one.
Push(t, ch, x, y) ==
    LET i == y * Cols + x
    IN  IF x >= Cols \/ y >= Rows THEN t
        ELSE IF i \in DOMAIN t.pend THEN [t EXCEPT !.pend[i] = ch]
        ELSE IF t.grid[i] = ch THEN t
        ELSE Queued(t, i, ch)

Copy(t, from, to) == Push(t, Content(t, from), to % Cols, to \div Cols)
Blank(t) == << " ", t.fg, t.bg >>

\* n cells are copied one after the other, upwards (d = 1) or downwards (d = -1).
CopyRun(t, from, to, d, n) ==
    LET f[k \in 0 .. n] ==
            IF k = 0 THEN t ELSE Copy(f[k - 1], from + d * (k - 1), to + d * (k - 1))
    IN  IF n <= 0 THEN t ELSE f[n]

\* n cells become blank.
BlankRun(t, first, n) ==
    LET f[k \in 0 .. n] ==
            IF k = 0 THEN t
            ELSE Push(f[k - 1], Blank(t), (first + k - 1) % Cols, (first + k - 1) \div Cols)
    IN  f[n]
BlankRow(t, y) == BlankRun(t, y * Cols, Cols)
Clear(t) == BlankRun(t, 0, Rows * Cols)

\* Variant of Scroll: all rows move, whatever the margins.
ScrollAll(t) == BlankRow(CopyRun(t, Cols, 0, 1, (Rows - 1) * Cols), Rows - 1)

\* The rows of the scroll region move up by one, in ascending order.
Scroll(t) ==
    LET first == (t.top + 1) * Cols
    IN  BlankRow(CopyRun(t, first, first - Cols, 1, t.bottom * Cols - first), t.bottom - 1)

\* They move down by one, in descending order.
RevScroll(t) ==
    LET last == (t.bottom - 1) * Cols - 1
    IN  BlankRow(CopyRun(t, last, last + Cols, -1, last + 1 - t.top * Cols), t.top)

\* Both, n times.
Scrolls(t, n) ==
    LET f[k \in 0 .. n] == IF k = 0 THEN t ELSE Scroll(f[k - 1]) IN f[n]
RevScrolls(t, n) ==
    LET f[k \in 0 .. n] == IF k = 0 THEN t ELSE RevScroll(f[k - 1]) IN f[n]

MoveCharacter(t, newX, oldX, y) ==
    IF newX \in 0 .. Cols - 1 /\ oldX \in 0 .. Cols - 1
    THEN Copy(t, y * Cols + oldX, y * Cols + newX) ELSE t

\* n characters of a row are moved one after the other, in either order.
MoveRun(t, newX, oldX, y, d, n) ==
    LET f[k \in 0 .. n] ==
            IF k = 0 THEN t
            ELSE MoveCharacter(f[k - 1], newX + d * (k - 1), oldX + d * (k - 1), y)
    IN  IF n <= 0 THEN t ELSE f[n]

-----------------------------------------------------------------------------
(* The cursor.  Its column may be Cols: the next character wraps. *)

Clamp(v, n) == IF v < 0 THEN 0 ELSE IF v >= n THEN n - 1 ELSE v
SetCursor(t, x, y) == [t EXCEPT !.x = Clamp(x, Cols), !.y = Clamp(y, Rows)]
PosX(t) == Clamp(t.x, Cols)
PosY(t) == Clamp(t.y, Rows)

\* Variant of Wrapped: the cursor goes below the scroll region.
WrappedBelow(t) ==
    LET y == t.y + 1
        s == IF y = t.bottom THEN Scroll(t) ELSE t
    IN  [s EXCEPT !.x = 0, !.y = IF y >= Cols THEN Cols - 1 ELSE y]

\* To the next row, which is compared with the number of columns.
Wrapped(t) ==
    LET y == t.y + 1
        s == IF y = t.bottom THEN Scroll(t) ELSE t
        z == IF y = t.bottom THEN y - 1 ELSE y
    IN  [s EXCEPT !.x = 0, !.y = IF z >= Cols THEN Cols - 1 ELSE z]

\* A character at the cursor; scrolls says whether it may scroll the screen.
RawPutchar(t, c, scrolls) ==
    LET s == IF t.x >= Cols /\ (t.y < t.bottom - 1 \/ scrolls) THEN Wrapped(t) ELSE t
    IN  [Push(s, << c, s.fg, s.bg >>, s.x, s.y) EXCEPT !.x = @ + 1]
Spaces(t, n) ==
    LET f[k \in 0 .. n] == IF k = 0 THEN t ELSE RawPutchar(f[k - 1], " ", FALSE) IN f[n]

-----------------------------------------------------------------------------
(* The picture. *)

Seen(colour) == IF colour = Transparent THEN Black ELSE colour
Plot(ch) == << ch[1], Seen(ch[2]), Seen(ch[3]) >>
Inverted(ch) == Plot(<< ch[1], ch[3], ch[2] >>)

\* The cell of a position, if it is on the screen.
At(x, y) == IF x < Cols /\ y < Rows THEN {y * Cols + x} ELSE {}

\* The queue, which only a flush empties, is longer than its array.
Overfull(t) == Len(t.queue) > Rows * Cols

\* Variant of Flush: the cell the cursor leaves is not drawn again.
FlushTrail(t) ==
    LET here == IF t.cursorOn THEN At(t.x, t.y) ELSE {}
        grid == Over(t.pend, t.grid)
        shown == [i \in Cells |-> IF i \in here THEN Inverted(grid[i])
                                  ELSE IF i \in DOMAIN t.pend THEN Plot(t.pend[i])
                                  ELSE t.shown[i]]
    IN  [t EXCEPT !.grid = grid, !.pend = <<>>, !.queue = <<>>, !.shown = shown,
                  !.overrun = (t.overrun \/ Overfull(t)), !.oldX = t.x, !.oldY = t.y]

\* double_buffer_flush: the cursor's cell, the queue's cells, and the cell
\* the cursor was in before.  overrun remembers whether any queue was overfull.
Flush(t) ==
    LET here == IF t.cursorOn THEN At(t.x, t.y) ELSE {}
        old == IF <<t.oldX, t.oldY>> # <<t.x, t.y>> \/ ~t.cursorOn
               THEN At(t.oldX, t.oldY) ELSE {}
        grid == Over(t.pend, t.grid)
        shown == [i \in Cells |->
                     IF i \in old THEN Plot(grid[i])
                     ELSE IF i \in here THEN Inverted(grid[i])
                     ELSE IF i \in DOMAIN t.pend THEN Plot(t.pend[i])
                     ELSE t.shown[i]]
    IN  [t EXCEPT !.grid = grid, !.pend = <<>>, !.queue = <<>>, !.shown = shown,
                  !.overrun = (t.overrun \/ Overfull(t)), !.oldX = t.x, !.oldY = t.y]

\* flanterm_fb_init: the grid is blank, and full_refresh draws it.
FbInit ==
    LET blank == << " ", DefaultFg, Transparent >>
    IN  [ grid |-> [i \in Cells |-> blank], pend |-> <<>>, queue |-> <<>>, overrun |-> FALSE,
          shown |-> [i \in Cells |-> IF i = 0 THEN Inverted(blank) ELSE Plot(blank)],
          fg |-> DefaultFg, bg |-> Transparent,
          x |-> 0, y |-> 0, oldX |-> 0, oldY |-> 0 ]

-----------------------------------------------------------------------------
\* What the screen should look like: the grid, with the cursor on it.
Picture(t) ==
    [i \in Cells |-> IF t.cursorOn /\ i \in At(t.x, t.y) THEN Inverted(t.grid[i])
                     ELSE Plot(t.grid[i])]
=============================================================================
