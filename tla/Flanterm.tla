------------------------------ MODULE Flanterm ------------------------------
(***************************************************************************)
(* The terminal emulator (flanterm/flanterm.c), as a function from its     *)
(* state and a byte to its next state.  A byte is a string: a printable    *)
(* character, or the name of a control code ("LF", "ESC", ...), of a byte  *)
(* that starts a UTF-8 sequence ("lead2", "lead3", "lead4"), or of one     *)
(* that goes on with it, named for the character it ends: in code page 437 *)
(* ("known"), or not and of width 1, 2 or 0 ("unknown", "wide", "zero").   *)
(* There is no callback, so reports to the host come to nothing.           *)
(***************************************************************************)
EXTENDS Framebuffer

CONSTANTS
    TabSize,        \* tab_size: 8
    MaxValues       \* FLANTERM_MAX_ESC_VALUES: 16

ASSUME TerminalAssumption == TabSize \in Nat \ {0} /\ MaxValues \in Nat

Lead == [lead2 |-> 1, lead3 |-> 2, lead4 |-> 3]
Width == [unknown |-> 1, wide |-> 2, zero |-> 0]
Continuation == {"known"} \union DOMAIN Width
Controls == {"NUL", "BEL", "BS", "TAB", "LF", "CR", "SO", "SI", "ESC", "CAN"}
Numerals == <<"0", "1", "2", "3", "4", "5", "6", "7", "8", "9">>
Digit == [i \in {Numerals[d + 1] : d \in 0 .. 9} |-> CHOOSE d \in 0 .. 9 : Numerals[d + 1] = i]
Strange == {"FS"} \union Continuation      \* bytes without a glyph: 0xfe
DecSpecial == {"backquote", "0", "-", ",", ".", "a", "f", "g", "h", "j", "k", "l", "m",
               "n", "q", "s", "t", "u", "v", "w", "x", "y", "z", "~", "_", "+", "{", "}"}
NoColour == 99

\* flanterm_context_reinit: the colours in use and the cursor are not part of it.
Reinit ==
    [ cursorOn |-> TRUE, escape |-> FALSE, csi |-> FALSE, osc |-> FALSE, oscEscape |-> FALSE,
      discard |-> FALSE, digits |-> FALSE, private |-> FALSE, insert |-> FALSE, offset |-> 0,
      values |-> <<>>, bold |-> FALSE, bgBold |-> FALSE, reverse |-> FALSE,
      unicode |-> 0, select |-> 0, charsets |-> <<FALSE, TRUE>>, charset |-> 1,
      primary |-> NoColour, back |-> NoColour, savedX |-> 0, savedY |-> 0,
      top |-> 0, bottom |-> Rows ]

\* What save_state keeps; before the first one, what the context was cleared to.
Unsaved == [ bold |-> FALSE, bgBold |-> FALSE, reverse |-> FALSE, charset |-> 1,
             primary |-> 0, back |-> 0, fg |-> Black, bg |-> Black, x |-> 0, y |-> 0 ]
FlantermInit == Over(Reinit, Over([saved |-> Unsaved], FbInit))

-----------------------------------------------------------------------------
(* Colours: select graphic rendition. *)

SetFg(t, c) == [t EXCEPT !.fg = c]
SetBg(t, c) == [t EXCEPT !.bg = c]
Swap(t) == [t EXCEPT !.fg = t.bg, !.bg = t.fg]
\* The character's own colour and that around it, which reverse video swaps.
Front(t, c) == IF t.reverse THEN SetBg(t, c) ELSE SetFg(t, c)
Back(t, c) == IF t.reverse THEN SetFg(t, c) ELSE SetBg(t, c)

FgDefault(bright) == IF bright THEN <<"white">> ELSE DefaultFg
BgDefault(bright) == IF bright THEN <<"dark">> ELSE Transparent
Ansi(k, bright) == IF bright THEN <<"bright", k>> ELSE <<"ansi", k>>

\* The code's default colour in reverse video is that of the other ground.
PlainFront(t, bright) ==
    IF t.reverse THEN SetBg(t, BgDefault(bright)) ELSE SetFg(t, FgDefault(bright))
PlainBack(t, bright) ==
    IF t.reverse THEN SetFg(t, FgDefault(bright)) ELSE SetBg(t, BgDefault(bright))

Bold(t, on) == LET s == [t EXCEPT !.bold = on]
               IN  IF s.primary = NoColour THEN PlainFront(s, on)
                   ELSE Front(s, Ansi(s.primary, on))
Blink(t, on) == LET s == [t EXCEPT !.bgBold = on]
                IN  IF s.back = NoColour THEN PlainBack(s, on)
                    ELSE Back(s, Ansi(s.back, on))
Primary(t, k, bright) == Front([t EXCEPT !.primary = k], Ansi(k, bright))
Ground(t, k, bright) == Back([t EXCEPT !.back = k], Ansi(k, bright))

Plain(t) ==
    [t EXCEPT !.reverse = FALSE, !.bold = FALSE, !.bgBold = FALSE,
              !.primary = NoColour, !.back = NoColour,
              !.bg = Transparent, !.fg = DefaultFg]

\* 38 and 48 take the colour from the values that follow: so many of them.
Takes(vs, k) ==
    LET left == Len(vs) - k
        wanted == IF vs[k + 1] = 2 THEN 4 ELSE IF vs[k + 1] = 5 THEN 2 ELSE 1
    IN  IF vs[k] \notin {38, 48} \/ left = 0 THEN 0
        ELSE IF left < wanted THEN left ELSE wanted
Extended(t, vs, k) ==
    LET set(c) == IF vs[k] = 38 THEN SetFg(t, c) ELSE SetBg(t, c)
        c == vs[k + 2]
    IN  IF Takes(vs, k) = 4 THEN set(<<"rgb", c, vs[k + 3], vs[k + 4]>>)
        ELSE IF Takes(vs, k) # 2 \/ vs[k + 1] # 5 \/ c >= 256 THEN t
        ELSE set(IF c < 8 THEN Ansi(c, FALSE) ELSE IF c < 16 THEN Ansi(c - 8, TRUE)
                 ELSE <<"palette", c - 16>>)

SgrValue(t, vs, k) ==
    LET v == vs[k]
    IN  CASE v = 0 -> Plain(t)
               [] v \in {1, 22} -> Bold(t, v = 1)
               [] v \in {5, 25} -> Blink(t, v = 5)
               [] v \in 30 .. 37 -> Primary(t, v - 30, t.bold)
               [] v \in 40 .. 47 -> Ground(t, v - 40, t.bgBold)
               [] v \in 90 .. 97 -> Primary(t, v - 90, TRUE)
               [] v \in 100 .. 107 -> Ground(t, v - 100, TRUE)
               [] v = 39 -> Front([t EXCEPT !.primary = NoColour], FgDefault(t.bold))
               [] v = 49 -> Back([t EXCEPT !.back = NoColour], BgDefault(t.bgBold))
               [] v \in {7, 27} -> IF t.reverse = (v = 7) THEN t
                                   ELSE Swap([t EXCEPT !.reverse = (v = 7)])
               [] v \in {38, 48} -> Extended(t, vs, k)
               [] OTHER -> t
Sgr(t) ==
    IF t.values = <<>> THEN Plain(t)
    ELSE LET n == Len(t.values)
             taken[k \in 0 .. n] ==        \* values behind value k that are taken
                 IF k = 0 THEN 0
                 ELSE IF taken[k - 1] > 0 THEN taken[k - 1] - 1 ELSE Takes(t.values, k)
             f[k \in 0 .. n] ==
                 IF k = 0 THEN t
                 ELSE IF taken[k - 1] > 0 THEN f[k - 1] ELSE SgrValue(f[k - 1], t.values, k)
         IN  f[n]

-----------------------------------------------------------------------------
(* Control sequences. *)

\* Up and down, held by the margin on the way.
Up(t, x, y, n) ==
    LET to == Clamp(y - n, Rows)
        held == t.top \in to .. y \/ t.bottom \in to .. y
    IN  SetCursor(t, x, IF held /\ to < t.top THEN t.top ELSE to)
Down(t, x, y, n) ==
    LET to == Clamp(y + n, Rows)
        held == t.top \in y .. to \/ t.bottom \in y .. to
    IN  SetCursor(t, x, IF held /\ to >= t.bottom THEN t.bottom - 1 ELSE to)

EraseScreen(t, x, y, n) ==
    CASE n = 0 -> SetCursor(Spaces(t, (Rows - y - 1) * Cols + Cols - x), x, y)
      [] n = 1 -> SetCursor(Spaces(SetCursor(t, 0, 0), y * Cols + x + 1), x, y)
      [] n \in {2, 3} -> Clear(t)
      [] OTHER -> t
EraseLine(t, x, y, n) ==
    CASE n = 0 -> SetCursor(Spaces(t, Cols - x), x, y)
      [] n = 1 -> Spaces(SetCursor(t, 0, y), x)
      [] n = 2 -> SetCursor(Spaces(SetCursor(t, 0, y), Cols), x, y)
      [] OTHER -> t

\* A blank in column i, whose character moves by n; then the one before.
InsertAt(t, i, y, n) ==
    RawPutchar(SetCursor(MoveCharacter(t, i + n, i, y), i, y), " ", FALSE)
InsertChars(t, x, y, n) ==
    LET f[k \in 0 .. Cols - x] == IF k = 0 THEN t ELSE InsertAt(f[k - 1], Cols - k, y, n)
    IN  SetCursor(f[Cols - x], x, y)
EraseChars(t, x, y, n) == SetCursor(Spaces(t, IF n > Cols THEN Cols ELSE n), x, y)
DeleteChars(t, x, y, n) ==
    EraseChars(SetCursor(MoveRun(t, x, x + n, y, 1, Cols - x - n), Cols - n, y), x, y, n)

AtMostRows(n) == IF n > Rows THEN Rows ELSE n
InsertLines(t, y, n) ==
    [RevScrolls([t EXCEPT !.top = y], AtMostRows(n)) EXCEPT !.top = t.top]

\* Variant of Margins: any two margins are taken.
MarginsUnchecked(t) ==
    LET from == IF Len(t.values) > 0 /\ t.values[1] > 0 THEN t.values[1] - 1 ELSE 0
        to == IF Len(t.values) > 1 /\ t.values[2] > 0 THEN t.values[2] ELSE Rows
    IN  SetCursor([t EXCEPT !.top = from, !.bottom = to], 0, 0)

\* The scroll region, of two rows at least.
Margins(t) ==
    LET value(k) == IF t.values[k] = 0 THEN 1 ELSE t.values[k]
        from == IF Len(t.values) > 0 THEN value(1) - 1 ELSE 0
        to == IF Len(t.values) > 1 THEN value(2) ELSE Rows
        fit == from < Rows /\ to <= Rows /\ from < to - 1
    IN  SetCursor([t EXCEPT !.top = IF fit THEN from ELSE 0,
                            !.bottom = IF fit THEN to ELSE Rows], 0, 0)

Toggle(t, c) ==
    IF t.values # <<>> /\ t.values[1] = 4 THEN [t EXCEPT !.insert = (c = "h")] ELSE t
Private(t, c) ==
    IF t.values # <<>> /\ t.values[1] = 25 /\ c \in {"h", "l"}
    THEN [t EXCEPT !.cursorOn = (c = "h"), !.private = FALSE]
    ELSE [t EXCEPT !.private = FALSE]

\* The final byte c of a sequence; d is a value counted from zero.
Control(t, c) ==
    LET default == IF c \in {"J", "K", "q"} THEN 0 ELSE 1
        v(k) == IF k <= Len(t.values) THEN t.values[k] ELSE default
        n == v(1)
        d(k) == IF v(k) = 0 THEN 0 ELSE v(k) - 1
        last(limit) == IF n = 0 THEN limit - 1 ELSE n - 1      \* 0 wraps around
        x == PosX(t)
        y == PosY(t)
    IN  CASE c = "A" -> Up(t, x, y, n)
          [] c = "F" -> Up(t, 0, y, n)
          [] c \in {"B", "e"} -> Down(t, x, y, n)
          [] c = "E" -> Down(t, 0, y, n)
          [] c \in {"C", "a"} -> SetCursor(t, x + n, y)
          [] c = "D" -> SetCursor(t, x - n, y)
          [] c = "d" -> SetCursor(t, x, last(Rows))
          [] c \in {"G", "backquote"} -> SetCursor(t, last(Cols), y)
          [] c \in {"H", "f"} -> SetCursor(t, d(2), d(1))
          [] c = "M" -> Scrolls(t, AtMostRows(n))
          [] c = "L" -> InsertLines(t, y, n)
          [] c = "J" -> EraseScreen(t, x, y, n)
          [] c = "K" -> EraseLine(t, x, y, n)
          [] c = "@" -> InsertChars(t, x, y, n)
          [] c = "P" -> DeleteChars(t, x, y, n)
          [] c = "X" -> EraseChars(t, x, y, n)
          [] c = "m" -> Sgr(t)
          [] c = "s" -> [t EXCEPT !.savedX = x, !.savedY = y]
          [] c = "u" -> SetCursor(t, t.savedX, t.savedY)
          [] c = "r" -> Margins(t)
          [] c \in {"h", "l"} -> Toggle(t, c)
          [] OTHER -> t

Done(t) == [t EXCEPT !.csi = FALSE, !.escape = FALSE]

\* Variant of AddDigit: there is always room for a value.
AddDigitAnyway(t, c) ==
    IF t.digits THEN [t EXCEPT !.values[Len(t.values)] = @ * 10 + Digit[c]]
    ELSE [t EXCEPT !.values = Append(@, Digit[c]), !.digits = TRUE]

\* A value takes its digits in, or is ended by a semicolon or the final byte.
AddDigit(t, c) ==
    IF t.digits THEN [t EXCEPT !.values[Len(t.values)] = @ * 10 + Digit[c]]
    ELSE IF Len(t.values) = MaxValues THEN t
    ELSE [t EXCEPT !.values = Append(@, Digit[c]), !.digits = TRUE]
Sequence(t, c) ==
    IF t.offset = 2 /\ c = "[" THEN Done([t EXCEPT !.discard = TRUE])
    ELSE IF t.offset = 2 /\ c = "?" THEN [t EXCEPT !.private = TRUE]
    ELSE IF c \in DOMAIN Digit THEN AddDigit(t, c)
    ELSE IF c = ";"
    THEN IF t.digits \/ Len(t.values) = MaxValues THEN [t EXCEPT !.digits = FALSE]
         ELSE [t EXCEPT !.values = Append(@, 0)]
    ELSE LET s == [t EXCEPT !.digits = FALSE]
         IN  Done(IF s.private THEN Private(s, c) ELSE Control(s, c))

-----------------------------------------------------------------------------
(* Escapes. *)

SaveState(t) == [t EXCEPT !.saved = [f \in DOMAIN Unsaved |-> t[f]]]
RestoreState(t) == Over(t.saved, t)

NextLine(t, x) ==
    LET y == PosY(t)
    IN  IF y = t.bottom - 1 THEN SetCursor(Scroll(t), x, y) ELSE SetCursor(t, x, y + 1)
PreviousLine(t) ==
    LET y == PosY(t)
    IN  IF y = t.top THEN SetCursor(RevScroll(t), 0, y) ELSE SetCursor(t, 0, y - 1)

Osc(t, c) ==
    IF (t.oscEscape /\ c = "\\") \/ c = "BEL"
    THEN [t EXCEPT !.oscEscape = FALSE, !.osc = FALSE, !.escape = FALSE]
    ELSE [t EXCEPT !.oscEscape = (c = "ESC")]

EscapeCode(t, c) ==
    CASE c = "7" -> SaveState(t)
      [] c = "8" -> RestoreState(t)
      [] c = "c" -> [Clear(Over(Reinit, t)) EXCEPT !.x = 0, !.y = 0]
      [] c = "D" -> NextLine(t, PosX(t))
      [] c = "E" -> NextLine(t, 0)
      [] c = "M" -> PreviousLine(t)
      [] c \in {"(", ")"} -> [t EXCEPT !.select = IF c = "(" THEN 1 ELSE 2]
      [] OTHER -> t
Escape(t0, c) ==
    LET t == [t0 EXCEPT !.offset = @ + 1]
    IN  IF t.osc THEN Osc(t, c)
        ELSE IF t.csi THEN Sequence([t EXCEPT !.offset = IF @ > 3 THEN 3 ELSE @], c)
        ELSE IF c = "]" THEN [t EXCEPT !.osc = TRUE, !.oscEscape = FALSE]
        ELSE IF c = "[" THEN [t EXCEPT !.csi = TRUE, !.values = <<>>, !.digits = FALSE]
        ELSE [EscapeCode(t, c) EXCEPT !.escape = FALSE]

-----------------------------------------------------------------------------
(* Bytes. *)

Abort(t) == [t EXCEPT !.discard = FALSE, !.escape = FALSE, !.csi = FALSE, !.unicode = 0,
                      !.osc = FALSE, !.oscEscape = FALSE, !.select = 0]

\* A continuation byte; the last one brings the character, or a replacement
\* and as many blanks as it would be wide.
Continue(t, c) ==
    LET s == [t EXCEPT !.unicode = @ - 1]
    IN  IF s.unicode # 0 THEN s
        ELSE IF c = "known" THEN RawPutchar(s, "437", TRUE)
        ELSE IF Width[c] = 0 THEN s
        ELSE IF Width[c] = 1 THEN RawPutchar(s, "box", TRUE)
        ELSE RawPutchar(RawPutchar(s, "box", TRUE), " ", TRUE)

Charset(t, c) ==
    LET s == [t EXCEPT !.select = 0]
    IN  IF c = "B" THEN [s EXCEPT !.charsets[t.select] = FALSE]
        ELSE IF c = "0" THEN [s EXCEPT !.charsets[t.select] = TRUE]
        ELSE s

Code(t, c) ==
    LET x == PosX(t)
        y == PosY(t)
    IN  CASE c = "ESC" -> [t EXCEPT !.offset = 0, !.escape = TRUE]
          [] c = "TAB" -> SetCursor(t, IF x \div TabSize + 1 >= Cols THEN Cols - 1
                                       ELSE (x \div TabSize + 1) * TabSize, y)
          [] c = "LF" -> NextLine(t, 0)
          [] c = "BS" -> SetCursor(t, x - 1, y)
          [] c = "CR" -> SetCursor(t, 0, y)
          [] c = "SO" -> [t EXCEPT !.charset = 2]
          [] c = "SI" -> [t EXCEPT !.charset = 1]
          [] OTHER -> t

Glyph(t, c) ==
    IF t.charsets[t.charset] /\ c \in DecSpecial THEN "line"
    ELSE IF c \in Strange THEN "box" ELSE c
PutGlyph(t, c) ==
    LET y == PosY(t)
        opened == IF t.insert
                  THEN MoveRun(t, Cols, Cols - 1, y, -1, Cols - PosX(t)) ELSE t
    IN  RawPutchar(opened, Glyph(t, c), TRUE)

\* flanterm_putchar.
Byte(t0, c) ==
    LET t == IF c \in Continuation THEN t0 ELSE [t0 EXCEPT !.unicode = 0]
    IN  IF t0.discard \/ c = "CAN" THEN Abort(t0)
        ELSE IF t.unicode # 0 THEN Continue(t, c)
        ELSE IF c \in DOMAIN Lead THEN [t EXCEPT !.unicode = Lead[c]]
        ELSE IF t.escape THEN Escape(t, c)
        ELSE IF t.select # 0 THEN Charset(t, c)
        ELSE IF c \in Controls THEN Code(t, c)
        ELSE PutGlyph(t, c)

\* Variant of Putchar: only a text's last byte is followed by a flush.
PutcharUnflushed(t, c) == Byte(t, c)
\* flanterm_putchar_wrapper: every byte is on the screen at once.
Putchar(t, c) == Flush(Byte(t, c))
Write(t, s) == LET f[k \in 0 .. Len(s)] == IF k = 0 THEN t ELSE Putchar(f[k - 1], s[k])
               IN  f[Len(s)]
=============================================================================
