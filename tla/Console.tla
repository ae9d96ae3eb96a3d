------------------------------ MODULE Console ------------------------------
(***************************************************************************)
(* The pseudo-shell on the terminal: isr_keyboard with its line editor     *)
(* (drivers/keyboard.c) above printk and flanterm.  The keys come in the   *)
(* order they are typed; the handler runs with interrupts off, and nothing *)
(* but it writes on the screen.                                            *)
(*                                                                         *)
(* A key is named for its unshifted character, or "Enter", "F1" and so on. *)
(* "Down" and "Win" stand for the scan codes 0x50 and 0x5B, for which the  *)
(* tables hold an escape and a shift-out, "Ctrl" for those they have       *)
(* nothing for, "Up" for any key released.                                 *)
(***************************************************************************)
EXTENDS Flanterm

CONSTANTS
    Table,          \* the character of a key, and that with shift
    Scripts,        \* what the user types in one go
    MaxScripts,     \* bound: how often
    Labels          \* what "fat" finds on the disk and prints

\* The keys' bytes are below 128.
ASSUME ConsoleAssumption ==
    /\ MaxScripts \in Nat
    /\ \A k \in DOMAIN Table : \A i \in {1, 2} :
          Table[k][i] \in STRING \ (DOMAIN Lead \union Continuation)
    /\ Labels \subseteq Seq(STRING)

VARIABLES
    term,           \* the terminal
    keys,           \* keys typed, not yet handled
    scripts,        \* scripts typed
    line,           \* wholeInput
    inScanf, shifted, capslock,
    home,           \* history: the column behind the last prompt
    tracked         \* history: since then only what a line editor is for

vars == <<term, keys, scripts, line, inScanf, shifted, capslock, home, tracked>>

-----------------------------------------------------------------------------
Quiet(t) == /\ ~t.escape /\ ~t.discard /\ t.select = 0 /\ t.unicode = 0
            /\ ~t.charsets[t.charset] /\ ~t.insert
            /\ t.x < Cols /\ t.y < Rows
WholeScreen(t) == t.top = 0 /\ t.bottom = Rows

Prompt == <<"#", " ">>
Banner == <<"S", "LF", "LF">> \o Prompt

Init ==
    /\ term = FlantermInit
    /\ keys = <<>>
    /\ scripts = 0
    /\ line = <<>>
    /\ inScanf = FALSE
    /\ shifted = FALSE
    /\ capslock = FALSE
    /\ home = 0
    /\ tracked = FALSE

Type(s) ==
    /\ keys = <<>>
    /\ scripts < MaxScripts
    /\ keys' = s
    /\ scripts' = scripts + 1
    /\ UNCHANGED <<term, line, inScanf, shifted, capslock, home, tracked>>

Key(k) == keys # <<>> /\ Head(keys) = k /\ keys' = Tail(keys) /\ scripts' = scripts

\* A prompt is on the screen: the line begins behind it.
Prompted(t) == /\ term' = t
               /\ home' = t.x
               /\ tracked' = Quiet(t)

\* What process_command prints for a line; only "exit" ends the shell.
Answer(l) == CASE l = <<"q">> -> {<<>>}
               [] l = <<"f">> -> {w \o <<"LF">> : w \in Labels}
               [] OTHER -> {<<"E", "LF">>}

\* Variant of Enter: the line is kept.
EnterKept ==
    /\ Key("Enter")
    /\ inScanf
    /\ line' = line
    /\ \E w \in Answer(line) : Prompted(Write(term, <<"LF">> \o w \o Prompt))
    /\ UNCHANGED <<inScanf, shifted, capslock>>

\* Enter runs the line, and clears it whatever it did.
Enter ==
    /\ Key("Enter")
    /\ inScanf
    /\ line' = <<>>
    /\ inScanf' = (line # <<"q">>)
    /\ \E w \in Answer(line) :
          LET t == Write(term, <<"LF">> \o w)
          IN  IF inScanf' THEN Prompted(Write(t, Prompt))
              ELSE term' = t /\ tracked' = FALSE /\ home' = home
    /\ UNCHANGED <<shifted, capslock>>

\* F1 starts the shell, or starts it again with the line as it is.
F1 ==
    /\ Key("F1")
    /\ inScanf' = TRUE
    /\ shifted' = FALSE
    /\ line' = line
    /\ capslock' = capslock
    /\ LET t == Write(term, Banner)
       IN  term' = t /\ home' = t.x /\ tracked' = (Quiet(t) /\ line = <<>>)

\* Keys that only change the state of the keyboard; Enter outside the shell
\* and keys released change nothing.
Modifier(k) ==
    /\ Key(k)
    /\ k \in {"Caps", "Shift", "Ctrl", "Up", "Enter"}
    /\ k = "Enter" => ~inScanf
    /\ capslock' = (capslock # (inScanf /\ k = "Caps"))
    /\ shifted' = IF ~inScanf THEN shifted
                  ELSE IF k = "Shift" THEN TRUE
                  ELSE IF k = "Ctrl" THEN FALSE
                  ELSE shifted
    /\ UNCHANGED <<term, line, inScanf, home, tracked>>

\* Variant of Backspace: the empty line is not looked at.
BackspaceAnyway ==
    /\ Key("Backspace")
    /\ inScanf
    /\ term' = Write(term, <<"BS", " ", "BS">>)
    /\ line' = IF line = <<>> THEN line ELSE SubSeq(line, 1, Len(line) - 1)
    /\ tracked' = (tracked /\ term.x \in 1 .. Cols - 1)
    /\ UNCHANGED <<inScanf, shifted, capslock, home>>

Backspace ==
    /\ Key("Backspace")
    /\ \/ /\ inScanf
          /\ line # <<>>
          /\ term' = Write(term, <<"BS", " ", "BS">>)
          /\ line' = SubSeq(line, 1, Len(line) - 1)
          /\ tracked' = (tracked /\ term.x \in 1 .. Cols - 1)
       \/ /\ ~inScanf \/ line = <<>>
          /\ UNCHANGED <<term, line, tracked>>
    /\ UNCHANGED <<inScanf, shifted, capslock, home>>

\* Any other key: its character is echoed and added to the line.
Character(k) ==
    /\ Key(k)
    /\ k \in DOMAIN Table
    /\ LET c == Table[k][IF capslock \/ shifted THEN 2 ELSE 1]
       IN  IF inScanf
           THEN /\ term' = Putchar(term, c)
                /\ line' = Append(line, c)
                /\ shifted' = FALSE
                /\ tracked' = (tracked /\ c \notin Controls \union Strange
                               /\ (term.x < Cols \/ WholeScreen(term)))
           ELSE UNCHANGED <<term, line, shifted, tracked>>
    /\ UNCHANGED <<inScanf, capslock, home>>

Next == \/ \E s \in Scripts : Type(s)
        \/ Enter \/ F1 \/ Backspace
        \/ \E k \in {"Caps", "Shift", "Ctrl", "Up", "Enter"} : Modifier(k)
        \/ \E k \in DOMAIN Table : Character(k)

Spec == Init /\ [][Next]_vars

-----------------------------------------------------------------------------
TypeOK ==
    /\ DOMAIN term.grid = Cells /\ DOMAIN term.shown = Cells
    /\ term.x \in 0 .. Cols
    /\ term.values \in Seq(Nat) /\ Len(term.values) <= MaxValues
    /\ term.unicode \in 0 .. 3 /\ term.select \in 0 .. 2 /\ term.charset \in {1, 2}
    /\ line \in Seq(STRING)
    /\ {inScanf, shifted, capslock, tracked} \subseteq BOOLEAN
    /\ scripts \in 0 .. MaxScripts
    /\ home \in 0 .. Cols

\* After every key the screen shows the grid and the cursor, and no cursor
\* left behind (fb.c:724-787): whatever a key scrolled, erased or moved, and
\* though a change may meet an older one of its cell in the queue.
PictureUpToDate == term.pend = <<>> /\ term.shown = Picture(term)

\* The queue, which has one item for each cell (fb.c:521-543, 1083), is never
\* asked for more before a flush empties it.
QueueBounded == ~term.overrun

\* The margins leave a region of two rows or more inside the screen, however
\* they were set (flanterm.c:751-773), and while the region reaches down to
\* its end the cursor does not leave it, unless it was saved outside: below a
\* shorter region a character wraps to a row that is not there (fb.c:799).
RegionSound ==
    /\ term.top + 1 < term.bottom /\ term.bottom <= Rows
    /\ term.bottom = Rows /\ term.saved.y < Rows => term.y < Rows

\* The cell of the cursor, and a row of the grid.
Ahead(t) == t.y * Cols + t.x
Row(t, y) == [x \in 0 .. Cols - 1 |-> t.grid[y * Cols + x]]

\* The characters before the cursor are those Enter will run
\* (keyboard.c:184-206), also when the line has wrapped and scrolled the
\* screen: as long as only printable keys were typed, and backspaces that did
\* not have to go back over the end of a row.
WhatYouSeeRuns ==
    tracked =>
        /\ term.x % Cols = (home + Len(line)) % Cols
        /\ \A i \in DOMAIN line :
              LET cell == Ahead(term) - Len(line) + i - 1
              IN  cell >= 0 => term.shown[cell][1] = line[i]

\* Editing a line in a row touches nothing but the line: neither the prompt
\* nor another row, and not the screen behind the line's end.
EditsInPlace ==
    [][tracked /\ tracked' /\ ~(Enter \/ F1) /\ term.x < Cols =>
         \A i \in Cells : term.grid[i] # term'.grid[i] =>
             i \in Ahead(term) - Len(line) .. Ahead(term)]_vars

\* Rows outside the scroll region stay when characters and line feeds make the
\* region scroll, but for those the cursor goes down through (flanterm.c:1296-1305,
\* fb.c:789-809); what is on the disk may hold escapes.
OutsideRegionKept ==
    [][~term.escape /\ ~(Enter /\ line = <<"f">>) =>
         \A y \in 0 .. Rows - 1 :
             y \in term.top .. term.bottom - 1 \/ y \in PosY(term) .. PosY(term')
             \/ Row(term, y) = Row(term', y)]_vars
=============================================================================
