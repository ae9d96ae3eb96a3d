----------------------------- MODULE MCConsole -----------------------------
(* A screen of three rows of six columns, tabs of four, five values in a   *)
(* control sequence.  Console control codes are typed as the user can type *)
(* them: "Down" is an escape, "Win" a shift-out, "RWin" a code without a   *)
(* glyph.  Bytes that no key has come from the disk, through "fat".        *)
EXTENDS Console, TLC

Same == {"0", "1", "2", "3", "4", "5", "6", "7", "8", "9", "[", "]", "(", ";", "?", "\\"}
Capital == [a |-> "A", b |-> "B", c |-> "C", d |-> "D", e |-> "E", f |-> "F", g |-> "G",
            h |-> "H", j |-> "J", k |-> "K", l |-> "L", m |-> "M", p |-> "P",
            q |-> "Q", r |-> "R", s |-> "S", u |-> "U", x |-> "X"]
Keys == [k \in DOMAIN Capital |-> <<k, Capital[k]>>] @@ [k \in Same |-> <<k, k>>]
        @@ ("2" :> <<"2", "@">>) @@ ("Tab" :> <<"TAB", "TAB">>)
        @@ ("Down" :> <<"ESC", "ESC">>) @@ ("Win" :> <<"SO", "SO">>)
        @@ ("RWin" :> <<"FS", "FS">>)

\* A control sequence: its values and its final byte.
Csi(s) == <<"Down", "[">> \o s
Big(s) == Csi(SubSeq(s, 1, Len(s) - 1) \o <<"Shift", s[Len(s)]>>)

Editing == { <<"F1">>, <<"a">>, <<"a", "x", "Backspace">>, <<"Backspace">>,
             <<"a", "Up", "Shift", "a", "Up">>, <<"Caps", "x", "Ctrl">>,
             <<"x", "Enter">>, <<"Enter">>, <<"q", "Enter">>, <<"f", "Enter">>,
             <<"Tab">>, <<"Win", "a">>, <<"RWin">> }
Moving == { Big(<<"2", "a">>), Big(<<"b">>), Csi(<<"c">>), Big(<<"3", "d">>),
            Big(<<"f">>), Big(<<"e">>), Csi(<<"0", "d">>), Big(<<"5", "g">>),
            Big(<<"2", ";", "3", "h">>), Csi(<<"s">>), Csi(<<"u">>),
            Csi(<<"2", ";", "3", "r">>), Csi(<<"1", ";", "2", "r">>), Csi(<<"3", ";", "1", "r">>) }
Erasing == { Big(<<"j">>), Big(<<"1", "j">>), Big(<<"2", "j">>),
             Big(<<"k">>), Big(<<"1", "k">>), Big(<<"2", "k">>),
             Big(<<"m">>), Big(<<"9", "l">>), Big(<<"2", "2">>), Big(<<"2", "p">>), Big(<<"9", "x">>) }
Colouring == { Csi(<<"m">>), Csi(<<"1", ";", "3", "1", ";", "4", "2", "m">>),
               Csi(<<"7", "m">>), Csi(<<"2", "7", ";", "5", ";", "9", "3", "m">>),
               Csi(<<"3", "8", ";", "5", ";", "9", "m">>),
               Csi(<<"4", "8", ";", "2", ";", "1", ";", "2", ";", "3", "m">>),
               Csi(<<";", ";", ";", ";", ";", "2", "2", "m">>) }
Modes == { Csi(<<"?", "2", "5", "l">>), Csi(<<"4", "h">>), Csi(<<"[", "x">>),
           <<"Down", "7">>, <<"Down", "8">>, <<"Down", "c">>, <<"Down", "Shift", "d">>,
           <<"Down", "Shift", "e">>, <<"Down", "Shift", "m">>, <<"Down", "(", "0", "a">>,
           <<"Down", "]", "0", "Down", "\\">> }
\* Long enough to wrap; below a short region; and out of there again.
Below == { <<"x", "x", "x", "x", "x", "x", "x">>,
           <<"F1">> \o Csi(<<"1", ";", "2", "r">>) \o Big(<<"3", ";", "6", "h">>),
           <<"Down", "7">> \o Csi(<<"r">>) }
MCScripts == Below \union Editing \union Moving \union Erasing \union Colouring \union Modes
\* What LineOnScreen and OutsideKept are proved from.
ASSUME ScreenWide == Rows <= Cols

ASSUME KeysKnown ==
    UNION {{s[i] : i \in DOMAIN s} : s \in MCScripts}
        \subseteq DOMAIN Keys \union {"Enter", "F1", "Backspace", "Caps", "Shift", "Ctrl", "Up"}

MCLabels == { <<"a", "x">>, <<"lead2", "known">>, <<"lead3", "zero", "wide">>,
              <<"lead3", "a">>, <<"lead2", "zero">>, <<"ESC", "[", "CAN", "BEL">> }
=============================================================================
