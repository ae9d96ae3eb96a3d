-------------------------- MODULE InterruptsProofs --------------------------
(***************************************************************************)
(* Theorems about Interrupts for every length of the tick, number of       *)
(* waits, set of commands, number of keys and depth of nesting.            *)
(*                                                                         *)
(* The inductive invariant has three parts.  StackInv says how handlers    *)
(* can lie on each other: only a handler that has sent its end-of-         *)
(* interrupt and set the interrupt flag is ever covered by another one,    *)
(* except the keyboard's, which the system call of "run" covers; and every *)
(* line in service still has the handler that answers for it.  OthersOK    *)
(* types the rest; GateInv follows the masks through the boot code.        *)
(***************************************************************************)
EXTENDS Interrupts, SequenceTheorems, FiniteSetTheorems, TLAPS

(* What the steps do to the stack. *)
\* t is s with r on top, s with r above its top, s without its top.
Replaced(s, t, r) == /\ t \in Seq(Handler) /\ Len(t) = Len(s)
                     /\ \A h \in 1 .. Len(s) : t[h] = IF h = Len(s) THEN r ELSE s[h]
Pushed(s, t, r) == /\ t \in Seq(Handler) /\ Len(t) = Len(s) + 1
                   /\ \A h \in 1 .. Len(s) : t[h] = s[h]
                   /\ t[Len(s) + 1] = r
Popped(s, t) == /\ t \in Seq(Handler) /\ Len(t) = Len(s) - 1
                /\ \A h \in 1 .. Len(s) - 1 : t[h] = s[h]

\* A stack with handlers has a top one, and its last place is not place 0.
LEMMA Lengths ==
    ASSUME NEW s \in Seq(Handler)
    PROVE  /\ Len(s) \in Nat
           /\ s # <<>> => Len(s) > 0 /\ Last(s) = s[Len(s)] /\ Last(s) \in Handler
           /\ Len(s) > 0 => s # <<>>
BY DEF Last

\* An assignment to the top handler's fields, the one kind of step a handler
\* takes without a call or a return, replaces that handler only.
LEMMA ReplaceTop ==
    ASSUME NEW s \in Seq(Handler), s # <<>>, NEW r \in Handler
    PROVE  Replaced(s, [s EXCEPT ![Len(s)] = r], r)
<1>1. Len(s) \in 1 .. Len(s)
    BY Lengths
<1> HIDE DEF Handler
<1> QED BY <1>1, ExceptSeq DEF Replaced

\* An interrupt or a system call leaves the handlers below as they are.
LEMMA PushTop ==
    ASSUME NEW s \in Seq(Handler), NEW r \in Handler
    PROVE  Pushed(s, Append(s, r), r)
BY AppendProperties DEF Pushed

\* iret uncovers the handlers below as they were.
LEMMA PopTop ==
    ASSUME NEW s \in Seq(Handler), s # <<>>
    PROVE  Popped(s, Front(s))
<1> DEFINE t == Front(s)
           n == Len(s)
<1>1. n \in Nat /\ n > 0
    BY Lengths
<1>2. \A h \in 1 .. n - 1 : s[h] \in Handler
    BY <1>1, ElementOfSeq
<1> HIDE DEF Handler
<1>3. /\ t \in Seq(Handler)
      /\ Len(t) = IF 1 <= n - 1 THEN n - 1 - 1 + 1 ELSE 0
      /\ \A i \in 1 .. n - 1 - 1 + 1 : t[i] = s[1 + i - 1]
    BY <1>1, <1>2, SubSeqProperties DEF Front
<1> HIDE DEF t, n
<1>4. Len(t) = n - 1
    BY <1>1, <1>3
<1>5. \A i \in 1 .. n - 1 : t[i] = s[i]
    BY <1>1, <1>3
<1> QED BY <1>3, <1>4, <1>5 DEF Popped, t, n

-----------------------------------------------------------------------------
\* What one handler can be: the timer's has no command, the system call's
\* begins after its work with the flag it found clear (keyboard.c runs commands
\* with interrupts off), and a wait of uhci_reset has a tick to wait for.
MayBe(r) ==
    /\ r.isr = "timer" => r.pc \in {"entry", "eoi", "iret"}
    /\ r.isr = "sys" => r.pc \in {"eoi", "iret"} /\ ~r.savedIf
    /\ r.pc = "wait" => r.n > 0

\* Who may be covered by whom.
Nested(r, inner) == \/ r.pc = "iret"
                    \/ r.isr = "kbd" /\ r.pc = "return" /\ inner.isr = "sys"

\* A stack s under the interrupt flag.
Sound(s, flag) ==
    /\ s \in Seq(Handler)
    /\ \A h \in 1 .. Len(s) : MayBe(s[h])
    /\ \A h \in 1 .. Len(s) - 1 : Nested(s[h], s[h + 1])
    /\ s # <<>> /\ Last(s).pc # "iret" => flag = FALSE
    /\ Len(s) <= MaxDepth + 1
    /\ Len(s) = MaxDepth + 1 => Last(s).isr = "sys"

\* The lines in service and the handlers that will answer for them.
Answered(s, served) ==
    /\ served \subseteq {0, 1}
    /\ 0 \in served => s # <<>> /\ Last(s).isr = "timer" /\ Last(s).pc # "iret"
    /\ 1 \in served => \E h \in 1 .. Len(s) : s[h].isr = "kbd" /\ s[h].pc # "iret"

\* A step of the top handler keeps the stack sound when only one that sets
\* the flag (idt.c:201, keyboard.c:212) reaches its iret.
LEMMA SoundReplaced ==
    ASSUME MaxDepth \in Nat,
           NEW s, s # <<>>, NEW f, Sound(s, f),
           NEW t, NEW r \in Handler, Replaced(s, t, r), NEW g,
           r.isr = Last(s).isr, MayBe(r), r.pc # "iret" => g = FALSE
    PROVE  Sound(t, g)
<1> DEFINE n == Len(s)
<1>1. n \in Nat /\ n > 0 /\ Last(s) = s[n] /\ MaxDepth \in Nat
    BY Lengths DEF Sound
<1>2. /\ t \in Seq(Handler) /\ Len(t) = n
      /\ \A h \in 1 .. n : t[h] = IF h = n THEN r ELSE s[h]
    BY DEF Replaced
<1> HIDE DEF n
<1>3. Last(t) = r /\ t # <<>>
    BY <1>1, <1>2, Lengths DEF Last
<1>4. \A h \in 1 .. n : MayBe(t[h])
    BY <1>1, <1>2 DEF Sound, n
<1>5. ASSUME NEW h \in 1 .. n - 1 PROVE Nested(t[h], t[h + 1])
    <2>1. Nested(s[h], s[h + 1]) /\ t[h] = s[h]
        BY <1>1, <1>2 DEF Sound, n
    <2>2. t[h + 1].isr = s[h + 1].isr
        BY <1>1, <1>2
    <2> QED BY <2>1, <2>2 DEF Nested
<1>6. /\ n <= MaxDepth + 1
      /\ n = MaxDepth + 1 => Last(s).isr = "sys"
    BY DEF Sound, n
<1> QED BY <1>2, <1>3, <1>4, <1>5, <1>6 DEF Sound

\* So does a handler entered with the flag clear on one that may be covered.
LEMMA SoundPushed ==
    ASSUME MaxDepth \in Nat,
           NEW s, NEW f, Sound(s, f),
           NEW t, NEW r \in Handler, Pushed(s, t, r), MayBe(r),
           s # <<>> => Nested(Last(s), r),
           Len(s) <= MaxDepth, r.isr = "sys" \/ Len(s) < MaxDepth
    PROVE  Sound(t, FALSE)
<1> DEFINE n == Len(s)
<1>0. n \in Nat /\ (n > 0 => s # <<>> /\ Last(s) = s[n]) /\ MaxDepth \in Nat
    BY Lengths DEF Sound
<1>1. /\ t \in Seq(Handler) /\ Len(t) = n + 1
      /\ \A h \in 1 .. n : t[h] = s[h]
      /\ t[n + 1] = r
    BY DEF Pushed
<1>2. n <= MaxDepth /\ (r.isr = "sys" \/ n < MaxDepth)
    OBVIOUS
<1> HIDE DEF n
<1>3. Last(t) = r /\ t # <<>>
    BY <1>0, <1>1, Lengths DEF Last
<1>4. \A h \in 1 .. n + 1 : MayBe(t[h])
    BY <1>0, <1>1 DEF Sound, n
<1>5. ASSUME NEW h \in 1 .. n PROVE Nested(t[h], t[h + 1])
    <2>1. CASE h = n
        BY <2>1, <1>0, <1>1
    <2>2. CASE h # n
        BY <2>2, <1>0, <1>1 DEF Sound, n
    <2> QED BY <2>1, <2>2
<1> QED BY <1>0, <1>1, <1>2, <1>3, <1>4, <1>5 DEF Sound

\* So does the iret: the flag it restores is clear when what it uncovers is
\* the keyboard handler that made the system call.
LEMMA SoundPopped ==
    ASSUME MaxDepth \in Nat,
           NEW s, s # <<>>, NEW f, Sound(s, f), NEW t, Popped(s, t)
    PROVE  Sound(t, Last(s).savedIf)
<1> DEFINE n == Len(s)
<1>1. /\ n \in Nat /\ n > 0 /\ Last(s) = s[n] /\ Last(s) \in Handler
      /\ n <= MaxDepth + 1 /\ MaxDepth \in Nat
    BY Lengths DEF Sound
<1>2. /\ t \in Seq(Handler) /\ Len(t) = n - 1
      /\ \A h \in 1 .. n - 1 : t[h] = s[h]
    BY DEF Popped
<1> HIDE DEF n
<1>3. ASSUME t # <<>>, Last(t).pc # "iret" PROVE Last(s).savedIf = FALSE
    <2>1. Last(t) = s[n - 1] /\ n - 1 \in 1 .. n - 1
        BY <1>1, <1>2, <1>3, Lengths DEF Last
    <2>2. Nested(s[n - 1], s[n])
        BY <2>1, <1>1 DEF Sound, n
    <2>3. Last(s).isr = "sys"
        BY <2>1, <2>2, <1>3, <1>1 DEF Nested
    <2>4. MayBe(Last(s))
        BY <1>1 DEF Sound, n
    <2>5. Last(s).savedIf \in BOOLEAN
        BY <1>1 DEF Handler
    <2> QED BY <2>3, <2>4, <2>5 DEF MayBe
<1>4. \A h \in 1 .. n - 1 : MayBe(t[h])
    BY <1>1, <1>2 DEF Sound, n
<1>5. \A h \in 1 .. n - 1 - 1 : Nested(t[h], t[h + 1])
    BY <1>1, <1>2 DEF Sound, n
<1>6. n - 1 <= MaxDepth + 1 /\ n - 1 # MaxDepth + 1
    BY <1>1
<1> QED BY <1>2, <1>3, <1>4, <1>5, <1>6 DEF Sound

\* A step of the top handler leaves no line without its handler when it sends
\* the end-of-interrupt for its own line before it reaches its iret.
LEMMA AnsweredReplaced ==
    ASSUME NEW s \in Seq(Handler), s # <<>>, NEW served, Answered(s, served),
           NEW t, NEW r, Replaced(s, t, r), NEW now \in SUBSET served,
           r.isr = Last(s).isr,
           r.pc = "iret" /\ r.isr = "timer" => 0 \notin now,
           r.pc = "iret" /\ r.isr = "kbd" => 1 \notin now
    PROVE  Answered(t, now)
<1> DEFINE n == Len(s)
<1>1. n \in Nat /\ n > 0 /\ Last(s) = s[n]
    BY Lengths
<1>2. /\ t \in Seq(Handler) /\ Len(t) = n
      /\ \A h \in 1 .. n : t[h] = IF h = n THEN r ELSE s[h]
    BY DEF Replaced
<1>0. 1 \in now => \E h \in 1 .. n : s[h].isr = "kbd" /\ s[h].pc # "iret"
    BY DEF Answered
<1> HIDE DEF n
<1>3. Last(t) = r /\ t # <<>>
    BY <1>1, <1>2, Lengths DEF Last
<1>4. 0 \in now => t # <<>> /\ Last(t).isr = "timer" /\ Last(t).pc # "iret"
    BY <1>3 DEF Answered
<1>5. ASSUME 1 \in now PROVE \E h \in 1 .. n : t[h].isr = "kbd" /\ t[h].pc # "iret"
    <2>1. PICK h \in 1 .. n : s[h].isr = "kbd" /\ s[h].pc # "iret"
        BY <1>5, <1>0
    <2>2. CASE h = n
        BY <2>1, <2>2, <1>1, <1>2, <1>5
    <2>3. CASE h # n
        BY <2>1, <2>3, <1>2
    <2> QED BY <2>2, <2>3
<1>6. now \subseteq {0, 1}
    BY DEF Answered
<1> QED BY <1>2, <1>4, <1>5, <1>6 DEF Answered

\* Nor does the entry of the handler of the one line that gets in service.
LEMMA AnsweredPushed ==
    ASSUME NEW s \in Seq(Handler), NEW served, Answered(s, served),
           NEW t, NEW r, Pushed(s, t, r), NEW now \in SUBSET {0, 1},
           0 \in now => r.isr = "timer" /\ r.pc # "iret",
           1 \in now => 1 \in served \/ (r.isr = "kbd" /\ r.pc # "iret")
    PROVE  Answered(t, now)
<1> DEFINE n == Len(s)
<1>1. n \in Nat
    BY Lengths
<1>2. /\ t \in Seq(Handler) /\ Len(t) = n + 1
      /\ \A h \in 1 .. n : t[h] = s[h]
      /\ t[n + 1] = r
    BY DEF Pushed
<1>0. 1 \in served => \E h \in 1 .. n : s[h].isr = "kbd" /\ s[h].pc # "iret"
    BY DEF Answered
<1> HIDE DEF n
<1>3. Last(t) = r /\ t # <<>>
    BY <1>1, <1>2, Lengths DEF Last
<1>4. 1 \in now => \E h \in 1 .. n + 1 : t[h].isr = "kbd" /\ t[h].pc # "iret"
    <2>1. CASE 1 \in served
        <3>1. PICK h \in 1 .. n : s[h].isr = "kbd" /\ s[h].pc # "iret"
            BY <2>1, <1>0
        <3>2. h \in 1 .. n + 1 /\ t[h] = s[h]
            BY <1>1, <1>2
        <3> QED BY <3>1, <3>2
    <2>2. CASE 1 \notin served
        BY <2>2, <1>1, <1>2
    <2> QED BY <2>1, <2>2
<1> QED BY <1>2, <1>3, <1>4 DEF Answered

\* Nor does the return of a handler that has sent its end-of-interrupt.
LEMMA AnsweredPopped ==
    ASSUME NEW s \in Seq(Handler), s # <<>>, NEW served, Answered(s, served),
           NEW t, Popped(s, t), Last(s).pc = "iret"
    PROVE  Answered(t, served)
<1> DEFINE n == Len(s)
<1>1. n \in Nat /\ n > 0 /\ Last(s) = s[n]
    BY Lengths
<1>2. /\ t \in Seq(Handler) /\ Len(t) = n - 1
      /\ \A h \in 1 .. n - 1 : t[h] = s[h]
    BY DEF Popped
<1>0. 1 \in served => \E h \in 1 .. n : s[h].isr = "kbd" /\ s[h].pc # "iret"
    BY DEF Answered
<1> HIDE DEF n
<1>3. 0 \notin served
    BY DEF Answered
<1>4. ASSUME 1 \in served PROVE \E h \in 1 .. n - 1 : t[h].isr = "kbd" /\ t[h].pc # "iret"
    <2>1. PICK h \in 1 .. n : s[h].isr = "kbd" /\ s[h].pc # "iret"
        BY <1>4, <1>0
    <2>2. h \in 1 .. n - 1 /\ t[h] = s[h]
        BY <2>1, <1>1, <1>2
    <2> QED BY <2>1, <2>2
<1> QED BY <1>2, <1>3, <1>4 DEF Answered
-----------------------------------------------------------------------------
\* The 8259's end-of-interrupt clears line 0 when it is in service.
LEMMA MinLine ==
    ASSUME NEW l \in SUBSET {0, 1}, l # {}
    PROVE  Min(l) \in l /\ (0 \in l => Min(l) = 0)
<1> DEFINE m == Min(l)
<1>1. CASE 0 \in l
    <2>1. 0 \in l /\ \A y \in l : 0 <= y
        BY <1>1
    <2>2. m \in l /\ \A y \in l : m <= y
        BY <2>1 DEF Min
    <2> HIDE DEF m
    <2>3. m \in {0, 1} /\ m <= 0
        BY <1>1, <2>2
    <2>4. m = 0
        BY <2>3
    <2> QED BY <2>2, <2>4 DEF m
<1>2. CASE 0 \notin l
    <2>0. \A y \in l : y = 1
        BY <1>2
    <2>00. \E y : y \in l
        OBVIOUS
    <2>1. 1 \in l /\ \A y \in l : 1 <= y
        BY <2>0, <2>00
    <2>2. m \in l
        BY <2>1 DEF Min
    <2> QED BY <1>2, <2>2
<1> QED BY <1>1, <1>2

\* The line that is taken is one of those presented.
LEMMA MinPresented ==
    ASSUME irr \subseteq Lines, Presented # {}
    PROVE  Min(Presented) \in Presented
<1>1. Presented \subseteq {0, 1, 9}
    BY DEF Presented, Lines
<1> DEFINE P == Presented
<1>2. P \subseteq {0, 1, 9} /\ P # {}
    BY <1>1
<1> HIDE DEF P
<1>3. \E x \in P : \A y \in P : x <= y
    <2>1. CASE 0 \in P
        BY <1>2, <2>1
    <2>2. CASE 0 \notin P /\ 1 \in P
        BY <1>2, <2>2
    <2>3. CASE 0 \notin P /\ 1 \notin P
        <3>1. \A y \in P : y = 9
            BY <1>2, <2>3
        <3>2. PICK y \in P : TRUE
            BY <1>2
        <3> QED BY <3>1, <3>2
    <2> QED BY <2>1, <2>2, <2>3
<1> QED BY <1>3 DEF Min, P


\* The types of everything but the stack, and the wait that is not over.
OthersOK ==
    /\ machine \in {"running", "halted", "reset", "fault"}
    /\ mainPc \in {"paging", "lidt", "remap", "mask", "gates", "unmask", "exceptions",
                   "sti", "uhciReset", "hcReset", "idle"}
    /\ waits \in 0 .. ResetWaits
    /\ mainPc = "uhciReset" => waits # 0
    /\ intFlag \in BOOLEAN
    /\ gates \subseteq Handled /\ excGates \in BOOLEAN
    /\ irr \subseteq Lines /\ inService \subseteq Lines /\ imr \subseteq 0 .. 15
    /\ tick \in 0 .. Period - 1
    /\ polled \in BOOLEAN
    /\ kbc \in Keys \cup {NoKey}
    /\ inScanf \in BOOLEAN
    /\ line \in Texts
    /\ keys \in 0 .. MaxKeys

\* What idt.c and keyboard.c make of the nesting of their handlers.
StackInv == /\ Sound(stack, intFlag)
            /\ machine # "fault" => Answered(stack, inService)

\* The running handler: with the flag clear until its end-of-interrupt is sent.
LEMMA TopTyped ==
    ASSUME Sound(stack, intFlag), stack # <<>>
    PROVE  /\ stack \in Seq(Handler) /\ Len(stack) \in Nat /\ Len(stack) > 0
           /\ Top = Last(stack) /\ Top = stack[Len(stack)] /\ Top \in Handler /\ MayBe(Top)
           /\ Top.pc # "iret" => intFlag = FALSE
<1>1. stack \in Seq(Handler)
    BY DEF Sound
<1>2. Len(stack) \in Nat /\ Len(stack) > 0 /\ Last(stack) = stack[Len(stack)] /\ Last(stack) \in Handler
    BY <1>1, Lengths
<1>3. MayBe(stack[Len(stack)])
    BY <1>2 DEF Sound
<1> QED BY <1>1, <1>2, <1>3 DEF Sound, Top

\* One handler's step, that puts r in the place of the top of the stack.
LEMMA HandlerStep ==
    ASSUME MaxDepth \in Nat, StackInv, stack # <<>>, machine = "running",
           NEW r \in Handler, stack' = [stack EXCEPT ![Len(stack)] = r],
           r.isr = Top.isr, MayBe(r), r.pc # "iret" => intFlag' = FALSE,
           inService' \subseteq inService,
           r.pc = "iret" /\ r.isr = "timer" => 0 \notin inService',
           r.pc = "iret" /\ r.isr = "kbd" => 1 \notin inService'
    PROVE  StackInv'
<1>1. Sound(stack, intFlag) /\ Answered(stack, inService)
    BY DEF StackInv
<1>2. stack \in Seq(Handler) /\ Replaced(stack, stack', r) /\ Top = Last(stack)
    BY <1>1, TopTyped, ReplaceTop
<1>3. Sound(stack', intFlag')
    BY <1>1, <1>2, SoundReplaced
<1>4. Answered(stack', inService')
    BY <1>1, <1>2, AnsweredReplaced
<1> QED BY <1>3, <1>4 DEF StackInv

\* taskSwitchISR up to its increment (idt.c:198-199).
LEMMA TimerTickKeeps ==
    ASSUME MaxDepth \in Nat, StackInv, TimerTick PROVE StackInv'
<1> DEFINE r == [Top EXCEPT !.pc = "eoi"]
<1>1. /\ stack # <<>> /\ machine = "running" /\ Top.isr = "timer" /\ Top.pc = "entry"
      /\ Goto("eoi") /\ intFlag' = intFlag /\ inService' = inService
    BY DEF TimerTick, HandlerAt, pic
<1>2. Top = stack[Len(stack)] /\ Top \in Handler /\ intFlag = FALSE
    BY <1>1, TopTyped DEF StackInv
<1>3. r \in Handler /\ r.isr = Top.isr /\ r.pc = "eoi"
    BY <1>2 DEF Handler
<1>4. stack' = [stack EXCEPT ![Len(stack)] = r]
    BY <1>1, <1>2 DEF Goto
<1>5. MayBe(r)
    BY <1>1, <1>3 DEF MayBe
<1> HIDE DEF r
<1> QED BY <1>1, <1>2, <1>3, <1>4, <1>5, HandlerStep

\* The end of a handler (idt.c:200-201, keyboard.c:211-212): what the highest
\* line in service is, is the running handler's own line, unless that is the
\* system call, which clears its caller's.
LEMMA EoiStiKeeps ==
    ASSUME MaxDepth \in Nat, StackInv, EoiSti PROVE StackInv'
<1> DEFINE r == [Top EXCEPT !.pc = "iret"]
<1>1. /\ stack # <<>> /\ machine = "running" /\ Top.pc = "eoi" /\ Goto("iret")
      /\ inService' = IF inService = {} THEN {} ELSE inService \ {Min(inService)}
    BY DEF EoiSti, HandlerAt
<1>2. Top = stack[Len(stack)] /\ Top = Last(stack) /\ Top \in Handler /\ MayBe(Top)
    BY <1>1, TopTyped DEF StackInv
<1>3. r \in Handler /\ r.isr = Top.isr /\ r.pc = "iret" /\ r.savedIf = Top.savedIf
    BY <1>2 DEF Handler
<1>4. stack' = [stack EXCEPT ![Len(stack)] = r]
    BY <1>1, <1>2 DEF Goto
<1>5. MayBe(r)
    BY <1>2, <1>3 DEF MayBe
<1>6. inService \subseteq {0, 1} /\ (0 \in inService => Top.isr = "timer")
    BY <1>1, <1>2 DEF StackInv, Answered
<1>7. 0 \notin inService' /\ inService' \subseteq inService
      /\ (Top.isr = "kbd" => 1 \notin inService')
    <2>1. CASE inService = {}
        BY <2>1, <1>1
    <2>2. CASE inService # {}
        <3>1. Min(inService) \in inService /\ (0 \in inService => Min(inService) = 0)
            BY <2>2, <1>6, MinLine
        <3> QED BY <3>1, <2>2, <1>1, <1>6
    <2> QED BY <2>1, <2>2
<1> HIDE DEF r
<1> QED BY <1>1, <1>2, <1>3, <1>4, <1>5, <1>7, HandlerStep

\* The return of a handler.
LEMMA IretKeeps ==
    ASSUME MaxDepth \in Nat, StackInv, Iret PROVE StackInv'
<1>1. /\ stack # <<>> /\ machine = "running" /\ Top.pc = "iret"
      /\ stack' = Front(stack) /\ intFlag' = Top.savedIf /\ inService' = inService
      /\ machine' = machine
    BY DEF Iret, HandlerAt, pic
<1>2. stack \in Seq(Handler) /\ Top = Last(stack) /\ Popped(stack, stack')
      /\ Sound(stack, intFlag) /\ Answered(stack, inService)
    BY <1>1, TopTyped, PopTop DEF StackInv
<1>3. Sound(stack', intFlag')
    BY <1>1, <1>2, SoundPopped
<1>4. Answered(stack', inService')
    BY <1>1, <1>2, AnsweredPopped
<1> QED BY <1>3, <1>4 DEF StackInv

\* isr_keyboard up to the command (keyboard.c:160-171).
LEMMA KbdReadKeeps ==
    ASSUME MaxDepth \in Nat, line \in Texts, StackInv, KbdRead PROVE StackInv'
<1> DEFINE r == IF kbc = "Enter" /\ inScanf
                THEN [Top EXCEPT !.pc = "command", !.cmd = line]
                ELSE [Top EXCEPT !.pc = "eoi"]
<1>1. /\ stack # <<>> /\ machine = "running" /\ Top.isr = "kbd" /\ Top.pc = "entry"
      /\ intFlag' = intFlag /\ inService' = inService
    BY DEF KbdRead, HandlerAt, pic
<1>2. Top = stack[Len(stack)] /\ Top \in Handler /\ intFlag = FALSE
    BY <1>1, TopTyped DEF StackInv
<1>3. r \in Handler /\ r.isr = Top.isr /\ r.pc \in {"command", "eoi"}
    BY <1>2 DEF Handler
<1>4. stack' = [stack EXCEPT ![Len(stack)] = r]
    BY <1>2 DEF KbdRead, Goto
<1>5. MayBe(r)
    BY <1>1, <1>3 DEF MayBe
<1> HIDE DEF r
<1> QED BY <1>1, <1>2, <1>3, <1>4, <1>5, HandlerStep

\* isr_keyboard after process_command (keyboard.c:172-178).
LEMMA KbdReturnKeeps ==
    ASSUME MaxDepth \in Nat, StackInv, KbdReturn PROVE StackInv'
<1> DEFINE r == [Top EXCEPT !.pc = "eoi", !.cmd = NoLine]
<1>1. /\ stack # <<>> /\ machine = "running" /\ Top.isr = "kbd" /\ Top.pc = "return"
      /\ intFlag' = intFlag /\ inService' = inService
    BY DEF KbdReturn, HandlerAt, pic
<1>2. Top = stack[Len(stack)] /\ Top \in Handler /\ intFlag = FALSE
    BY <1>1, TopTyped DEF StackInv
<1>3. r \in Handler /\ r.isr = Top.isr /\ r.pc = "eoi"
    BY <1>2 DEF Handler, Texts
<1>4. stack' = [stack EXCEPT ![Len(stack)] = r]
    BY <1>2 DEF KbdReturn
<1>5. MayBe(r)
    BY <1>1, <1>3 DEF MayBe
<1> HIDE DEF r
<1> QED BY <1>1, <1>2, <1>3, <1>4, <1>5, HandlerStep

\* shell.c:94 begins to wait.
LEMMA CommandUsbResetKeeps ==
    ASSUME MaxDepth \in Nat, ResetWaits \in Nat \ {0}, StackInv, CommandUsbReset
    PROVE  StackInv'
<1> DEFINE r == [Top EXCEPT !.pc = "wait", !.n = ResetWaits]
<1>1. /\ stack # <<>> /\ machine = "running" /\ Top.isr = "kbd" /\ Top.pc = "command"
      /\ intFlag' = intFlag /\ inService' = inService
    BY DEF CommandUsbReset, HandlerAt, pic
<1>2. Top = stack[Len(stack)] /\ Top \in Handler /\ intFlag = FALSE
    BY <1>1, TopTyped DEF StackInv
<1>3. r \in Handler /\ r.isr = Top.isr /\ r.pc = "wait" /\ r.n = ResetWaits
    <2>1. ResetWaits \in 0 .. ResetWaits
        OBVIOUS
    <2> QED BY <1>2, <2>1 DEF Handler
<1>4. stack' = [stack EXCEPT ![Len(stack)] = r]
    BY <1>2 DEF CommandUsbReset
<1>5. MayBe(r)
    BY <1>1, <1>3 DEF MayBe
<1> HIDE DEF r
<1> QED BY <1>1, <1>2, <1>3, <1>4, <1>5, HandlerStep

\* A wait of uhci_reset that meets its tick (uhci.c:36-43).
LEMMA CommandWaitKeeps ==
    ASSUME MaxDepth \in Nat, ResetWaits \in Nat \ {0}, StackInv, CommandWait
    PROVE  StackInv'
<1> DEFINE r == [Top EXCEPT !.n = Top.n - 1, !.pc = IF Top.n = 1 THEN "return" ELSE Top.pc]
<1>1. /\ stack # <<>> /\ machine = "running" /\ Top.isr = "kbd" /\ Top.pc = "wait"
      /\ intFlag' = intFlag /\ inService' = inService
    BY DEF CommandWait, HandlerAt, pic
<1>2. Top = stack[Len(stack)] /\ Top \in Handler /\ MayBe(Top) /\ intFlag = FALSE
    BY <1>1, TopTyped DEF StackInv
<1>3. Top.n \in 0 .. ResetWaits /\ Top.n > 0
    BY <1>1, <1>2 DEF Handler, MayBe
<1>4. Top.n - 1 \in 0 .. ResetWaits /\ (Top.n # 1 => Top.n - 1 > 0)
    BY <1>3
<1>5. /\ r \in Handler /\ r.isr = Top.isr
      /\ r.pc = IF Top.n = 1 THEN "return" ELSE "wait"
      /\ r.n = Top.n - 1
    BY <1>1, <1>2, <1>4 DEF Handler
<1>6. stack' = [stack EXCEPT ![Len(stack)] = r]
    BY <1>2 DEF CommandWait
<1>7. MayBe(r) /\ r.pc # "iret"
    BY <1>1, <1>4, <1>5 DEF MayBe
<1> HIDE DEF r
<1> QED BY <1>1, <1>2, <1>5, <1>6, <1>7, HandlerStep

\* A command without an effect here.
LEMMA CommandOtherKeeps ==
    ASSUME MaxDepth \in Nat, StackInv, CommandOther PROVE StackInv'
<1> DEFINE r == [Top EXCEPT !.pc = "return"]
<1>1. /\ stack # <<>> /\ machine = "running" /\ Top.isr = "kbd" /\ Top.pc = "command"
      /\ intFlag' = intFlag /\ inService' = inService
    BY DEF CommandOther, HandlerAt, pic
<1>2. Top = stack[Len(stack)] /\ Top \in Handler /\ intFlag = FALSE
    BY <1>1, TopTyped DEF StackInv
<1>3. r \in Handler /\ r.isr = Top.isr /\ r.pc = "return"
    BY <1>2 DEF Handler
<1>4. stack' = [stack EXCEPT ![Len(stack)] = r]
    BY <1>2 DEF CommandOther, Goto
<1>5. MayBe(r)
    BY <1>1, <1>3 DEF MayBe
<1> HIDE DEF r
<1> QED BY <1>1, <1>2, <1>3, <1>4, <1>5, HandlerStep

\* "run" leaves its handler at "return" and pushes the system call's.
LEMMA CommandRunKeeps ==
    ASSUME MaxDepth \in Nat, ResetWaits \in Nat, StackInv, CommandRun PROVE StackInv'
<1> DEFINE r == [Top EXCEPT !.pc = "return"]
           mid == [stack EXCEPT ![Len(stack)].pc = "return"]
           e == Enter("sys", intFlag)
<1>1. /\ stack # <<>> /\ machine = "running" /\ Top.isr = "kbd" /\ Top.pc = "command"
      /\ intFlag' = FALSE /\ inService' = inService /\ stack' = Append(mid, e)
    BY DEF CommandRun, HandlerAt, pic
<1>2. Top = stack[Len(stack)] /\ Top = Last(stack) /\ Top \in Handler /\ MayBe(Top)
      /\ intFlag = FALSE /\ stack \in Seq(Handler)
    BY <1>1, TopTyped DEF StackInv
<1>3. r \in Handler /\ r.isr = "kbd" /\ r.pc = "return"
    BY <1>1, <1>2 DEF Handler
<1>4. mid = [stack EXCEPT ![Len(stack)] = r]
    BY <1>2
<1>5. MayBe(r)
    BY <1>3 DEF MayBe
<1>6. e \in Handler /\ e.isr = "sys" /\ e.pc = "eoi" /\ e.savedIf = FALSE
    <2>1. e = [isr |-> "sys", pc |-> "eoi", savedIf |-> FALSE, cmd |-> NoLine, n |-> 0]
        BY <1>2 DEF Enter
    <2>2. NoLine \in Texts /\ 0 \in 0 .. ResetWaits
        BY DEF Texts
    <2> HIDE DEF e
    <2> QED BY <2>1, <2>2 DEF Handler
<1>7. MayBe(e)
    BY <1>6 DEF MayBe
<1> HIDE DEF r, mid, e
<1>8. Replaced(stack, mid, r)
    BY <1>1, <1>2, <1>3, <1>4, ReplaceTop
<1>9. Sound(mid, FALSE)
    BY <1>1, <1>2, <1>3, <1>5, <1>8, SoundReplaced DEF StackInv
<1>10. Answered(mid, inService)
    BY <1>1, <1>2, <1>3, <1>8, AnsweredReplaced DEF StackInv
<1>11. Len(mid) = Len(stack) /\ mid \in Seq(Handler) /\ Last(mid) = r
    BY <1>1, <1>8, <1>2, Lengths DEF Replaced, Last
<1>12. Len(stack) <= MaxDepth
    <2>1. Len(stack) <= MaxDepth + 1 /\ Len(stack) # MaxDepth + 1
        BY <1>1, <1>2 DEF StackInv, Sound
    <2> QED BY <2>1, <1>2, Lengths
<1>13. Pushed(mid, stack', e)
    BY <1>1, <1>6, <1>11, PushTop
<1>14. Nested(Last(mid), e)
    BY <1>3, <1>6, <1>11 DEF Nested
<1>15. Sound(stack', FALSE)
    BY <1>6, <1>7, <1>9, <1>11, <1>12, <1>13, <1>14, SoundPushed
<1>16. Answered(stack', inService)
    <2>1. 0 \notin inService /\ inService \subseteq {0, 1}
        BY <1>1, <1>2 DEF StackInv, Answered
    <2> QED BY <2>1, <1>10, <1>11, <1>13, AnsweredPushed
<1> QED BY <1>1, <1>15, <1>16 DEF StackInv

\* The CPU takes an interrupt, or faults for want of a gate.
LEMMA DeliverKeeps ==
    ASSUME MaxDepth \in Nat, ResetWaits \in Nat, irr \subseteq Lines, gates \subseteq Handled,
           StackInv, Deliver
    PROVE  StackInv'
<1> DEFINE i == Min(Presented)
           r == Enter(IF i = 0 THEN "timer" ELSE "kbd", TRUE)
<1>1. /\ machine = "running" /\ intFlag /\ Presented # {} /\ Len(stack) < MaxDepth
      /\ inService' = inService \cup {i}
    BY DEF Deliver, IntrReady
<1>2. i \in Presented
    BY <1>1, MinPresented
<1>3. Sound(stack, intFlag) /\ Answered(stack, inService)
    BY <1>1 DEF StackInv
<1>4. CASE i \notin gates
    <2>1. stack' = stack /\ intFlag' = intFlag /\ machine' = "fault"
        BY <1>4 DEF Deliver
    <2> QED BY <2>1, <1>3 DEF StackInv
<1>5. CASE i \in gates
    <2>1. stack' = Append(stack, r) /\ intFlag' = FALSE
        BY <1>5 DEF Deliver
    <2>2. i \in {0, 1} /\ \A j \in inService : i < j
        BY <1>2, <1>5 DEF Presented, Handled
    <2>3. /\ r \in Handler /\ r.isr = (IF i = 0 THEN "timer" ELSE "kbd")
          /\ r.pc = "entry"
        BY DEF Enter, Handler, Texts
    <2>4. MayBe(r)
        BY <2>3 DEF MayBe
    <2> HIDE DEF i, r
    <2>5. stack \in Seq(Handler) /\ inService \subseteq {0, 1}
        BY <1>3 DEF Sound, Answered
    <2>6. Pushed(stack, stack', r) /\ Len(stack) \in Nat
        BY <2>1, <2>3, <2>5, PushTop, Lengths
    <2>7. stack # <<>> => Nested(Last(stack), r)
        BY <1>1, <1>3 DEF Sound, Nested
    <2>8. Sound(stack', FALSE)
        <3>1. Len(stack) <= MaxDepth
            BY <1>1, <2>6
        <3> QED BY <1>1, <1>3, <2>3, <2>4, <2>6, <2>7, <3>1, SoundPushed
    <2>9. Answered(stack', inService')
        <3>1. 0 \notin inService /\ (i = 1 => 0 \notin inService')
            BY <1>1, <2>2, <2>5
        <3>2. /\ inService' \subseteq {0, 1}
              /\ 0 \in inService' => r.isr = "timer" /\ r.pc # "iret"
              /\ 1 \in inService' => 1 \in inService \/ (r.isr = "kbd" /\ r.pc # "iret")
            BY <1>1, <2>2, <2>3, <2>5, <3>1
        <3> QED BY <1>3, <2>5, <2>6, <3>2, AnsweredPushed
    <2> QED BY <2>1, <2>8, <2>9 DEF StackInv
<1> QED BY <1>4, <1>5

\* Steps that leave the stack alone.
LEMMA StackUntouched ==
    ASSUME StackInv, stack' = stack, machine # "fault",
           stack = <<>> \/ intFlag' = intFlag,
           inService' = inService \/ inService' = {}
    PROVE  StackInv'
<1>1. Sound(stack, intFlag) /\ Answered(stack, inService)
    BY DEF StackInv
<1>2. Sound(stack', intFlag')
    BY <1>1 DEF Sound
<1>3. Answered(stack', inService')
    BY <1>1 DEF Answered
<1> QED BY <1>2, <1>3 DEF StackInv

\* Every step keeps the nesting of the handlers.
LEMMA StackInductive ==
    ASSUME MaxDepth \in Nat, ResetWaits \in Nat \ {0}, OthersOK, StackInv, [Next]_vars
    PROVE  StackInv'
<1>1. CASE Deliver
    BY <1>1, DeliverKeeps DEF OthersOK
<1>2. CASE Main
  <2>1. stack' = stack /\ stack = <<>> /\ machine = "running"
        /\ (inService' = inService \/ inService' = {})
      BY <1>2 DEF Main, MainAt, MainPaging, MainLidt, MainRemap, MainMask, MainGates,
                  MainUnmask, MainExceptions, MainSti, MainUhciReset, MainHcReset,
                  MainIdle, pic, cpu
  <2> QED BY <2>1, StackUntouched
<1>3. CASE Handlers
  <2>1. CASE CommandStop
    <3>1. stack' = stack /\ intFlag' = intFlag /\ inService' = inService /\ machine = "running"
        BY <2>1 DEF CommandStop, HandlerAt, pic
    <3> QED BY <3>1, StackUntouched
  <2> QED BY <1>3, <2>1, TimerTickKeeps, EoiStiKeeps, IretKeeps, KbdReadKeeps, KbdReturnKeeps,
             CommandRunKeeps, CommandUsbResetKeeps, CommandWaitKeeps, CommandOtherKeeps
          DEF Handlers, OthersOK
<1>4. CASE TimerEdge \/ DeviceEdge \/ \E k \in Keys : KeyPress(k)
  <2>1. stack' = stack /\ intFlag' = intFlag /\ inService' = inService /\ machine = "running"
      BY <1>4 DEF TimerEdge, DeviceEdge, KeyPress, cpu
  <2> QED BY <2>1, StackUntouched
<1>5. CASE Restart
  <2>1. stack' = <<>> /\ inService' = {}
      BY <1>5 DEF Restart
  <2>2. Sound(<<>>, intFlag')
      BY DEF Sound
  <2>3. Answered(<<>>, {})
      BY DEF Answered
  <2> QED BY <2>1, <2>2, <2>3 DEF StackInv
<1>6. CASE UNCHANGED vars
    BY <1>6 DEF StackInv, vars
<1> QED BY <1>1, <1>2, <1>3, <1>4, <1>5, <1>6 DEF Next, Cpu

-----------------------------------------------------------------------------
\* Every step keeps the types of the rest, initIRQ's masks among them.
LEMMA OthersInductive ==
    ASSUME Period \in Nat \ {0}, ResetWaits \in Nat \ {0}, MaxKeys \in Nat,
           OthersOK, StackInv, [Next]_vars
    PROVE  OthersOK'
<1> USE DEF OthersOK
<1>1. CASE Deliver
  <2>1. irr' \subseteq irr /\ machine' \in {"running", "fault"} /\ intFlag' \in BOOLEAN
      BY <1>1 DEF Deliver
  <2>2. inService' \subseteq Lines
    <3>1. Min(Presented) \in Presented
        BY <1>1, MinPresented DEF Deliver, IntrReady
    <3> QED BY <1>1, <3>1 DEF Deliver, Presented
  <2> QED BY <1>1, <2>1, <2>2 DEF Deliver, shell
<1>2. CASE Main
  <2>1. CASE MainPaging \/ MainLidt \/ MainGates \/ MainExceptions \/ MainIdle
      BY <2>1 DEF MainPaging, MainLidt, MainGates, MainExceptions, MainIdle, MainAt,
                  Handled, pic, cpu, shell
  <2>2. CASE MainRemap \/ MainMask
      BY <2>2 DEF MainRemap, MainMask, MainAt, pic, cpu, shell
  <2>3. CASE MainUnmask
      BY <2>3 DEF MainUnmask, MainAt, Unmask, UnmaskIRQ, pic, cpu, shell
  <2>4. CASE MainSti
      BY <2>4 DEF MainSti, MainAt, pic, cpu, shell
  <2>5. CASE MainUhciReset
      BY <2>5 DEF MainUhciReset, MainAt, pic, cpu, shell
  <2>6. CASE MainHcReset
      BY <2>6 DEF MainHcReset, MainAt, pic, cpu, shell
  <2> QED BY <1>2, <2>1, <2>2, <2>3, <2>4, <2>5, <2>6 DEF Main
<1>3. CASE Handlers
  <2>1. CASE TimerTick
      BY <2>1 DEF TimerTick, HandlerAt, pic, shell
  <2>2. CASE EoiSti
      BY <2>2 DEF EoiSti, HandlerAt, shell
  <2>3. CASE Iret
    <3>1. Top \in Handler
        BY <2>3, TopTyped DEF StackInv, Iret, HandlerAt
    <3>2. intFlag' \in BOOLEAN
        BY <2>3, <3>1 DEF Iret, Handler
    <3> QED BY <2>3, <3>2 DEF Iret, HandlerAt, pic, shell
  <2>4. CASE KbdRead
      BY <2>4 DEF KbdRead, HandlerAt, pic, Texts
  <2>5. CASE KbdReturn
      BY <2>5 DEF KbdReturn, HandlerAt, pic, Texts
  <2>6. CASE CommandRun \/ CommandUsbReset \/ CommandWait \/ CommandStop \/ CommandOther
    <3>1. CASE CommandRun \/ CommandUsbReset \/ CommandOther
        BY <3>1 DEF CommandRun, CommandUsbReset, CommandOther, HandlerAt, pic, shell
    <3>2. CASE CommandWait
        BY <3>2 DEF CommandWait, HandlerAt, pic, shell
    <3>3. CASE CommandStop
        BY <3>3 DEF CommandStop, HandlerAt, pic, shell
    <3> QED BY <2>6, <3>1, <3>2, <3>3
  <2> QED BY <1>3, <2>1, <2>2, <2>3, <2>4, <2>5, <2>6 DEF Handlers
<1>4. CASE TimerEdge \/ DeviceEdge
    BY <1>4 DEF TimerEdge, DeviceEdge, cpu, shell, Lines
<1>5. ASSUME NEW k \in Keys, KeyPress(k) PROVE OthersOK'
    BY <1>5 DEF KeyPress, cpu, Lines
<1>6. CASE Restart
  <2>1. 0 \in 0 .. ResetWaits /\ 0 \in 0 .. Period - 1
      OBVIOUS
  <2> QED BY <1>6, <2>1 DEF Restart, Texts
<1>7. CASE UNCHANGED vars
    BY <1>7 DEF vars
<1> QED BY <1>1, <1>2, <1>3, <1>4, <1>5, <1>6, <1>7 DEF Next, Cpu

-----------------------------------------------------------------------------
\* What the masks let through while there are no gates, and after it.
GateInv ==
    QuietRemap =>
        /\ machine # "fault"
        /\ mainPc \in {"paging", "lidt", "remap", "gates", "unmask"} => imr = 0 .. 15
        /\ mainPc = "mask" => irr = {}
        /\ mainPc \notin {"paging", "lidt", "remap", "mask", "gates"} => gates = Handled
        /\ mainPc \in {"exceptions", "sti", "uhciReset", "hcReset", "idle"} => 2 \in imr

\* What the PIC presents has a gate: before initIRQ everything is masked but
\* between the ICWs and the masks, after it the slave's cascade (idt.c:215-218).
LEMMA PresentedHaveGates ==
    ASSUME QuietRemap, OthersOK, GateInv
    PROVE  Presented \subseteq gates
<1>1. CASE mainPc \in {"paging", "lidt", "remap", "gates", "unmask"}
  <2>1. irr \subseteq {0, 1, 9} /\ imr = 0 .. 15
      BY <1>1 DEF OthersOK, GateInv, Lines
  <2>2. 0 \in 0 .. 15 /\ 1 \in 0 .. 15 /\ 9 \in 0 .. 15
      OBVIOUS
  <2> QED BY <2>1, <2>2, Zenon DEF Presented
<1>2. CASE mainPc = "mask"
    BY <1>2 DEF GateInv, Presented
<1>3. CASE mainPc \in {"exceptions", "sti", "uhciReset", "hcReset", "idle"}
  <2>1. 2 \in imr /\ gates = {0, 1}
      BY <1>3 DEF GateInv, Handled
  <2>2. \A i \in Presented : i \in Lines /\ i < 8
      BY <2>1 DEF OthersOK, Presented
  <2> QED BY <2>1, <2>2 DEF Lines
<1> QED BY <1>1, <1>2, <1>3 DEF OthersOK

\* Every step keeps what the masks let through within the gates.
LEMMA GateInductive ==
    ASSUME OthersOK, GateInv, [Next]_vars
    PROVE  GateInv'
<1> SUFFICES ASSUME QuietRemap PROVE GateInv'
    BY DEF GateInv
<1> USE DEF GateInv
<1>1. CASE Deliver
  <2>1. Min(Presented) \in gates
      BY <1>1, MinPresented, PresentedHaveGates DEF Deliver, IntrReady, OthersOK
  <2>2. machine' = "running" /\ irr' \subseteq irr
      BY <1>1, <2>1 DEF Deliver
  <2> QED BY <1>1, <2>2 DEF Deliver
<1>2. CASE Main
  <2>1. CASE MainPaging \/ MainLidt \/ MainGates \/ MainExceptions \/ MainIdle
      BY <2>1 DEF MainPaging, MainLidt, MainGates, MainExceptions, MainIdle, MainAt, pic, cpu
  <2>2. CASE MainRemap \/ MainMask
      BY <2>2 DEF MainRemap, MainMask, MainAt
  <2>3. CASE MainUnmask
      BY <2>3 DEF MainUnmask, MainAt, Unmask, UnmaskIRQ
  <2>4. CASE MainSti \/ MainUhciReset \/ MainHcReset
      BY <2>4 DEF MainSti, MainUhciReset, MainHcReset, MainAt, pic
  <2> QED BY <1>2, <2>1, <2>2, <2>3, <2>4 DEF Main
<1>3. CASE Handlers
  <2>1. UNCHANGED <<mainPc, imr, gates, irr>> /\ machine' # "fault"
      BY <1>3 DEF Handlers, TimerTick, EoiSti, Iret, KbdRead, KbdReturn, CommandRun,
                  CommandUsbReset, CommandWait, CommandStop, CommandOther, HandlerAt, pic
  <2> QED BY <2>1
<1>4. CASE TimerEdge \/ DeviceEdge
    BY <1>4 DEF TimerEdge, DeviceEdge, NoEdgeNow, cpu
<1>5. ASSUME NEW k \in Keys, KeyPress(k) PROVE GateInv'
    BY <1>5 DEF KeyPress, NoEdgeNow, cpu
<1>6. CASE Restart
    BY <1>6 DEF Restart
<1>7. CASE UNCHANGED vars
    BY <1>7 DEF vars
<1> QED BY <1>1, <1>2, <1>3, <1>4, <1>5, <1>6, <1>7 DEF Next, Cpu

-----------------------------------------------------------------------------
\* The boot loader's hand-over satisfies the invariant.
LEMMA InitInv == ConstantsAssumption /\ Init => OthersOK /\ StackInv /\ GateInv
<1> SUFFICES ASSUME Period \in Nat \ {0}, ResetWaits \in Nat \ {0}, MaxKeys \in Nat, MaxDepth \in Nat, Init
             PROVE  OthersOK /\ StackInv /\ GateInv
    BY DEF ConstantsAssumption
<1>1. OthersOK
  <2>1. 0 \in 0 .. ResetWaits /\ 0 \in 0 .. Period - 1 /\ 0 \in 0 .. MaxKeys
      OBVIOUS
  <2> QED BY <2>1 DEF Init, OthersOK, Texts
<1>2. StackInv
  <2>1. Sound(<<>>, FALSE)
      BY DEF Sound
  <2>2. Answered(<<>>, {})
      BY DEF Answered
  <2> QED BY <2>1, <2>2 DEF Init, StackInv
<1>3. GateInv
    BY DEF Init, GateInv
<1> QED BY <1>1, <1>2, <1>3

\* The invariant holds in every reachable state.
LEMMA Invariant == Spec => [](OthersOK /\ StackInv /\ GateInv)
<1>1. Init => OthersOK /\ StackInv /\ GateInv
    BY InitInv, ConstantsAssumption
<1>2. OthersOK /\ StackInv /\ GateInv /\ [Next]_vars => (OthersOK /\ StackInv /\ GateInv)'
  <2>1. Period \in Nat \ {0} /\ ResetWaits \in Nat \ {0} /\ MaxKeys \in Nat /\ MaxDepth \in Nat
      BY ConstantsAssumption DEF ConstantsAssumption
  <2> QED BY <2>1, StackInductive, OthersInductive, GateInductive
<1> QED BY <1>1, <1>2, PTL DEF Spec

\* Handlers, lines and counters keep their types, and no more handlers than
\* the bound and one system call are ever active.
THEOREM TypeCorrect == Spec => []TypeOK
<1>1. OthersOK /\ StackInv => TypeOK
    BY ElementOfSeq DEF OthersOK, StackInv, Sound, TypeOK
<1> QED BY <1>1, Invariant, PTL

\* No interrupt is taken through a vector that initIRQ (idt.c:204-251) has not
\* set a gate for, if none arrives between ICW4 and the masks (idt.c:79-83).
THEOREM GatesReady == ASSUME QuietRemap PROVE Spec => []GateReady
<1>1. GateInv => GateReady
    BY DEF GateInv, GateReady
<1> QED BY <1>1, Invariant, PTL

\* No line is left in service without a handler that will send the
\* end-of-interrupt for it (idt.c:180, 200; keyboard.c:211), unless an interrupt
\* was taken without a gate.
THEOREM LinesAnswered == Spec => [](GateReady => NoStuckLine)
<1>1. OthersOK /\ StackInv => (GateReady => NoStuckLine)
    BY DEF StackInv, Answered, GateReady, NoStuckLine, Unacknowledged, Last
<1> QED BY <1>1, Invariant, PTL

\* So no line is ever left so, under the same condition as GatesReady: the end
\* of the system call takes the keyboard's place, never the timer's.
THEOREM LinesAlwaysAnswered == ASSUME QuietRemap PROVE Spec => []NoStuckLine
<1> QED BY GatesReady, LinesAnswered, PTL

\* No timer handler interrupts another before its increment (idt.c:199).
THEOREM TimerOnce == Spec => []TimerNotReentered
<1>1. StackInv => TimerNotReentered
  <2> SUFFICES ASSUME StackInv PROVE TimerNotReentered
      OBVIOUS
  <2> DEFINE T == {h \in 1 .. Len(stack) : stack[h].isr = "timer" /\ stack[h].pc = "entry"}
  <2>1. T \subseteq {Len(stack)}
      BY Lengths DEF StackInv, Sound, Nested
  <2>2. IsFiniteSet({Len(stack)}) /\ Cardinality({Len(stack)}) = 1
      BY FS_Singleton
  <2>3. Cardinality(T) <= 1
      BY <2>1, <2>2, FS_Subset
  <2> QED BY <2>3 DEF TimerNotReentered
<1> QED BY <1>1, Invariant, PTL
=============================================================================
