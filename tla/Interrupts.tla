----------------------------- MODULE Interrupts -----------------------------
(***************************************************************************)
(* The running kernel seen from its interrupts: the boot code of           *)
(* kernel_start and uhci_init in the main thread, the IDT and the PIC as   *)
(* idt.c programs them, the timer, keyboard and system call handlers, and  *)
(* the shell commands, which process_command runs inside the keyboard      *)
(* handler.                                                                *)
(*                                                                         *)
(* One CPU.  A handler is a record on a stack; the top one runs, the main  *)
(* thread when there is none.  A pending interrupt is taken before the     *)
(* next instruction whenever the interrupt flag is set.  IRQ 0 is the      *)
(* timer, 1 the keyboard, 9 stands for the devices nobody handles: it is a *)
(* line of the slave PIC that the boot code leaves unmasked.               *)
(*                                                                         *)
(* The PIC, the timer chip and the keyboard controller are external; they  *)
(* are modelled from how the code drives them: an edge sets a request bit, *)
(* a request is held back while a line of the same or higher priority is   *)
(* in service, an end-of-interrupt command clears the highest line in      *)
(* service, and the first initialisation word clears masks and requests.   *)
(***************************************************************************)
EXTENDS Naturals, Sequences, SequencesExt, FiniteSetsExt

CONSTANTS
    Period,         \* wait() waits for a multiple of this many ticks: 18
    ResetWaits,     \* waits of one uhci_reset: 5
    Commands,       \* the shell commands that are typed
    MaxKeys,        \* bound: keys pressed
    MaxDepth,       \* bound: handlers on the stack
    EarlyKeys,      \* are keys pressed before the PIC is initialised?
    QuietRemap      \* no edge arrives between ICW4 and the masks (idt.c:79-83)

Handled == {0, 1}                   \* lines with a gate in the IDT
Lines == {0, 1, 9}
NoLine == "empty"
NoKey == "none"
Keys == {"F1", "Enter"} \cup Commands
Texts == Commands \cup {NoLine, "garbled"}

ASSUME ConstantsAssumption ==
    /\ Period \in Nat \ {0}
    /\ ResetWaits \in Nat \ {0}
    /\ Commands \subseteq {"run", "usb reset", "exit", "panic", "reboot", "help"}
    /\ MaxKeys \in Nat
    /\ MaxDepth \in Nat
    /\ EarlyKeys \in BOOLEAN
    /\ QuietRemap \in BOOLEAN

VARIABLES
    machine,        \* "running", "halted" (cli; hlt), "reset", "fault"
    mainPc,         \* where the main thread is
    waits,          \* waits left in the main thread's uhci_reset
    intFlag,        \* the CPU's interrupt flag
    stack,          \* the active handlers, innermost last
    gates,          \* the lines whose gates are in the IDT
    excGates,       \* are the exception gates in the IDT?
    irr, inService, \* the PICs' request and in-service lines
    imr,            \* the lines masked; 2 is the slave's cascade
    tick,           \* kernel.tick modulo Period
    polled,         \* has other code than the timer's run since its last edge?
    kbc,            \* the scan code in the keyboard controller
    inScanf,        \* is the shell open?
    line,           \* wholeInput
    keys            \* keys pressed, up to MaxKeys

cpu == <<machine, mainPc, waits, intFlag, stack, gates, excGates>>
pic == <<irr, inService, imr>>
shell == <<kbc, inScanf, line>>
vars == <<machine, mainPc, waits, intFlag, stack, gates, excGates,
          irr, inService, imr, tick, polled, kbc, inScanf, line, keys>>

Handler == [isr : {"timer", "kbd", "sys"},
            pc : {"entry", "command", "wait", "return", "eoi", "iret"},
            savedIf : BOOLEAN,      \* interrupt flag the iret restores
            cmd : Texts,            \* kbd: the command being processed
            n : 0 .. ResetWaits]    \* kbd: waits left in uhci_reset

Enter(isr, flag) == [isr |-> isr, pc |-> IF isr = "sys" THEN "eoi" ELSE "entry",
                     savedIf |-> flag, cmd |-> NoLine, n |-> 0]

Top == Last(stack)
Goto(pc) == stack' = [stack EXCEPT ![Len(stack)].pc = pc]

-----------------------------------------------------------------------------
(* The hardware. *)

\* Lines the PICs may present: requested, not masked (a slave line also not
\* at the cascade), of higher priority than every line in service.
Presented == {i \in irr \ imr : /\ i < 8 \/ 2 \notin imr
                                /\ \A j \in inService : i < j}

IntrReady == intFlag /\ Presented # {} /\ Len(stack) < MaxDepth

\* The boot loader hands over with interrupts off and every line masked.
Init == /\ machine = "running"
        /\ mainPc = "paging"
        /\ waits = 0
        /\ intFlag = FALSE
        /\ stack = <<>>
        /\ gates = {}
        /\ excGates = FALSE
        /\ irr = {}
        /\ inService = {}
        /\ imr = 0 .. 15
        /\ tick = 0
        /\ polled = TRUE
        /\ kbc = NoKey
        /\ inScanf = FALSE
        /\ line = NoLine
        /\ keys = 0

NoEdgeNow == QuietRemap /\ mainPc = "mask"

\* The timer chip: 55 ms between edges, so that the code the last one
\* interrupted has run since.
TimerEdge ==
    /\ machine = "running"
    /\ ~NoEdgeNow
    /\ 0 \notin irr
    /\ polled
    /\ irr' = irr \cup {0}
    /\ polled' = FALSE
    /\ UNCHANGED <<cpu, inService, imr, tick, shell, keys>>

\* A key: its code goes to the controller, which raises its line.
KeyPress(k) ==
    /\ machine = "running"
    /\ ~NoEdgeNow
    /\ EarlyKeys \/ mainPc \notin {"paging", "lidt", "remap"}
    /\ keys < MaxKeys
    /\ kbc = NoKey
    /\ keys' = keys + 1
    /\ kbc' = k
    /\ irr' = irr \cup {1}
    /\ UNCHANGED <<cpu, inService, imr, tick, polled, inScanf, line>>

DeviceEdge ==
    /\ machine = "running"
    /\ ~NoEdgeNow
    /\ 9 \notin irr
    /\ irr' = irr \cup {9}
    /\ UNCHANGED <<cpu, inService, imr, tick, polled, shell, keys>>

\* The CPU takes the interrupt of highest priority; a vector without a gate
\* is a fault for which there is no gate either.
Deliver ==
    /\ machine = "running"
    /\ IntrReady
    /\ LET i == Min(Presented)
       IN  /\ irr' = irr \ {i}
           /\ inService' = inService \cup {i}
           /\ \/ /\ i \in gates
                 /\ stack' = Append(stack, Enter(IF i = 0 THEN "timer" ELSE "kbd", TRUE))
                 /\ intFlag' = FALSE
                 /\ machine' = machine
              \/ /\ i \notin gates
                 /\ machine' = "fault"
                 /\ UNCHANGED <<stack, intFlag>>
    /\ UNCHANGED <<mainPc, waits, gates, excGates, imr, tick, polled, shell, keys>>

\* After a triple fault or the reboot command the machine boots again.
Restart ==
    /\ machine \in {"reset", "fault"}
    /\ machine' = "running" /\ mainPc' = "paging" /\ waits' = 0
    /\ intFlag' = FALSE /\ stack' = <<>> /\ gates' = {} /\ excGates' = FALSE
    /\ irr' = {} /\ inService' = {} /\ imr' = 0 .. 15
    /\ tick' = 0 /\ polled' = TRUE
    /\ kbc' = NoKey /\ inScanf' = FALSE /\ line' = NoLine
    /\ UNCHANGED keys

-----------------------------------------------------------------------------
(* The main thread runs when no handler is active and no interrupt is due. *)

MainAt(pc) == /\ machine = "running"
              /\ ~IntrReady
              /\ stack = <<>>
              /\ mainPc = pc

\* init_paging loads CR3 between cli and sti (paging.c:427-432), before
\* there is an IDT; initIDT then loads a table with no gate in it.
MainPaging ==
    /\ MainAt("paging")
    /\ intFlag' = TRUE
    /\ mainPc' = "lidt"
    /\ polled' = TRUE
    /\ UNCHANGED <<machine, waits, stack, gates, excGates, pic, tick, shell, keys>>
MainLidt ==
    /\ MainAt("lidt")
    /\ gates' = {}
    /\ mainPc' = "remap"
    /\ polled' = TRUE
    /\ UNCHANGED <<machine, waits, intFlag, stack, excGates, pic, tick, shell, keys>>

\* remapPIC: ICW1 clears the mask and the edges seen; then everything is
\* masked.
MainRemap ==
    /\ MainAt("remap")
    /\ imr' = {}
    /\ irr' = {}
    /\ inService' = {}
    /\ mainPc' = "mask"
    /\ polled' = TRUE
    /\ UNCHANGED <<machine, waits, intFlag, stack, gates, excGates, tick, shell, keys>>
MainMask ==
    /\ MainAt("mask")
    /\ imr' = 0 .. 15
    /\ mainPc' = "gates"
    /\ polled' = TRUE
    /\ UNCHANGED <<machine, waits, intFlag, stack, gates, excGates, irr, inService,
                   tick, shell, keys>>

\* Variant of Unmask: the mask is 0xF8, the cascade open too.
UnmaskCascade(m) == (m \cap (8 .. 15)) \cup (3 .. 7)

\* unmask() writes the master's mask, unmaskIRQ(n) the mask of n's PIC: what
\* was unmasked there before is masked again.
Unmask(m) == (m \cap (8 .. 15)) \cup (2 .. 7)
UnmaskIRQ(m, n) ==
    IF n < 8 THEN (m \cap (8 .. 15)) \cup ((0 .. 7) \ {n % 8})
             ELSE (m \cap (0 .. 7)) \cup ((8 .. 15) \ {8 + (n % 8)})

\* initIRQ: the gates, the masks, and only then the exceptions' gates.
MainGates ==
    /\ MainAt("gates")
    /\ gates' = Handled
    /\ mainPc' = "unmask"
    /\ polled' = TRUE
    /\ UNCHANGED <<machine, waits, intFlag, stack, excGates, pic, tick, shell, keys>>
\* Variant of MainUnmask: the two calls commented out at idt.c:213-214, of
\* which only the last has an effect.
MainUnmaskLastOnly ==
    /\ MainAt("unmask")
    /\ imr' = UnmaskIRQ(UnmaskIRQ(imr, 1), 0)
    /\ mainPc' = "exceptions"
    /\ polled' = TRUE
    /\ UNCHANGED <<machine, waits, intFlag, stack, gates, excGates, irr, inService,
                   tick, shell, keys>>
MainUnmask ==
    /\ MainAt("unmask")
    /\ imr' = UnmaskIRQ(UnmaskIRQ(Unmask(imr), 128), 129)
    /\ mainPc' = "exceptions"
    /\ polled' = TRUE
    /\ UNCHANGED <<machine, waits, intFlag, stack, gates, excGates, irr, inService,
                   tick, shell, keys>>
MainExceptions ==
    /\ MainAt("exceptions")
    /\ excGates' = TRUE
    /\ mainPc' = "sti"
    /\ polled' = TRUE
    /\ UNCHANGED <<machine, waits, intFlag, stack, gates, pic, tick, shell, keys>>

\* kernel_start enables interrupts and calls uhci_init, which resets the
\* controller if find_pci_device finds one.
MainSti ==
    /\ MainAt("sti")
    /\ intFlag' = TRUE
    /\ \/ mainPc' = "uhciReset" /\ waits' = ResetWaits
       \/ mainPc' = "idle" /\ waits' = waits
    /\ polled' = TRUE
    /\ UNCHANGED <<machine, stack, gates, excGates, pic, tick, shell, keys>>

\* One look at the tick in wait().
MainUhciReset ==
    /\ MainAt("uhciReset")
    /\ polled' = TRUE
    /\ waits' = IF tick = 0 THEN waits - 1 ELSE waits
    /\ mainPc' \in IF waits' = 0 THEN {"hcReset", "idle"}    \* "idle": it did not reset
                                 ELSE {mainPc}
    /\ UNCHANGED <<machine, intFlag, stack, gates, excGates, pic, tick, shell, keys>>
MainHcReset ==
    /\ MainAt("hcReset")
    /\ polled' = TRUE
    /\ mainPc' = IF tick = 0 THEN "idle" ELSE mainPc
    /\ UNCHANGED <<machine, waits, intFlag, stack, gates, excGates, pic, tick, shell, keys>>

\* while (1);
MainIdle ==
    /\ MainAt("idle")
    /\ polled' = TRUE
    /\ UNCHANGED <<cpu, pic, tick, shell, keys>>

Main == \/ MainPaging \/ MainLidt \/ MainRemap \/ MainMask
        \/ MainGates \/ MainUnmask \/ MainExceptions \/ MainSti
        \/ MainUhciReset \/ MainHcReset \/ MainIdle

-----------------------------------------------------------------------------
(* The handlers. *)

HandlerAt(isr, pc) == /\ machine = "running"
                      /\ ~IntrReady
                      /\ stack # <<>>
                      /\ Top.isr \in isr
                      /\ Top.pc = pc

AnyIsr == {"timer", "kbd", "sys"}

\* Variant of TimerTick: the counter wraps one tick late.
TimerTickLateWrap ==
    /\ HandlerAt({"timer"}, "entry")
    /\ tick' = IF tick = Period THEN 0 ELSE tick + 1
    /\ Goto("eoi")
    /\ UNCHANGED <<machine, mainPc, waits, intFlag, gates, excGates, pic, polled,
                   shell, keys>>

\* Variant of TimerTick: acknowledgement and sti before the increment.
TimerTickEoiFirst ==
    /\ HandlerAt({"timer"}, "entry")
    /\ \/ /\ 0 \in inService
          /\ inService' = inService \ {0}
          /\ intFlag' = TRUE
          /\ UNCHANGED <<stack, tick>>
       \/ /\ 0 \notin inService
          /\ tick' = (tick + 1) % Period
          /\ Goto("iret")
          /\ UNCHANGED <<inService, intFlag>>
    /\ UNCHANGED <<machine, mainPc, waits, gates, excGates, irr, imr, polled,
                   shell, keys>>

\* taskSwitchISR
TimerTick ==
    /\ HandlerAt({"timer"}, "entry")
    /\ tick' = (tick + 1) % Period
    /\ Goto("eoi")
    /\ UNCHANGED <<machine, mainPc, waits, intFlag, gates, excGates, pic, polled,
                   shell, keys>>

\* Variant of EoiSti: the timer's handler does not acknowledge.
EoiStiNotTimer ==
    /\ HandlerAt(AnyIsr, "eoi")
    /\ inService' = IF inService = {} \/ Top.isr = "timer" THEN inService
                    ELSE inService \ {Min(inService)}
    /\ intFlag' = TRUE
    /\ Goto("iret")
    /\ polled' = (polled \/ Top.isr # "timer")
    /\ UNCHANGED <<machine, mainPc, waits, gates, excGates, irr, imr, tick, shell, keys>>

\* The end that every handler has, the system call's too: 0x20 to the master
\* PIC and sti, with interrupts off until then, and the iret of an interrupt
\* function some instructions later.
EoiSti ==
    /\ HandlerAt(AnyIsr, "eoi")
    /\ inService' = IF inService = {} THEN {} ELSE inService \ {Min(inService)}
    /\ intFlag' = TRUE
    /\ Goto("iret")
    /\ polled' = (polled \/ Top.isr # "timer")
    /\ UNCHANGED <<machine, mainPc, waits, gates, excGates, irr, imr, tick, shell, keys>>
\* Variant of Iret: the flags are not restored, as after a plain return.
IretFlagLost ==
    /\ HandlerAt(AnyIsr, "iret")
    /\ intFlag' = FALSE
    /\ stack' = Front(stack)
    /\ polled' = (polled \/ Top.isr # "timer")
    /\ UNCHANGED <<machine, mainPc, waits, gates, excGates, pic, tick, shell, keys>>
Iret ==
    /\ HandlerAt(AnyIsr, "iret")
    /\ intFlag' = Top.savedIf
    /\ stack' = Front(stack)
    /\ polled' = (polled \/ Top.isr # "timer")
    /\ UNCHANGED <<machine, mainPc, waits, gates, excGates, pic, tick, shell, keys>>

\* Variant of KbdRead: an early return for F1, past the acknowledgement.
KbdReadEarlyReturn ==
    /\ HandlerAt({"kbd"}, "entry")
    /\ kbc' = NoKey
    /\ IF kbc = "Enter" /\ inScanf
       THEN stack' = [stack EXCEPT ![Len(stack)].pc = "command",
                                   ![Len(stack)].cmd = line]
       ELSE Goto(IF kbc = "F1" THEN "iret" ELSE "eoi")
    /\ inScanf' = (inScanf \/ kbc = "F1")
    /\ line' = IF kbc \in Commands /\ inScanf
               THEN IF line = NoLine THEN kbc ELSE "garbled"
               ELSE line
    /\ polled' = TRUE
    /\ UNCHANGED <<machine, mainPc, waits, intFlag, gates, excGates, pic, tick, keys>>

\* isr_keyboard up to the command: Enter starts it, F1 opens the shell, text
\* goes to the line when the shell is open.
KbdRead ==
    /\ HandlerAt({"kbd"}, "entry")
    /\ kbc' = NoKey
    /\ IF kbc = "Enter" /\ inScanf
       THEN stack' = [stack EXCEPT ![Len(stack)].pc = "command",
                                   ![Len(stack)].cmd = line]
       ELSE Goto("eoi")
    /\ inScanf' = (inScanf \/ kbc = "F1")
    /\ line' = IF kbc \in Commands /\ inScanf
               THEN IF line = NoLine THEN kbc ELSE "garbled"
               ELSE line
    /\ polled' = TRUE
    /\ UNCHANGED <<machine, mainPc, waits, intFlag, gates, excGates, pic, tick, keys>>

\* process_command.  "run" calls code that makes a system call: its gate
\* clears the flag, which is clear already.
CommandRun ==
    /\ HandlerAt({"kbd"}, "command")
    /\ Top.cmd = "run"
    /\ stack' = Append([stack EXCEPT ![Len(stack)].pc = "return"], Enter("sys", intFlag))
    /\ intFlag' = FALSE
    /\ polled' = TRUE
    /\ UNCHANGED <<machine, mainPc, waits, gates, excGates, pic, tick, shell, keys>>
CommandUsbReset ==
    /\ HandlerAt({"kbd"}, "command")
    /\ Top.cmd = "usb reset"
    /\ stack' = [stack EXCEPT ![Len(stack)].pc = "wait", ![Len(stack)].n = ResetWaits]
    /\ polled' = TRUE
    /\ UNCHANGED <<machine, mainPc, waits, intFlag, gates, excGates, pic, tick, shell, keys>>
CommandWait ==
    /\ HandlerAt({"kbd"}, "wait")
    /\ tick = 0
    /\ stack' = [stack EXCEPT ![Len(stack)].n = @ - 1,
                              ![Len(stack)].pc = IF Top.n = 1 THEN "return" ELSE @]
    /\ polled' = TRUE
    /\ UNCHANGED <<machine, mainPc, waits, intFlag, gates, excGates, pic, tick, shell, keys>>
\* int 3 ends in kpanic, or in a triple fault while it has no gate; reboot
\* takes the table away and ends in one.
CommandStop ==
    /\ HandlerAt({"kbd"}, "command")
    /\ Top.cmd \in {"panic", "reboot"}
    /\ machine' = IF Top.cmd = "panic" /\ excGates THEN "halted" ELSE "reset"
    /\ polled' = TRUE
    /\ UNCHANGED <<mainPc, waits, intFlag, stack, gates, excGates, pic, tick, shell, keys>>
CommandOther ==
    /\ HandlerAt({"kbd"}, "command")
    /\ Top.cmd \notin {"run", "usb reset", "panic", "reboot"}
    /\ Goto("return")
    /\ polled' = TRUE
    /\ UNCHANGED <<machine, mainPc, waits, intFlag, gates, excGates, pic, tick, shell, keys>>

\* The keyboard handler after process_command.
KbdReturn ==
    /\ HandlerAt({"kbd"}, "return")
    /\ inScanf' = (Top.cmd # "exit")
    /\ line' = NoLine
    /\ stack' = [stack EXCEPT ![Len(stack)].pc = "eoi", ![Len(stack)].cmd = NoLine]
    /\ polled' = TRUE
    /\ UNCHANGED <<machine, mainPc, waits, intFlag, gates, excGates, pic, tick, kbc, keys>>

Handlers == \/ TimerTick \/ EoiSti \/ Iret
            \/ KbdRead \/ KbdReturn
            \/ CommandRun \/ CommandUsbReset \/ CommandWait
            \/ CommandStop \/ CommandOther

Cpu == Deliver \/ Main \/ Handlers

Next == \/ Cpu
        \/ TimerEdge
        \/ \E k \in Keys : KeyPress(k)
        \/ DeviceEdge
        \/ Restart

\* The CPU does not stop and the timer chip keeps running.
Fairness == WF_vars(Cpu) /\ WF_vars(TimerEdge) /\ WF_vars(Restart)
Spec == Init /\ [][Next]_vars /\ Fairness

-----------------------------------------------------------------------------
TypeOK ==
    /\ machine \in {"running", "halted", "reset", "fault"}
    /\ mainPc \in {"paging", "lidt", "remap", "mask", "gates", "unmask", "exceptions",
                   "sti", "uhciReset", "hcReset", "idle"}
    /\ waits \in 0 .. ResetWaits
    /\ intFlag \in BOOLEAN
    /\ \A h \in 1 .. Len(stack) : stack[h] \in Handler
    /\ Len(stack) <= MaxDepth + 1
    /\ gates \subseteq Handled /\ excGates \in BOOLEAN
    /\ irr \subseteq Lines /\ inService \subseteq Lines /\ imr \subseteq 0 .. 15
    /\ tick \in 0 .. Period - 1
    /\ polled \in BOOLEAN
    /\ kbc \in Keys \cup {NoKey}
    /\ inScanf \in BOOLEAN
    /\ line \in Texts
    /\ keys \in 0 .. MaxKeys

\* Handlers of line i that have not sent their end-of-interrupt.
Unacknowledged(i) ==
    {h \in 1 .. Len(stack) : /\ stack[h].isr = (IF i = 0 THEN "timer" ELSE "kbd")
                             /\ stack[h].pc # "iret"}

\* A line is never left in service without a handler that will still send an
\* end-of-interrupt for it (idt.c:180, 200; keyboard.c:211), in spite of the
\* one the system call sends: such a line would be silent for ever.
NoStuckLine == \A i \in inService : Unacknowledged(i) # {}

\* No interrupt is taken through a vector that has no gate (idt.c:204-251):
\* the masks that unmask and unmaskIRQ leave behind let through only the
\* lines that initIRQ has set gates for.
GateReady == machine # "fault"

\* kernel.tick = kernel.tick + 1 (idt.c:199) never runs inside another timer
\* handler that has yet to do it, however the handlers nest.
TimerNotReentered ==
    Cardinality({h \in 1 .. Len(stack) : stack[h].isr = "timer" /\ stack[h].pc = "entry"}) <= 1

\* The shell command that waits for a tick with interrupts off (uhci.c:36-52
\* from shell.c:94).
WaitsInHandler == \E h \in 1 .. Len(stack) : stack[h].pc = "wait"

Up == mainPc \in {"uhciReset", "hcReset", "idle"} /\ machine = "running"

\* The boot code gets through its waits (uhci.c:36-43): a multiple of Period
\* is not missed by the loop that looks for it.
BootCompletes ==
    (mainPc = "paging") ~> (mainPc = "idle" \/ machine # "running" \/ WaitsInHandler)

\* Once the kernel is up the tick goes on: no nesting of handlers and no
\* command but "usb reset" stops it.
TickAdvances ==
    \A t \in 0 .. Period - 1 :
        (Up /\ tick = t) ~> (tick # t \/ ~Up \/ WaitsInHandler)

\* A key pressed after the PIC was initialised is read (keyboard.c:160-164),
\* unless "usb reset" holds the CPU.
KeysServed ==
    (kbc # NoKey) ~> (kbc = NoKey \/ machine # "running" \/ WaitsInHandler)

-----------------------------------------------------------------------------
\* What texts of the repository say and the code does not do.

\* shell.c:117 "usb reset  USB bus global reset", uhci.c:46 "Waiting for host
\* controller to reset": the command waits, resets and is over.
InCommand == \E h \in 1 .. Len(stack) : stack[h].pc \in {"command", "wait"}
CommandsReturn == InCommand ~> (~InCommand \/ machine # "running")

\* main.c:146 "Enabling interrupts", said when every gate is set: the boot
\* code before it is not interrupted, so that no vector without a gate is
\* taken.  paging.c:430 sets the flag long before.
BootUninterrupted ==
    mainPc \in {"paging", "lidt", "remap", "mask", "gates", "unmask", "exceptions", "sti"}
        => stack = <<>> /\ machine # "fault"
=============================================================================
