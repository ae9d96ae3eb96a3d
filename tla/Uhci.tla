-------------------------------- MODULE Uhci --------------------------------
(***************************************************************************)
(* uhci_init (drivers/usb/host/uhci.c), with the host controller, the      *)
(* commands "usb reset" and "lspci", whose handler interrupts it, and the  *)
(* timer's ticks.  A register is the set of the bits that are one in it.   *)
(*                                                                         *)
(* Every write is of 32 bits, whatever its name says (kernel/io.c): it     *)
(* writes the register and, with zeros, the one behind it.                 *)
(***************************************************************************)
EXTENDS Pci, Timer

CONSTANTS
    Period,         \* wait() waits for a multiple of this many ticks: 18
    Rounds,         \* of a reset: 5
    Tries,          \* looks of a transfer at the status: 10000
    Frames,         \* addresses kmalloc may return; {}: none
    DescSizes,      \* what the descriptor read into may hold: length, packet size
    TdRoom,         \* length of the array td: 10
    MaxCommands,    \* bound: commands typed
    MaxPlugs        \* bound: times the port's device changes

ASSUME UhciAssumption ==
    /\ Period \in Nat \ {0} /\ Rounds \in Nat \ {0} /\ Tries \in Nat
    /\ Frames \subseteq SUBSET (0 .. 31)
    /\ DescSizes \subseteq Nat \X Nat
    /\ TdRoom \in Nat /\ TdRoom >= 10
    /\ MaxCommands \in Nat /\ MaxPlugs \in Nat

VARIABLES
    hc,             \* the controller: its registers
    after,          \* its status after a reset: stopped, or nothing
    reset,          \* it resets itself
    pc, step,       \* of uhci_init
    io,             \* the port it has found: the controller's, or another
    count,          \* rounds left, looks left
    frame,          \* what kmalloc returned for the schedule
    val,            \* the port's register when it was read
    tick,           \* kernel.tick modulo Period, while someone waits for it
    td,             \* the transfer descriptors, and their packet size
    disturbed,      \* history: "lspci" ran during the search
    commands, plugs

vars == <<hc, after, reset, pc, step, io, count, frame, val, tick, td, disturbed,
          commands, plugs, pciVars, timerVars>>

Bits == 0 .. 15
USBCMD == 0
USBSTS == 2
USBINTR == 4
FRNUM == 6
FRBASEADD == 8          \* and 10
SOFMOD == 12
PORTSC1 == 16
PORTSC2 == 18
Registers == {USBCMD, USBSTS, USBINTR, FRNUM, FRBASEADD, FRBASEADD + 2, SOFMOD, PORTSC1, PORTSC2}
Run == 0
HcReset == 1
Global == 2
Done == 0
Halted == 5

-----------------------------------------------------------------------------
(* The controller.  While "lspci" runs, which takes no notice of it, it    *)
(* and the clocks stand still: what they do then, they can do after it.    *)

PowerOn(ports) == [r \in Registers |-> IF r = SOFMOD THEN {6}
                                       ELSE IF r = USBSTS THEN after
                                       ELSE IF r \in {PORTSC1, PORTSC2} THEN ports[r]
                                       ELSE {}]

\* A port's enable bit wants a device; its change bits are cleared by a one.
PortWrite(p, v) ==
    LET ReadOnly == {0, 1, 3, 4, 5, 7, 8}
        w == IF 0 \in p THEN v ELSE v \ {2}
    IN  ((p \intersect ReadOnly) \union (w \ ReadOnly)) \ (v \intersect {1, 3})

\* A word written to a register: hc and reset after it.
WordWrite(s, r, v) ==
    CASE r \notin Registers -> s
      [] r = USBCMD /\ Global \in v -> [s EXCEPT !.hc = PowerOn(s.hc), !.reset = FALSE]
      [] r = USBCMD /\ Global \notin v ->
            [s EXCEPT !.hc[r] = v, !.reset = @ \/ HcReset \in v,
                      !.hc[USBSTS] = IF Run \in s.hc[r] \ v THEN @ \union {Halted} ELSE @]
      [] r = USBSTS -> [s EXCEPT !.hc[r] = @ \ v]
      [] r \in {PORTSC1, PORTSC2} -> [s EXCEPT !.hc[r] = PortWrite(@, v)]
      [] OTHER -> [s EXCEPT !.hc[r] = v]

\* outl.
Outl(s, r, v) ==
    WordWrite(WordWrite(s, r, v \intersect Bits), r + 2, {b - 16 : b \in v \ Bits})

\* One write, or two, if the port is the controller's; nobody else takes them.
Becomes(s) == IF io = "hc" THEN hc' = s.hc /\ reset' = s.reset
              ELSE UNCHANGED <<hc, reset>>
Now == [hc |-> hc, reset |-> reset]
Write(r, v) == Becomes(Outl(Now, r, v))
WriteBoth(r, v, s, w) == Becomes(Outl(Outl(Now, r, v), s, w))

\* A port without a device reads as ones.
In(r) == IF io = "hc" THEN hc[r] ELSE Bits

\* A running controller completes something, or stops at an error in its
\* schedule.
ControllerStep ==
    /\ Run \in hc[USBCMD] /\ ~reset /\ ~Listing
    /\ \/ hc' = [hc EXCEPT ![USBSTS] = @ \union {Done}]
       \/ hc' = [hc EXCEPT ![USBSTS] = @ \union {4, Halted}, ![USBCMD] = @ \ {Run}]
    /\ UNCHANGED <<after, reset, pc, step, io, count, frame, val, tick, td, disturbed,
                   commands, plugs, pciVars, timerVars>>

\* It has reset itself.
ControllerReset ==
    /\ reset /\ ~Listing
    /\ reset' = FALSE
    /\ hc' = PowerOn(hc)
    /\ UNCHANGED <<after, pc, step, io, count, frame, val, tick, td, disturbed,
                   commands, plugs, pciVars, timerVars>>

\* A device is plugged in, or removed.
Plug ==
    /\ plugs < MaxPlugs /\ ~Listing
    /\ plugs' = plugs + 1
    /\ hc' = [hc EXCEPT ![PORTSC1] =
                 IF 0 \in @ THEN (@ \ {0, 2}) \union {1} ELSE @ \union {0, 1}]
    /\ UNCHANGED <<after, reset, pc, step, io, count, frame, val, tick, td, disturbed,
                   commands, pciVars, timerVars>>

-----------------------------------------------------------------------------
(* uhci_init.  The main thread stands still while a handler runs. *)

driver == <<io, count, frame, val, tick, td, disturbed>>
controller == <<hc, after, reset>>

Init ==
    /\ PciInit /\ TimerInit
    /\ after \in {{}, {Halted}}
    /\ hc \in {PowerOn([r \in Registers |-> {7} \union ports]) : ports \in {{}, {0, 1}}}
    /\ reset = FALSE
    /\ pc = "timer" /\ step = 0
    /\ io = "none" /\ count = 0 /\ frame = {} /\ val = {} /\ tick = 0
    /\ td = [packet |-> 0, chain |-> <<>>]
    /\ disturbed = FALSE
    /\ commands = 0 /\ plugs = 0

Main(p) == pc = p /\ ~Listing /\ ~delaying
Goto(p) == pc' = p /\ step' = 0

SetupTimer ==
    /\ Main("timer")
    /\ Calibrate
    /\ Goto("find")
    /\ UNCHANGED <<controller, driver, commands, plugs, pciVars>>

(* find_pci_device: the vendor, the class and the port of each function in *)
(* turn, each read in two steps.                                           *)

Fields == << "vendor", "uhci", "port" >>
Turn == << (step \div 6) \div (LastFunction + 1), (step \div 6) % (LastFunction + 1) >>
Field == Fields[1 + (step % 6) \div 2]

\* Variant of NextTurn: the functions of a device are not looked at.
NextTurnSlot == (Turn[1] + 1) * 6 * (LastFunction + 1)
NextTurn == (step \div 6 + 1) * 6

FindAddress ==
    /\ Main("find")
    /\ Turn \in Addresses
    /\ step % 2 = 0
    /\ address' = Turn
    /\ step' = step + 1
    /\ UNCHANGED <<pc, controller, driver, commands, plugs, bus, scan, calls, listed, complete, overflow, timerVars>>

\* What a read returns is the register last asked for, whoever asked.
FindRead ==
    /\ Main("find")
    /\ step % 2 = 1
    /\ LET f == Function(bus, address)
       IN  CASE Field = "vendor" /\ ~f.vendor -> step' = NextTurn /\ UNCHANGED <<pc, io>>
             [] Field = "vendor" /\ f.vendor -> step' = step + 1 /\ UNCHANGED <<pc, io>>
             [] Field = "uhci" /\ ~f.uhci -> step' = NextTurn /\ UNCHANGED <<pc, io>>
             [] Field = "uhci" /\ f.uhci -> step' = step + 1 /\ UNCHANGED <<pc, io>>
             [] Field = "port" ->
                   /\ io' = IF address \in First THEN "hc" ELSE "other"
                   /\ Goto("reset")
    /\ UNCHANGED <<controller, count, frame, val, tick, td, disturbed, commands, plugs,
                   pciVars, timerVars>>

FindNothing ==
    /\ Main("find")
    /\ Turn \notin Addresses
    /\ Goto("idle")
    /\ UNCHANGED <<controller, driver, commands, plugs, pciVars, timerVars>>

(* Resets.  wait() looks for a tick that is a multiple of Period; what the *)
(* tick is when it starts is anything.                                     *)

Waiting == pc \in {"resetWait", "hcWait"}
BeginWait(p) == Goto(p) /\ tick' \in 0 .. Period - 1
Waited(p) == Main(p) /\ tick = 0 /\ tick' = 0

ResetOn ==
    /\ Main("reset")
    /\ Write(USBCMD, {Global})
    /\ BeginWait("resetWait")
    /\ UNCHANGED <<after, io, count, frame, val, td, disturbed, commands, plugs, pciVars, timerVars>>

ResetOff ==
    /\ Waited("resetWait")
    /\ Write(USBCMD, {})
    /\ count' = (count + 1) % Rounds
    /\ Goto(IF count' = 0 THEN "check" ELSE "reset")
    /\ UNCHANGED <<after, io, frame, val, td, disturbed, commands, plugs, pciVars, timerVars>>

CheckReset ==
    /\ Main("check")
    /\ IF In(USBCMD) = {} /\ In(USBSTS) = {} /\ In(SOFMOD) = {6}
       THEN WriteBoth(USBSTS, 0 .. 7, USBCMD, {HcReset}) /\ BeginWait("hcWait")
       ELSE Goto("idle") /\ UNCHANGED <<hc, reset, tick>>
    /\ UNCHANGED <<after, io, count, frame, val, td, disturbed, commands, plugs, pciVars, timerVars>>

\* Variant of Schedule: the frame number is not set again before the start.
ScheduleLate ==
    << <<FRBASEADD, frame>>, <<SOFMOD, {6}>>, <<USBINTR, {}>>, <<USBSTS, {6}>>,
       <<USBCMD, {7, 6, Run}>>, <<FRNUM, {}>> >>

\* Variant of Schedule: interrupts for errors are left on.
ScheduleLoud ==
    << <<FRBASEADD, frame>>, <<FRNUM, {}>>, <<SOFMOD, {6}>>, <<USBSTS, {6}>>,
       <<USBINTR, {0, 1, 2, 3}>>, <<USBCMD, {7, 6, Run}>> >>

\* What is written to configure the controller and start it.
Schedule ==
    << <<FRBASEADD, frame>>, <<FRNUM, {}>>, <<SOFMOD, {6}>>, <<USBINTR, {}>>,
       <<USBSTS, {6}>>, <<USBCMD, {7, 6, Run}>> >>

\* A frame for the schedule, or none: that is not looked at.
Allocate ==
    /\ Waited("hcWait")
    /\ frame' \in Frames
    /\ Goto("configure")
    /\ UNCHANGED <<controller, io, count, val, td, disturbed, commands, plugs, pciVars, timerVars>>

Configure ==
    /\ Main("configure")
    /\ Write(Schedule[step + 1][1], Schedule[step + 1][2])
    /\ IF step + 1 < Len(Schedule) THEN pc' = pc /\ step' = step + 1 ELSE Goto("port")
    /\ UNCHANGED <<after, driver, commands, plugs, pciVars, timerVars>>

(* uhci_port_present and uhci_port_reset, step by step: a read, a write of *)
(* what was read with some bits kept and some set, a delay, or a test that *)
(* ends it.                                                                *)

Get == [op |-> "read"]
Put(keep, set) == [op |-> "write", keep |-> keep, set |-> set]
Pause == [op |-> "delay"]
Test(bits, one) == [op |-> "test", bits |-> bits, one |-> one]

PortPresent ==
    << Get, Test({7}, TRUE), Get, Put(Bits \ {7}, {}), Get, Put(Bits, {7}),
       Get, Test({7}, TRUE), Get, Put(Bits, {1, 3}), Get, Test({1, 3}, FALSE) >>
PortReset ==
    << Get, Put(Bits, {9}), Pause, Get, Put({0, 4, 5, 7} \union 10 .. 15, {}), Pause,
       Get, Put(Bits, {0, 1}), Put(Bits, {0, 2}), Pause, Get, Put(Bits, 0 .. 3), Pause, Get >>
PortProgram == PortPresent \o PortReset

PortStep ==
    /\ Main("port")
    /\ step < Len(PortProgram)
    /\ LET it == PortProgram[step + 1]
       IN  /\ val' = IF it.op = "read" THEN In(PORTSC1) ELSE val
           /\ IF it.op = "write"
              THEN Write(PORTSC1, (val \intersect it.keep) \union it.set)
              ELSE UNCHANGED <<hc, reset>>
           /\ IF it.op = "delay" THEN Delay ELSE UNCHANGED timerVars
           /\ IF it.op = "test" /\ (val \intersect it.bits # {}) # it.one
              THEN Goto("idle") ELSE pc' = pc /\ step' = step + 1
    /\ UNCHANGED <<after, io, count, frame, tick, td, disturbed, commands, plugs, pciVars>>

PortDone ==
    /\ Main("port")
    /\ step = Len(PortProgram)
    /\ Goto("address")
    /\ val' = {}
    /\ UNCHANGED <<controller, io, count, frame, tick, td, disturbed, commands, plugs, pciVars, timerVars>>

(* The transfers: their descriptors are built on the stack, and never      *)
(* copied to where the controller would find them.                         *)

\* A descriptor: link is the index of the next one, 0 ends the chain; its
\* bytes go to or come from the place from on.
Descriptor(link, from, len) == [link |-> link, from |-> from, len |-> len]
SetAddressChain == << Descriptor(2, 0, 8), Descriptor(0, 0, 0) >>

\* Variant of DataCount: one more fits.
DataCountNine(size, packet) ==
    IF size = 0 THEN 0
    ELSE IF packet = 0 \/ size > 9 * packet THEN 9
    ELSE (size + packet - 1) \div packet

\* The number of descriptors for size bytes in packets.
DataCount(size, packet) ==
    IF size = 0 THEN 0
    ELSE IF packet = 0 \/ size > 8 * packet THEN 8
    ELSE (size + packet - 1) \div packet

DescriptorChain(size, packet) ==
    LET n == DataCount(size, packet)
        rest(k) == size - (k - 1) * packet
        data(k) == Descriptor(k + 2, 8 * k, IF rest(k) <= packet THEN rest(k) ELSE packet)
    IN  << Descriptor(2, 0, 8) >> \o [k \in 1 .. n |-> data(k)]
        \o << Descriptor(0, 0, 0) >>

\* Each transfer clears the status first, then looks for the interrupt.
SetAddress ==
    /\ Main("address")
    /\ td' = [packet |-> 8, chain |-> SetAddressChain]
    /\ Write(USBSTS, {Done})
    /\ count' = Tries
    /\ Goto("addressLook")
    /\ UNCHANGED <<after, io, frame, val, tick, disturbed, commands, plugs, pciVars, timerVars>>

GetDescriptor ==
    /\ Main("descriptor")
    /\ \E d \in DescSizes :
          td' = [packet |-> d[2], chain |-> DescriptorChain(d[1], d[2])]
    /\ Write(USBSTS, {Done})
    /\ count' = Tries
    /\ Goto("descriptorLook")
    /\ UNCHANGED <<after, io, frame, val, tick, disturbed, commands, plugs, pciVars, timerVars>>

Looking == pc \in {"addressLook", "descriptorLook"} /\ ~Listing /\ ~delaying

\* Variant of LookAgain: it looks once more than it has tries.
LookOnceMore ==
    /\ Looking
    /\ Done \notin In(USBSTS) /\ count >= 0
    /\ count' = count - 1
    /\ Delay
    /\ UNCHANGED <<controller, pc, step, io, frame, val, tick, td, disturbed, commands, plugs, pciVars>>

\* Variant of LookAgain: it looks until something is there.
LookForever ==
    /\ Looking
    /\ Done \notin In(USBSTS)
    /\ Delay
    /\ UNCHANGED <<controller, pc, step, driver, commands, plugs, pciVars>>

LookAgain ==
    /\ Looking
    /\ Done \notin In(USBSTS) /\ count > 0
    /\ count' = count - 1
    /\ Delay
    /\ UNCHANGED <<controller, pc, step, io, frame, val, tick, td, disturbed, commands, plugs, pciVars>>

\* The time is up, or there is an interrupt, which it takes back.  Either is
\* a failure: the descriptors it looks at then are those it has built, active.
TransferEnd ==
    /\ Looking
    /\ Done \in In(USBSTS) \/ count = 0
    /\ IF count = 0 THEN UNCHANGED <<hc, reset>> ELSE Write(USBSTS, {Done})
    /\ Goto(IF pc = "addressLook" THEN "descriptor" ELSE "idle")
    /\ UNCHANGED <<after, io, count, frame, val, tick, td, disturbed, commands, plugs, pciVars, timerVars>>

-----------------------------------------------------------------------------
(* What happens meanwhile: ticks, and commands, once interrupts are on.    *)

Tick ==
    /\ Waiting /\ ~Listing
    /\ tick' = (tick + 1) % Period
    /\ UNCHANGED <<controller, pc, step, io, count, frame, val, td, disturbed, commands, plugs,
                   pciVars, timerVars>>

CounterStep ==
    /\ ~Listing
    /\ TscStep
    /\ UNCHANGED <<controller, pc, step, driver, commands, plugs, pciVars>>
DelayOver ==
    /\ ~Listing
    /\ DelayEnd
    /\ UNCHANGED <<controller, pc, step, driver, commands, plugs, pciVars>>

Command ==
    /\ commands < MaxCommands
    /\ pc # "timer" /\ ~Listing
    /\ commands' = commands + 1 /\ plugs' = plugs

\* "lspci", during the search or when uhci_init is done: in between the two
\* share nothing.
CommandList ==
    /\ Command
    /\ pc \in {"find", "idle"}
    /\ ListStart
    /\ disturbed' = (disturbed \/ pc = "find")
    /\ UNCHANGED <<controller, pc, step, io, count, frame, val, tick, td, timerVars>>

\* "usb reset", if the tick it waits for is the one it finds: else it waits
\* for ever, with interrupts off.
CommandReset ==
    /\ Command
    /\ Waiting => tick = 0
    /\ WriteBoth(USBCMD, {Global}, USBCMD, {})
    /\ UNCHANGED <<after, pc, step, driver, pciVars, timerVars>>

List ==
    /\ ListNext
    /\ UNCHANGED <<controller, pc, step, driver, commands, plugs, timerVars>>

DriverStep ==
    \/ SetupTimer \/ FindAddress \/ FindRead \/ FindNothing
    \/ ResetOn \/ CheckReset \/ Configure \/ PortStep \/ PortDone
    \/ SetAddress \/ GetDescriptor \/ LookAgain \/ TransferEnd
Next ==
    \/ DriverStep \/ ResetOff \/ Allocate \/ DelayOver
    \/ ControllerStep \/ ControllerReset \/ Plug
    \/ Tick \/ CounterStep
    \/ CommandList \/ CommandReset \/ List

\* The processor goes on, and so do the ticks and the counter.  A loop that
\* looks at one of them looks far oftener than it changes: it does not miss
\* for ever what comes again and again.
Fairness ==
    /\ WF_vars(DriverStep) /\ WF_vars(List)
    /\ WF_vars(Tick) /\ WF_vars(CounterStep)
    /\ SF_vars(ResetOff) /\ SF_vars(Allocate) /\ SF_vars(DelayOver)

Spec == Init /\ [][Next]_vars /\ Fairness

-----------------------------------------------------------------------------
TypeOK ==
    /\ hc \in [Registers -> SUBSET Bits] /\ reset \in BOOLEAN
    /\ pc \in {"timer", "find", "reset", "resetWait", "check", "hcWait", "configure", "port", "address",
               "addressLook", "descriptor", "descriptorLook", "idle"}
    /\ step \in Nat
    /\ io \in {"none", "hc", "other"}
    /\ count \in 0 .. (IF pc \in {"reset", "resetWait"} THEN Rounds - 1 ELSE Tries)
    /\ val \subseteq Bits
    /\ tick \in 0 .. Period - 1
    /\ {disturbed, delaying, complete, overflow} \subseteq BOOLEAN
    /\ commands \in 0 .. MaxCommands /\ plugs \in 0 .. MaxPlugs
    /\ scan \in 0 .. Slots /\ Len(calls) <= StackRoom

\* The search ends at the first controller (pci.c:93-128), or finds nothing
\* when there is none, if no "lspci" comes between asking for a register and
\* reading it.
FindsFirst ==
    /\ pc \in {"timer", "find"} => io = "none"
    /\ pc \notin {"timer", "find"} /\ ~disturbed => io = (IF First = {} THEN "none" ELSE "hc")

\* A running controller has its interrupts off, for which the kernel has no
\* handler (uhci.c:294): also though every write reaches a second register.
QuietController == Run \in hc[USBCMD] => hc[USBINTR] = {}

\* Nobody writes the schedule of a running controller (uhci.c:291-293): the
\* writes that reach a second register do not reach those.
ScheduleKept ==
    [][(Run \in hc[USBCMD] \intersect hc'[USBCMD]) =>
         \A r \in {FRNUM, FRBASEADD, FRBASEADD + 2, SOFMOD} : hc'[r] = hc[r]]_vars

\* The descriptors fit the array, and following the links from the first
\* visits them in order to the last; packets of a low-speed device, of eight
\* bytes at most, have a place of their own before the queue (uhci.c:189-211),
\* whatever the memory read as a descriptor holds.
ChainSound ==
    LET c == td.chain
    IN  /\ Len(c) <= TdRoom
        /\ \A i \in DOMAIN c : c[i].link = IF i = Len(c) THEN 0 ELSE i + 1
        /\ td.packet <= 8 =>
              \A i \in DOMAIN c :
                 /\ c[i].from + c[i].len <= 128
                 /\ \A k \in i + 1 .. Len(c) - 1 : c[i].from + c[i].len <= c[k].from

\* uhci_init ends, whatever the controller, the device and the clocks do
\* (uhci.c:145-155, timer.c:61-71), unless the stack overflows.
InitEnds == <>(pc = "idle" \/ overflow)
=============================================================================
