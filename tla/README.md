# argaldOS in TLA+

argaldOS is a single-CPU x86-64 hobby kernel booted by Limine: a bitmap
allocator for physical memory, four-level paging, an IDT with three interrupt
handlers, a shell that runs inside the keyboard handler, ATA disk and FAT32
readers, an ELF loader, PCI enumeration and a UHCI driver. These modules model
its parts, TLC checks them on small instances and TLAPS proves theorems about
them for all values of the constants. Paths below are relative to `src/src/`.

## Inventory

| component | state | operations | interacts with |
|---|---|---|---|
| physical memory manager, `kernel/pmm.c` | `kernel.largestSect`, the bitmap | `initPMM`, `kmalloc`, `kfree` | called by paging, IDT, UHCI, ELF, shell; from the main thread and from handlers |
| interrupts, `arch/x64/idt.c`, `interrupt.asm` | IDT, PIC masks, `kernel.tick` | `initIDT`, `remapPIC`, `unmask*`, the handlers | PIC, timer chip, keyboard controller, every interrupted thread |
| boot, `kernel/main.c` | `kernel` | `kernel_start` | calls all initialisers in order |
| keyboard, `drivers/keyboard.c` | `wholeInput`, `inScanf`, shift and caps | `isr_keyboard`, `convertScancode` | runs the shell inside the handler |
| shell, `kernel/shell.c` | none of its own | `process_command` | PMM, FAT32, ELF, PCI, UHCI |
| paging, `kernel/paging.c` | the page tables, `early_page_tables` | `init_paging`, `map_range`, `map_page`, `unmap_page` | PMM; ELF calls `map_page` |
| ELF loader, `kernel/elf.c` | none | `parse_*`, `read_elf` | PMM, paging, the loaded code |
| FAT32, `fs/fat/fat32.c` | `fat.ebpb` | `read_ebpb`, `get_next_cluster`, `read_file` | disk |
| ATA disk, `drivers/disk.c` | the drive's registers, a static sector buffer | `accessDisk`, `wait_ready`, `identify*` | the drive |
| UHCI, `drivers/usb/host/uhci.c` | controller registers, `kernel.usb_device` | `uhci_reset`, `uhci_init`, ports, descriptors | the tick, PMM, PCI, delays |
| PCI, `drivers/pci/pci.c` | none | `find_pci_device`, `get_pci_device_config` | configuration space |
| timer, `kernel/timer.c` | `cpu_hz` | `setup_timer`, `_delay` | time stamp counter |
| terminal, `drivers/terminal/` | grid, queue of changes, cursor, margins, escape state | `flanterm_putchar`, `double_buffer_flush` | `printk`; the frame buffer |
| helpers, GDT/TSS, panic, serial | constants, output | | |

What is hard: handlers nest, because each sends its end-of-interrupt and sets
the interrupt flag before its `iret`; the shell's commands, and everything
they call, run inside the keyboard handler with interrupts off; the allocator
has no lock; two waits depend on the tick; addresses are narrowed to `int`,
`uint32_t` and `uint8_t` in many places; polling loops have no bound.
`PROJECT.json` lists each such hazard at its line. Nothing is persisted, so
there is no crash recovery; a reset boots again from nothing.

What makes each part correct: the allocator never gives a frame to two callers
nor its own bitmap to anyone, stays inside the region it chose and halts only
when full; no interrupt line is left in service, no vector without a gate is
taken, ticks and keys keep being served; a mapped page translates to the frame
it was mapped to; reading a file returns the clusters of its chain in order
and ends; a sector read returns that sector; a program's sections lie where it
says and not in the kernel's tables; the screen shows what was printed, and the
line on it is the one Enter runs; the USB driver finds the first controller,
changes nothing of one that runs, and ends whatever it finds; a command returns.

## Modules

| module | models |
|---|---|
| `FrameAllocator` | what a frame allocator promises (abstract) |
| `Pmm` | `kernel/pmm.c` |
| `MCPmm` | memory maps for TLC |
| `PmmProofs` | theorems about `Pmm` |
| `Interrupts` | `idt.c`, the boot order of `main.c`, `isr_keyboard`, the commands of `shell.c`, the waits of `uhci.c` |
| `MCInterrupts` | its instance for TLC |
| `InterruptsProofs` | theorems about `Interrupts` |
| `AddressSpace` | what page tables promise (abstract) |
| `Paging` | `kernel/paging.c` |
| `MCPaging` | boot layouts for TLC |
| `PagingLemmas` | lemmas about pages, walks and the making of tables |
| `PagingProofs` | theorems about `Paging` |
| `BlockDevice` | what a disk driver promises (abstract) |
| `Disk` | `drivers/disk.c` and the drive |
| `Fat32` | `fs/fat/fat32.c`, on `Disk` |
| `Exec` | `kernel/elf.c` and the command `exec`: `Fat32` and `Paging` together |
| `MCExec` | volumes and programs for TLC |
| `ExecProofs` | theorems about `Exec`, `Fat32` and `Disk` |
| `Framebuffer` | `flanterm/backends/fb.c`, as functions on the terminal's state |
| `Flanterm` | `flanterm/flanterm.c`, as a function of a state and a byte |
| `Console` | `drivers/keyboard.c` key by key, on `Flanterm` |
| `MCConsole` | a small screen and what is typed on it |
| `ConsoleProofs` | theorems about `Console`, `Flanterm` and `Framebuffer` |
| `Pci` | `drivers/pci/pci.c` |
| `Timer` | `kernel/timer.c` |
| `Uhci` | `drivers/usb/host/uhci.c`, `kernel/io.c` and the controller, on `Pci` and `Timer` |
| `MCUhci` | buses, frames and descriptors for TLC |
| `UhciProofs` | theorems about `Uhci` and `Pci` |
| `NatSets` | least member and induction, for sets of natural numbers |

Operators whose comment says "Variant of" are the definitions with one
plausible mistake put in. No specification uses them; each is there to show that a
property notices the mistake (`PROJECT.json`, "mutants").

### Pmm

Addresses are counted in frames of 4096 bytes; the boot loader aligns usable
entries to frames. The bitmap is the set of bits that read as 1. A *context*
is a nesting level: 0 is the main thread, higher ones are handlers, and a
context runs only when no context above it is inside the allocator.

| action | code |
|---|---|
| `ScanEntry` | one iteration of `initPMM`'s loop, pmm.c:52-63 |
| `ReserveBitmap` | the rest of `initPMM`, 64-93 |
| `KmallocCall`, `Probe`, `Mark`, `OutOfMemory` | `kmalloc`, 98-132: entry, one bit test (113), the OR that sets the bit (115), the halt (129) |
| `Kfree` | `kfree`, 134-148; a context frees only what it holds |

A compiled `kmalloc` tests the bit and sets it by separate instructions (one
read and one read-modify-write), so an interrupt may come between; the store
itself, an OR with memory, cannot be split on one CPU. `ToInt` is the
narrowing to the `int` fields of `kernel.largestSect`; when it changes the
address, `kmalloc` reads as a bitmap whatever that memory holds, which is any
set of bits.

`owned` and `disturbed` are history variables. `disturbed` records the two
ways a handler can spoil a call it interrupted: it marks the very bit the call
had tested, or it frees a bit that the call's scan has passed.

Run `pmm` (five memory maps, bitmap pages of 3 bits, one handler over the main
thread). The maps hold a region below 1MB, reserved entries, growing,
shrinking and equal regions, bitmaps of one and two pages, and no region at
all. One level of handlers suffices for every pair of interrupted and
interrupting call; bitmaps of 3 and 6 bits are full within the run, so that
the halt is reached. It checks:

- `PicksLargestRegion`: the scan's choice, whatever the order of the map;
- `OnlyTheWindowShares`: frames are exclusive, and their bits set, unless a
  handler hit the window between test and set: there is no other race;
- `BitmapNeverGranted`: the bitmap's own frames are never handed out;
- `HaltsOnlyWhenFull`: the machine is stopped only with every bit set;
- `ImplementsFrameAllocator`: until a disturbance, refinement of
  `FrameAllocator`, with the bits beyond the marked ones as its pool.

Three runs show where the code departs from its comments: `pmm_shared_frame`
(the window itself), `pmm_inside_region` (bits past the end of the region are
handed out: the scan goes over whole bitmap pages), `pmm_bitmap_base` (a
region at 2GB or above).

### Interrupts

One CPU, a stack of active handlers, and the main thread under it. A pending
interrupt is taken before the next instruction whenever the flag is set, which
`IntrReady` states and every step of code excludes. The PIC, the timer, the
keyboard controller and other devices are external and behave as the code's
use of them assumes: edge-triggered request bits, fixed priority, masks, the
non-specific end-of-interrupt, and the first initialisation word clearing
masks and requests. IRQ 9 stands for the devices nobody handles.

`Main...` are the boot steps in the order of `kernel_start`: `init_paging`
ends with `sti` (paging.c:430), `initIDT` loads an empty table, `remapPIC`
initialises and then masks, `initIRQ` sets gates, unmasks and sets the
exceptions' gates, `kernel_start` executes `sti` and calls `uhci_init`. The
handlers are `TimerTick` (`taskSwitchISR`), `KbdRead`, the `Command...`
actions and `KbdReturn` (`isr_keyboard` with `process_command` in it), and the
common end `EoiSti`, `Iret`. Text is typed a word at a time; two words in a row
are `"garbled"`, an unknown command. `run` executes `int 0x80`; its handler
acknowledges the PIC and enables interrupts inside the keyboard handler, so a
further key may nest. Everything else a command does is left out here.

Run `interrupts` (commands run, usb reset, exit and panic, four keys, three handlers
deep plus a system call, `kernel.tick` modulo 2 and one wait per reset where
the code has 18 and 5) checks:

- `NoStuckLine`: no line stays in service without a handler that will
  acknowledge it, although the system call acknowledges a line it is not the
  handler of;
- `GateReady`: no vector without a gate is taken;
- `TimerNotReentered`: the read-modify-write of the tick is never nested;
- `BootCompletes`, `TickAdvances`, `KeysServed`: liveness, see below.

Four keys are F1, a word, Enter and one more, which arrives at any point of the
command; a modulus of 2 already has a tick at which `wait` must go on waiting.

Assumptions of this run, as constants: no edge arrives between ICW4 and the
masks (`QuietRemap`; run `interrupts_boot` drops it and the machine resets
through an IDT without gates), and no key is pressed before the PIC is
initialised (`EarlyKeys`; the controller would keep such a key and the PIC
forget its edge). `init_paging` is assumed to return, although
`paging_next_instruction` shows that it cannot. `interrupts_commands`
shows that `usb reset` hangs in `wait`, because no tick can come inside the
handler; the liveness properties except that state (`WaitsInHandler`).

Fairness: `WF(Cpu)`, because a CPU executes instructions; `WF(TimerEdge)`,
because the timer chip free-runs; `WF(Restart)`, because a triple fault resets
the machine. Nothing is assumed of keys and devices. `polled` makes an edge
wait until interrupted code has run at least one step since the last one:
ticks are 55 ms apart, and without it the model would allow a machine that
does nothing but take timer interrupts.

### Paging

Addresses are counted in pages and frames. The tables are a tree of `Levels`
levels of `Fanout` entries; `mem` holds the present entries of all of them. A
walk uses the low digits of the page number only (`WalkPages`), while numbers
wrap at `VirtPages`: an address such as `hhdm + code_start` overflows 64 bits and loses
what is above bit 47, and so it does here. 2MB are one lowest table.

| definition | code |
|---|---|
| `AllocRoot` | the PML4, paging.c:100-106 |
| `Regions` | the six calls of `map_range`, 111-133; `Direct` is the physical address it picks, 51 |
| `CodeAndStack` | the entries written by hand, 138-277: a frame equal to the page's own number, at the page and at `hhdm` above it |
| `EarlyTables` | the two loops over `early_page_tables`, 279-352 |
| `MapNext` | one entry with the tables it lacks (`Grow`), 61-89 and its copies |
| `LoadCr3` | 425-433 |
| `MapPage`, `UnmapPage` | 503-568 with `get_next_table`; each level read at `table + hhdm` (463), which faults where the new tables do not map it; `unmap_page` writes at the bare physical address (567) |
| `Kmalloc` | frames that others take |

`kmalloc` hands out ascending frames (nobody calls `kfree`) and never returns
NULL: it halts the machine, which `Pmm` models. The bound `MaxMaps` on the
frames handed out is in the guards of `MapNext`, `MapPage` and `Kmalloc`.
Access flags and the TLB are left out. `Path` and `Grow` are recursive functions over the
levels, and so is `Span`, the number of pages below an entry, so that the
theorems hold for any number of levels.

Run `paging`: two levels of 16 entries, four layouts, three pages to map, 17
frames. Free memory starts below 2MB, above it, or right after the stack's
page, so that the stack's loop overwrites the PML4's direct-map entry; the
code is in the first page of its 2MB or a later one; the stack's window of
three pages crosses the border of its 2MB or not. With free memory at frame 2
all three pages can be mapped, while tables made later pass frame 16, where
the low 2MB end, and are out of reach. `MaxEarly` of 2 fills
`early_page_tables`, which holds 256 in the code. It checks:

- `TableTree`: no table is shared, made twice or handed out as a page;
- `RootReachable`, `LowWindow`: no later range, with its wrapped addresses,
  overwrites the PML4's own mapping or the first 2MB. The layouts keep the
  stack away from the first 2MB, since the boot loader takes it from the top of
  memory; a stack that starts there would have its loop (219-275) spoil the
  direct map of that memory, as it spoils that of the stack's own pages;
- `FaultOnlyBeyondWindow`: `map_page` and `unmap_page` fault on a table only
  when `kmalloc` has passed the first 2MB;
- `ImplementsAddressSpace`: every step changes the translation of at most one
  page.

`paging_next_instruction`: the code's own page does not lead to the code when
CR3 is loaded, so at this commit the machine resets there. What follows
`LoadCr3` in the model is what `map_page` and `unmap_page` do on these tables
once the boot gets past that point.

### Exec, Fat32, Disk

`exec` is one command that goes through five parts of the kernel: it reads a
file of the root directory of the FAT32 volume into a buffer on the stack,
looks for an ELF header, gives each of the program's sections a frame, maps and
copies it, and calls the entry point. It runs inside the keyboard handler with
interrupts off, so nothing comes in between but the drive.

| action | code |
|---|---|
| `Boot` | `initPMM`, `init_paging` (main.c:141-142), as in `Paging` |
| `ReadFile`, `ReadBoot` | `read_ebpb`, fat32.c:129-172 |
| `ReadDirectory` | `parse_directory_sector` and `read_file` to line 106 |
| `ReadData`, `ReadFat` | the loop of `read_file`, 107-127, with `get_next_cluster` |
| `Poll` (`Driver`), `Serve` (`Drive`) | a look at the status, disk.c:137-150; the drive |
| `ReadElf`, `SkipSection`, `LoadSection`, `Jump` | `read_elf`, elf.c:135-175 |

A sector's contents are its number: nobody writes the disk. A volume is a
record of what its boot sector, directory and FAT say. The arithmetic keeps the
code's widths, scaled: the offset into the FAT and the number of its sector are
a `uint8_t` (`FatEntry`, `FatSector`), the sectors per FAT lose their high half,
a directory entry's cluster is joined from two signed characters
(`LowCluster`). `Transfer` reads what the drive holds; a read of a sector
beyond the drive never ends. The stack behind the buffer is undefined, so that
a section header found there is any of `Garbage`. FAT entries are given without
their upper four bits, which `get_next_cluster` masks (fat32.c:28).

A section's address is a page and, in sectors, what lies before it in the page
(`within`). `map_page` ignores the second, and the copy goes to the start of the
frame: `LoadSection` does not look at it, but `SectionsInPlace` does.

Run `exec`: 27 volumes and two boot layouts. Bytes have 32 values, so that one
byte of offset reaches eight entries of the FAT; the buffer has four sectors, a
page three, and the directory's first sector three entries. The volumes hold
chains of one to five clusters (a buffer just full, and overrun), one that goes
round, one that ends in a bad-cluster mark or leaves the first eight entries,
cluster 0, a file behind the directory's first sector, a
label or a directory of the file's name, two sectors a cluster, a FAT or a
reserved area too large for its type, a root directory of fixed size, no
drive, no format, no such sector. The programs have sections that share a page,
are longer than one, wrap at 2^64, start inside a page, go over its end, lie in the kernel's window on low memory, or
need more tables than can be reached; headers inside the buffer and behind it.
It checks:

- `ReadsTheFile`: on a volume of the kind the code is made for (`Plain`), the
  sectors in the buffer are those of the file, by FAT32's own definition, in
  order. `Plain` excludes what the code does not handle, down to the two links
  that `read_file` goes on after (1, and the mark of a bad cluster); the run has
  volumes of those kinds too, and other files or none are read from them;
- `StackKept`: a file that fits the buffer does not write past it;
- `SectionsInPlace`: when the entry point is called, a section whose address is
  the start of a page is found at its address to its end, if every section is on
  its own (`OnItsOwn`): no longer than a page, inside the buffer, on a page that is
  neither another section's nor one through which the kernel writes a frame of
  `kmalloc`'s. Other sections are misplaced, and the property says how: they too
  are found from the start of their page;
- `CopySparesTables`: copies hit a page table only when a section is longer
  than its one frame, even where the program maps over the window the copy
  goes through;
- `ImplementsBlockDevice`: `accessDisk` with its four looks at the status
  refines `BlockDevice`;
- `ExecEnds`: see fairness below.

The misplacement is a fault of the code: `read_elf` says that it maps sections "at
their virtual addresses" (elf.c:145), but `map_page` ignores the low 12 bits of
one (paging.c:512, 545) and the copy starts with the frame (elf.c:163). What the
program expects at 0x401040 it finds at 0x401000, and where a section should go on
over a page's end nothing is mapped. Claimed for every section, `AtItsAddress`
fails on the program `Unaligned` of `MCExec`.

`Exec` extends `Paging`, whose `MapPages` is empty here: `read_elf` maps whatever
page the program names. `ExecTypeOK` includes the type invariants of `Disk` and
`Paging`. Deadlock is not an error: a panic, a fault and a smashed stack are final.

### Console, Flanterm, Framebuffer

`printk` ends in `flanterm_putchar`, a state machine over bytes. The user can
reach more of it than text: the scan code tables hold an escape for Down, a
shift-out for the left GUI key and other control bytes, and the names that
`fat` prints come from the disk. So the whole emulator is here: escapes,
control sequences with their values, margins, colours, character sets, UTF-8,
insert mode, saved states. `Framebuffer` has the grid and the queue: `t.pend`
is `map` with the characters its items hold, `t.queue` their order, `t.shown`
what `plot_char` has drawn. `Write` applies `Putchar`, a byte and the flush
after it, to each byte of a text. Pixels, fonts and the canvas are left out.

`Console` is `isr_keyboard` a key at a time: the modifiers and the tables of
`convertScancode`, `wholeInput`, F1, Enter, Backspace. `Answer` is what a
command leaves on the screen: all that matters is whether it ends the shell
and which bytes it prints. `home` and `tracked` are history variables: the
column behind the last prompt, and whether since then only what a line editor
is for was typed.

Run `console`: a screen of three rows of six columns, tabs of four columns,
five values in a control sequence (16 in the code), four pieces of typing out of
59, with nearly every control sequence and escape. Three rows make
a scroll region with a row outside; six columns are more than the rows, as on
a real screen, so that the comparison of line 799 goes wrong where it does
there; four pieces are a mode, a margin, a text that wraps, and its editing. It
checks:

- `PictureUpToDate`: after every key the screen is the grid with the cursor on
  it, although changes meet older ones of their cell in the queue;
- `QueueBounded`: no byte of any text asked for more items than the queue has
  room for (`overrun` remembers it), whatever was scrolled and erased before the
  flush;
- `RegionSound`: the margins leave a region of two rows, and while it reaches
  the last row the cursor stays on the screen. Below a shorter region it does
  not: `fb.c:799` compares the row with the number of columns;
- `WhatYouSeeRuns`: the characters before the cursor are those Enter runs;
- `EditsInPlace`: editing changes cells of the line only;
- `OutsideRegionKept`: whatever is written without an escape, rows outside the
  scroll region stay, but for those the cursor goes down through. What `fat`
  prints may hold escapes, so that command is excepted.

The handler has the terminal to itself here, as it has when the machine is
idle. While the main thread prints in `uhci_init`, with interrupts on, it does
not: nothing protects the emulator's state, and that is not modelled.

### Uhci, Pci, Timer

`Uhci` is `uhci_init`, in the main thread with interrupts on, and what may
interrupt it: `lspci` and `usb reset`. A register is the set of its bits.

| definition | code |
|---|---|
| `FindAddress`, `FindRead` | `find_pci_device`, pci.c:93-128, each read split at the two ports (80-82) |
| `ListSlot`, `ListFunction`, `ListOthers` | `pci_init`, `get_pci_device_config`, its recursion as a stack of calls |
| `Outl`, `Write`, `WriteBoth` | io.c:4-24: every write is of 32 bits and reaches the register behind it |
| `ResetOn`, `ResetOff`, `CheckReset` | `uhci_reset` and the check after it, uhci.c:45-52, 271-279 |
| `Allocate`, `Configure` | the schedule, 279-296 |
| `PortProgram`, `PortStep` | `uhci_port_present`, `uhci_port_reset`, 58-106 |
| `SetAddress`, `GetDescriptor`, `LookAgain`, `TransferEnd` | the transfers, 109-256 |
| `Calibrate`, `Delay`, `DelayEnd` | `setup_timer`, `_delay`, timer.c:21-71 |
| `ControllerStep`, `ControllerReset`, `Plug`, `TscStep`, `Tick` | the controller, the device, the counter, the timer handler |

What one reads in the model, and checks in no property: the write of `FRNUM`
zeroes the low half of the frame list's address, which was written just
before; the descriptors are built on the stack and never handed to the
controller, so that both transfers see their own descriptors, still active,
and fail; `_delay` ends at its first look, or after the counter's 32 bits have
wrapped; a function other than the first that says its device has several
makes `lspci` call itself until the stack is full; `usb reset` returns only if
the tick is right when it is typed, since it waits with interrupts off.

Run `usb`: two slots of three functions, four buses (empty; a controller behind a
bridge's header; two controllers, one among the functions of a device; a device
whose functions all say that they have several), room for four calls, counters modulo 3, two
rounds of reset and one look per transfer, one command, one change of the
port's device. Three functions are a first, a middle and a last one; four calls
are two more than a sound device needs. It checks:

- `FindsFirst`: the search ends at the first controller, unless an `lspci` came
  during it;
- `ListingSound`: `lspci` shows every function once, and the stack overflows
  only for a function other than the first that says it has others;
- `QuietController`, `ScheduleKept`: the writes that reach a second register
  neither enable interrupts nor change the schedule of a running controller:
  that depends on the order in which uhci.c:291-296 writes;
- `ChainSound`: the chain of descriptors fits its array, is linked in order and
  its data do not overlap, whatever memory is read as a descriptor;
- `InitEnds`: see below.

`lspci` comes during the search or when `uhci_init` is done, since in between
they share nothing, and the controller and the clocks stand still meanwhile.
The write of 32 bits with which `setup_timer` reaches the ports next to 0x43
and 0x61 is left out, and so is `pci_init`'s answer on a machine without PCI.

### Fairness of these runs

`ExecEnds` assumes that the kernel goes on and that a drive which was given a
command serves it; without a drive nothing is claimed. `InitEnds` assumes weak
fairness of the driver's steps, of the ticks and of the counter, and strong
fairness of the three steps that leave a polling loop (`ResetOff`, `Allocate`,
`DelayOver`): such a loop looks thousands of times between two ticks, and
cannot miss a value that comes again and again. Nothing is assumed of the
controller, the device or the user. `console` has no liveness: every key is
one step.

## Proofs

Every theorem is proved for all values of the constants that the named
assumptions allow, from an inductive invariant that is stronger than the
property. TLC checks the same properties on the instances above. A theorem
whose statement needs more than the assumptions names the hypothesis. Where the
runs' instances satisfy it, the MC module supposes it, so that TLC evaluates it:
`LayoutsFit` in `MCPaging`, `VolumesFit` and `MappingsFit` in `MCExec`, `ScreenWide` in
`MCConsole`; run `interrupts` has `QuietRemap` true, and run `pmm` has only regions for which `RegionsFit` holds.

### PmmProofs

For every set of memory maps, bitmap page size, low-memory bound and nesting
depth, from `ConstantsAssumption`:

- `TypeCorrect`: `TypeOK`, with `BootQuiet` (no call before `initPMM` ends);
- `LargestRegion`: `PicksLargestRegion`, from the loop invariant that the
  choice is the largest among the entries scanned so far;
- `WindowIsTheOnlyRace`, `NoEarlyHalt`: from `WindowInv`. The properties are
  not inductive: that a bit set now was clear at the test needs that each call
  between test and set looks at a bit that is still clear or that a
  disturbance was recorded, and that every bit a scan has passed is still set;
- `BitmapSafe`, `Refinement`: under `RegionsFit` (every region the boot loader
  reports lies below 2GB), from `PoolInv`: `largestSect` is the region, the bits
  marked at boot stay set, and a set bit is a boot bit or held by somebody.
  Without `RegionsFit` the two do not hold (`pmm_bitmap_base`).

### InterruptsProofs

For every length of the tick, number of waits, set of commands, number of keys
and depth of nesting:

- `TypeCorrect`: `TypeOK`, and with it the bound on nested handlers;
- `TimerOnce`: `TimerNotReentered`;
- `GatesReady`: `GateReady`, if `QuietRemap`;
- `LinesAnswered`: `NoStuckLine` unless an interrupt was taken without a gate;
  `LinesAlwaysAnswered` joins the two.

`NoStuckLine` looks at one state; what makes it true is how handlers come to lie
on each other. `StackInv` says it: a handler that another one covers has sent
its end-of-interrupt and only its `iret` is left, or it is the keyboard's,
interrupted by the system call of its own command (`Nested`); with a handler on
top that is not at its `iret` the flag is off; line 0 in service has its handler
on top, line 1 one anywhere (`Answered`). The non-specific end-of-interrupt
acknowledges the line of highest priority in service, and `StackInv` is why that
is the timer's own line at the timer's handler, and never the timer's at any
other. `GateInv` follows masks, requests and gates through the boot code.
`QuietRemap` is the hypothesis that no edge arrives between ICW4 and the masks;
`interrupts_boot` shows that without it the theorem is false.

### UhciProofs

For every bus, clock, number of looks, device and port change, from
`UhciAssumption` and `PciAssumption`, where `StackRoom >= 2` says that the stack
holds the call for a function and one more, without which no device with several
functions could be listed:

- `TypeCorrect`; `Quiet`: `QuietController`; `ScheduleStands`: `ScheduleKept`;
- `FirstFound`: `FindsFirst`; `ListingsSound`: `ListingSound`;
- `ChainsSound`: `ChainSound`, for every size and packet length that may be read
  as a descriptor.

`Inv` has a part for each: `HcInv`, that interrupts are off always and that the
controller does not run before its schedule is written, with lemmas on what a
write of 32 bits does to two registers (`OutlEffect`, `WriteEffect`); `DriverOK`;
`FindInv`, that no function of the class lies before the one the search is at
and that the register read is the one that was asked for, unless `lspci` ran;
`PciInv`, that the open calls of `get_pci_device_config` lie in one slot, each
for the function its caller's loop is at (`Nested`), and that the list holds the
functions before the next one, once each, unless a function calls for itself
again (`Endless`); and `ChainSound`, which is inductive. `ScheduleKept` is an
action property: each step from `Inv` satisfies `Kept`.

### ExecProofs

For all volumes, widths and buffer sizes that `FatAssumption` and
`DiskAssumption` allow, and all programs and page tables:

- `FileRead`: `ReadsTheFile`; `StackSafe`: `StackKept`;
- `DriverImplements`: `ImplementsBlockDevice`, if each sector `read_file` may be
  led to fits the 28 bits of a command (`Addressable`). A number that does not
  fit makes the drive return another sector, and the theorem false;
- `ExecTyped`: `ExecTypeOK`; `ProgramInPlace`: `SectionsInPlace`; `TablesSpared`:
  `CopySparesTables`; each on layouts that are `Sane` and have `OwnFrames`: if the
  boot maps the page of one of `kmalloc`'s frames, then to that frame, as its
  direct map and its window on low memory do.

`FatInv`: the driver waits for a sector exactly while `read_file` runs, data are
ready only for the sector asked for, and numbers have their widths. `FollowInv`:
on a plain volume the buffer holds the first sectors of the file and
`current_cluster` is where FAT32 goes on. `FileClusters` is a recursive
definition; the lemmas from `LinksExist` to `PlainFile` say what it is.

`LoadInv` joins the loader to the page tables. `TreeInv` of `PagingProofs` holds
for any page `map_page` is given, `exec`'s included. What a copy hits depends
on where the *kernel's* page of the new frame leads, which a program can change by
naming that page: `Homes` says that it still leads to some frame of `kmalloc`'s,
and `Tame` that this is not a table (`CopyIntoTable`). While every section is on its own it leads to the
frame itself (`Straight`), later sections disturb neither that nor the frames of
earlier ones (`HomesKept`, `PlacedStays`), and so the sections done so far are in
place (`Placed`).

### PagingProofs

For any number of levels, table size, direct map, number of frames and set of
pages, from `ConstantsAssumption` and hypotheses on the layouts:

| theorem | property | under |
|---|---|---|
| `TypeCorrect` | `TypeOK` | `Sane` |
| `TablesFormATree` | `TableTree` | `Sane` |
| `OnePageAtATime` | `ImplementsAddressSpace` | `Sane` |
| `FirstTwoMegabytes` | `LowWindow` | `Sane`, `WindowClear` |
| `FaultsAreBeyondWindow` | `FaultOnlyBeyondWindow` | `Sane`, `WindowClear` |
| `RootStaysReachable` | `RootReachable` | `Sane`, `RootClear` |

`TreeInv` holds together two things. `Tree`: every entry is on some page's walk
(`Owned`), walks stay among the frames handed out (`Within`), and two walks meet
in a table only while their pages agree (`Apart`). `Tame`: no page leads into a
table, but the one whose number is the table's own. Neither is inductive
alone: `unmap_page` writes to the bare physical address of a table
(paging.c:567), wherever that page is mapped, and only `Tame` keeps the write out
of another table. From the tree follows that a step which fills in missing
tables and one entry changes what one page translates to (`GrowIs`, `LeafPut`),
and that is the refinement, step by step. `Window`, `RootKept` and `Noted` (the
frames recorded in `early_page_tables`) are inductive beside `TreeInv`.

`Sane`: frames lie below the pages a walk tells apart, and no boot mapping puts a
frame of `kmalloc`'s at another frame's page or where `map_page` will be asked
for a page. `WindowClear`, `RootClear`: no other boot mapping, and no page of
`map_page`'s, lies on the first 2MB or on the PML4's page, in either space. On the
real machine the direct map starts at 0xffff800000000000, the kernel at
0xffffffff80000000, the loader's stack is at the top of memory while frames go up
from the start of the largest region, and doubly shifted addresses
(`hhdm + code_start`) wrap to pages that belong to neither. A layout in which the
stack lies among the frames is not `Sane`; that one would be mapped over is the
hazard that `RootReachable` is about.

### ConsoleProofs

For every screen of at least two rows, every tab size, number of values in a
control sequence, table of keys, set of scripts and set of labels, from
`ScreenAssumption`, `TerminalAssumption` and `ConsoleAssumption` (the bytes of
keys are below 128):

| theorem | property | under |
|---|---|---|
| `ConsoleTyped` | `TypeOK` | |
| `ScreenUpToDate` | `PictureUpToDate` | |
| `QueueNeverFull` | `QueueBounded` | |
| `RegionKept` | `RegionSound` | |
| `LineEditedInPlace` | `EditsInPlace` | |
| `LineOnScreen` | `WhatYouSeeRuns` | `Rows <= Cols` |
| `OutsideKept` | `OutsideRegionKept` | `Rows <= Cols` |

A step of `Console` writes a text, whose bytes go through the emulator one after
the other, and each may run loops over the cells. The argument follows that
order. *Cells*: `QueueOK`, that the queue has one item for each cell with a
change coming and hence never more than there are cells, is kept by one push,
so by every loop of pushes. *Operations*: `TermOK` adds that margins, cursor,
saved cursor and the parser's numbers are in range; a byte of any kind is a
`Step` that keeps it and leaves the screen to the flush. The margins alone are
not inductive: with a region that reaches the last row the cursor is on the
screen only if the saved one is, which `RestoreState` brings back. *Flush*:
`ScreenOK`, that away from where the cursor was drawn last the picture is the
grid; the flush draws there, at the cursor and what the queue holds, so that the
picture is whole again. *Keys*: `ConsoleInv` has all of it between two keys.

The last three theorems follow the contents of cells (`Content`: in the queue,
or in the grid). `EditorSteps` says what a step is to a line: a character typed,
one rubbed out, a new line, or nothing. While `tracked` holds, no mode is on
(`Plainly`) and the line's characters lie before the cursor (`Echoed`): a
character typed behind the last column may scroll the screen, and then all of
them have moved by a row's cells (`TypedBehind`). `OutsideKept` shows that every
byte outside an escape goes `Downward`: the margins stay, the cursor does not go
up, and no row changes that is neither in the region nor passed.
`Rows <= Cols` is needed by these two: `fb.c:799` compares the row behind a wrap
with the number of columns, and on a screen with fewer columns than rows the
cursor would jump up to the row of that number and write over it.

### Induction

The induction theorems of the library take an operator as parameter, which the
installed provers cannot instantiate. `NatSets` states induction for a *set* of
naturals instead: a set that holds 0 and with each number the next holds all.
That is enough for recursive functions over levels, clusters and ranges, whose
equations the lemmas on `Span`, `Walk`, `Grow`, chains and `Flat` derive. The
console's loops are nine recursive functions with one form, the state after `k`
turns: `TurnsExist` shows once that such a function exists whatever a turn does,
and `BoundedInduction` carries an invariant through it.

### Only model-checked

- Liveness: `BootCompletes`, `TickAdvances`, `KeysServed`, `ExecEnds`,
  `InitEnds`. Fairness and ENABLED are out of TLAPS's reach.
- That the allocator's departures from its comments, the boot's reset and the
  wait in `usb reset` do happen: the runs that expect a violation exhibit them.

## Plan

Done: the allocator, interrupts, the page tables, `exec` down to the disk, the
console down to the frame buffer, USB with PCI and the timer; the proofs above.
Every invariant, action property and refinement that a run checks is also proved.
What could come next, in this order:

1. The line editor that nests in itself after a system call (keyboard.c:173), and
   the emulator interrupted inside a byte (flanterm.c:105): `Interrupts` and
   `Console` together, with the steps of a byte apart.
2. The translation look-aside buffer, for which `map_page` does nothing
   (paging.c:550).

## Not modelled

- `printf.c` (formatting), `limine.c` (a tool of the build), the serial port and
  the debug log, the GDT and the TSS (constants), the register dump of a panic:
  no behaviour over time.
- The disk driver's write branch and `identify*`, `scanf`, `map_at_addr`: nobody calls them. `kfree`, which nobody calls either, is
  in `Pmm`, because exclusivity is about it.
- The translation look-aside buffer, access flags, and a program after its
  entry point is called.
- A line editor that nests in itself, and an emulator interrupted inside a
  byte: see `PROJECT.json`, "hazards".
