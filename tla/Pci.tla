-------------------------------- MODULE Pci --------------------------------
(***************************************************************************)
(* The PCI configuration space (drivers/pci/pci.c) and the two walks over  *)
(* it: the "lspci" command, which calls itself for the functions of a      *)
(* device and runs in the keyboard handler, with interrupts off; and the   *)
(* search for a controller, which reads a register in two steps, between   *)
(* which the handler may run.  A slot stands for a bus and a slot.         *)
(***************************************************************************)
EXTENDS Integers, Sequences, FiniteSets

CONSTANTS
    Slots,          \* 256 * 32
    LastFunction,   \* 7
    StackRoom,      \* calls of get_pci_device_config that fit on the stack
    Buses           \* what may be plugged in: functions of addresses

Addresses == (0 .. Slots - 1) \X (0 .. LastFunction)
Absent == [vendor |-> FALSE, uhci |-> FALSE, header |-> "ones"]
\* A function of a bus; an absent one reads as ones.
Function(bus, a) == IF a \in DOMAIN bus THEN bus[a] ELSE Absent

ASSUME PciAssumption ==
    /\ Slots \in Nat \ {0} /\ LastFunction \in Nat /\ StackRoom \in Nat \ {0, 1}
    /\ \A bus \in Buses :
          /\ DOMAIN bus \subseteq Addresses
          /\ \A a \in DOMAIN bus :
                bus[a] \in [vendor : {TRUE}, uhci : BOOLEAN, header : {"single", "multi", "bridge"}]

VARIABLES
    bus,
    address,        \* what the address register was last set to
    scan,           \* "lspci": the next slot; Slots: it is not running
    calls,          \* the calls of get_pci_device_config, i their next function
    listed,         \* what it has printed
    complete,       \* it has returned
    overflow        \* the stack is full: a fault that no handler returns from

pciVars == <<bus, address, scan, calls, listed, complete, overflow>>

PciInit ==
    /\ bus \in Buses
    /\ address = <<0, 0>>
    /\ scan = Slots
    /\ calls = <<>>
    /\ listed = <<>>
    /\ complete = FALSE
    /\ overflow = FALSE

\* Whether the handler is running, and all else stands still.
Listing == scan < Slots \/ calls # <<>> \/ overflow

Call(a) == [at |-> a, i |-> 0]
Top == calls[Len(calls)]
Caller == SubSeq(calls, 1, Len(calls) - 1)
PlainMulti(a) == Function(bus, a).header = "multi"

ListStart ==
    /\ scan' = 0
    /\ listed' = <<>>
    /\ complete' = FALSE
    /\ address' = <<0, 0>>
    /\ UNCHANGED <<bus, calls, overflow>>

ListSlot ==
    /\ scan < Slots
    /\ calls = <<>>
    /\ calls' = << Call(<<scan, 0>>) >>
    /\ UNCHANGED <<bus, address, scan, listed, complete, overflow>>

\* The next slot, when a call for the last one has returned.
Returned(rest) ==
    /\ calls' = rest
    /\ scan' = IF rest = <<>> THEN scan + 1 ELSE scan
    /\ complete' = (rest = <<>> /\ scan + 1 = Slots)

\* Variant of ListFunction: every function that is there has others.
ListFunctionAny ==
    /\ calls # <<>> /\ ~overflow
    /\ Top.i = 0
    /\ address' = Top.at
    /\ IF ~Function(bus, Top.at).vendor
       THEN Returned(Caller) /\ listed' = listed
       ELSE /\ listed' = Append(listed, Top.at)
            /\ calls' = Append(Caller, [Top EXCEPT !.i = 1])
            /\ UNCHANGED <<scan, complete>>
    /\ UNCHANGED <<bus, overflow>>

\* A call reads its function and prints it; that of a device with several,
\* unless it is a bridge, goes on to call itself for the others.
ListFunction ==
    /\ calls # <<>> /\ ~overflow
    /\ Top.i = 0
    /\ address' = Top.at
    /\ listed' = IF Function(bus, Top.at).vendor THEN Append(listed, Top.at) ELSE listed
    /\ IF Function(bus, Top.at).vendor /\ PlainMulti(Top.at)
       THEN calls' = Append(Caller, [Top EXCEPT !.i = 1]) /\ UNCHANGED <<scan, complete>>
       ELSE Returned(Caller)
    /\ UNCHANGED <<bus, overflow>>

ListOthers ==
    /\ calls # <<>> /\ ~overflow
    /\ Top.i > 0
    /\ IF Top.i > LastFunction
       THEN Returned(Caller) /\ overflow' = overflow
       ELSE /\ overflow' = (Len(calls) = StackRoom)
            /\ calls' = IF overflow' THEN calls
                        ELSE Append(Append(Caller, [Top EXCEPT !.i = @ + 1]),
                                    Call(<<Top.at[1], Top.i>>))
            /\ UNCHANGED <<scan, complete>>
    /\ UNCHANGED <<bus, address, listed>>

ListNext == ListSlot \/ ListFunction \/ ListOthers

-----------------------------------------------------------------------------
\* The functions "lspci" shows: of a device that says it has several, all.
Shown == {a \in DOMAIN bus : a[2] = 0 \/ PlainMulti(<<a[1], 0>>)}

\* "lspci" prints each of them once (pci.c:149-190).  Only a function other
\* than the first that says of itself that its device has several can keep
\* it from that: its call calls itself until there is no stack left.
ListingSound ==
    /\ complete => /\ Len(listed) = Cardinality(Shown)
                   /\ {listed[i] : i \in DOMAIN listed} = Shown
    /\ overflow => \E a \in Shown : a[2] > 0 /\ PlainMulti(a)

\* The first function of the class the search is for, if there is one.
Before(a, b) == a[1] < b[1] \/ (a[1] = b[1] /\ a[2] < b[2])
Wanted == {a \in DOMAIN bus : bus[a].uhci}
First == {a \in Wanted : \A b \in Wanted : a = b \/ Before(a, b)}
=============================================================================
