-------------------------------- MODULE Disk --------------------------------
(***************************************************************************)
(* The ATA driver (drivers/disk.c) and the drive behind its ports.  Nobody *)
(* writes the disk, so a sector's contents are named by its number.  Every *)
(* read is accessDisk's: the command, Polls good reads of the status, the  *)
(* transfer of 256 words into buffer8.  The driver runs in the keyboard    *)
(* handler with interrupts off: nothing comes in between but the drive.    *)
(***************************************************************************)
EXTENDS Integers

CONSTANTS
    LbaLimit,       \* sector numbers a command can carry: 2^28
    NoSector,       \* no sector: a number past all of them
    Polls           \* good status reads before a transfer: 4

ASSUME DiskAssumption ==
    /\ LbaLimit \in Nat \ {0} /\ Polls \in Nat \ {0}
    /\ NoSector \in Nat /\ NoSector >= LbaLimit

VARIABLES
    drive,          \* the slave: "absent", "idle", "busy", "drq", "error"
    size,           \* its sectors
    lba,            \* the sector its registers hold
    asked,          \* the sector readdisk was called for, while it runs
    polls,          \* good status reads so far
    buffer8         \* the sector buffer8 holds

diskVars == <<drive, size, lba, asked, polls, buffer8>>

DiskInit ==
    /\ drive \in {"absent", "idle"}
    /\ lba = 0
    /\ asked = NoSector
    /\ polls = 0
    /\ buffer8 = NoSector

\* Registers and command are written.  An absent drive takes no notice.
Command(sect) ==
    /\ lba' = sect % LbaLimit
    /\ drive' = IF drive = "absent" THEN "absent" ELSE "busy"
    /\ asked' = sect
    /\ polls' = 0

\* The drive finds the sector, or does not: no data follow an error.
Serve ==
    /\ drive = "busy"
    /\ drive' = IF lba < size THEN "drq" ELSE "error"
    /\ UNCHANGED <<size, lba, asked, polls, buffer8>>

\* Variant of Poll: data are taken to be there as soon as BSY is clear.
PollNotBusy ==
    /\ asked # NoSector
    /\ polls < Polls
    /\ drive # "busy"
    /\ polls' = polls + 1
    /\ UNCHANGED <<drive, size, lba, asked, buffer8>>

\* A status read with DRQ set and BSY clear; the others change nothing.
Poll ==
    /\ asked # NoSector
    /\ polls < Polls
    /\ drive = "drq"
    /\ polls' = polls + 1
    /\ UNCHANGED <<drive, size, lba, asked, buffer8>>

\* Variant of Transfer: buffer8 is left as it was.
TransferLate ==
    /\ asked # NoSector
    /\ polls = Polls
    /\ buffer8' = asked - 1
    /\ size' = size

\* The words are read, no sector's words if no data are waiting, and readdisk
\* returns: to a caller that asks for another sector, or is done.
Transfer ==
    /\ asked # NoSector
    /\ polls = Polls
    /\ buffer8' = IF drive = "drq" THEN lba ELSE NoSector
    /\ size' = size
Quiet ==
    /\ drive' = "idle"
    /\ asked' = NoSector
    /\ polls' = 0
    /\ lba' = lba

DiskTypeOK ==
    /\ drive \in {"absent", "idle", "busy", "drq", "error"}
    /\ size \in Nat
    /\ lba \in 0 .. LbaLimit - 1
    /\ asked \in Nat \union {NoSector}
    /\ polls \in 0 .. Polls
    /\ buffer8 \in 0 .. LbaLimit - 1 \union {NoSector}

Device == INSTANCE BlockDevice
          WITH Sectors <- Nat, block <- buffer8
=============================================================================
