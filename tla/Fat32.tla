------------------------------- MODULE Fat32 -------------------------------
(***************************************************************************)
(* read_file of fs/fat/fat32.c, the part of "exec" that finds a file in    *)
(* the root directory and reads it, sector by sector, into the buffer on   *)
(* process_command's stack.  A volume is what its boot sector, directory   *)
(* and FAT say; the numbers keep the widths of the code, scaled: Byte for  *)
(* 256, Byte * Byte for 2^16, Word for 2^32.                               *)
(***************************************************************************)
EXTENDS Disk, Sequences, FiniteSets

CONSTANTS
    Volumes,        \* the disks that may be in the drive
    Byte,           \* 256
    Word,           \* 2^32
    EntryBytes,     \* bytes of a FAT entry: 4
    EndMark,        \* FAT entries from here on end a chain: 0x0FFFFFF8
    DirEntries,     \* entries read of the root directory: 16
    BufSectors      \* sectors the caller's buffer has room for: 9

ASSUME FatAssumption ==
    /\ Byte \in Nat \ {0} /\ EntryBytes \in Nat \ {0, 1}
    /\ DirEntries \in Nat /\ BufSectors \in Nat \ {0} /\ EndMark \in Nat
    /\ Word \in Nat /\ Word >= Byte * Byte /\ Word >= LbaLimit /\ NoSector >= Word
    /\ \A v \in Volumes :
          /\ v.drive \in {"absent", "idle"} /\ v.size \in Nat
          /\ {v.bytesPerSector, v.perCluster, v.reserved, v.fats, v.perFat, v.rootEntries, v.root} \subseteq Nat
          /\ DOMAIN v.dir \subseteq Nat
          /\ \A i \in DOMAIN v.dir : v.dir[i].cluster \in Nat
          /\ 0 .. (Byte - 1) \div EntryBytes \subseteq DOMAIN v.fat
          /\ \A c \in DOMAIN v.fat : v.fat[c] \in 0 .. Word - 1
          /\ v.stray \in 0 .. Word - 1

VARIABLES
    vol,            \* the volume in the drive
    pc,             \* what the kernel does
    cluster,        \* current_cluster
    buf             \* the sectors copied into the buffer, in order

fileVars == <<vol, pc, cluster, buf>>

-----------------------------------------------------------------------------
(* Geometry. *)

\* Variant of FirstSector: clusters are counted from zero.
FirstSectorFromZero(v, c) ==
    LET rootSectors == (v.rootEntries * 32 + v.bytesPerSector - 1) \div v.bytesPerSector
        firstData == v.reserved + v.fats * (v.perFat % (Byte * Byte)) + rootSectors
    IN  (c * v.perCluster + firstData) % Word

\* get_first_sector_of_cluster, with the 16 bits read_ebpb keeps of the 32
\* that hold the sectors per FAT.
FirstSector(v, c) ==
    LET rootSectors == (v.rootEntries * 32 + v.bytesPerSector - 1) \div v.bytesPerSector
        firstData == v.reserved + v.fats * (v.perFat % (Byte * Byte)) + rootSectors
    IN  ((c - 2) * v.perCluster + firstData) % Word

\* get_next_cluster reads one sector of the FAT, its number a uint8_t, at a
\* uint8_t offset.  What lies in any other sector there is v.stray.  Entries are
\* given without their upper four bits, which line 28 masks.
FatSector(v) == v.reserved % Byte
FatEntry(v, c) == (c * EntryBytes % Byte) \div EntryBytes

\* Variant of NextCluster: only the last end mark ends a chain.
NextClusterExact(v, c) ==
    LET e == IF FatSector(v) = v.reserved THEN v.fat[FatEntry(v, c)] ELSE v.stray
    IN  IF e = EndMark + 7 THEN 0 ELSE e
NextCluster(v, c) ==
    LET e == IF FatSector(v) = v.reserved THEN v.fat[FatEntry(v, c)] ELSE v.stray
    IN  IF e >= EndMark THEN 0 ELSE e

\* The first cluster's low half as parse_directory_sector joins two signed
\* characters: a low byte with its sign set drowns the high one.
LowCluster(c) ==
    IF c % Byte >= Byte \div 2 THEN Byte * (Byte - 1) + (c % Byte)
    ELSE c % (Byte * Byte)

\* Variant of Listed: unused entries are not passed over but end the list.
ListedToFree(v) ==
    {i \in DOMAIN v.dir : i <= DirEntries /\ v.dir[i].kind # "long"
                          /\ \A j \in 1 .. i : v.dir[j].kind # "free"}
\* The entries parse_directory_sector takes: those of one sector that are
\* neither unused nor part of a long name.
Listed(v) == {i \in DOMAIN v.dir : i <= DirEntries /\ v.dir[i].kind \notin {"free", "long"}}

\* Those of the name, whatever their extension and kind; the first one counts.
Named(v) == {i \in Listed(v) : v.dir[i].name = "HELLO"}
First(s) == CHOOSE i \in s : \A j \in s : i <= j

-----------------------------------------------------------------------------
(* read_file, one step for each sector read. *)

FatInit ==
    /\ DiskInit
    /\ vol \in Volumes
    /\ drive = vol.drive
    /\ size = vol.size
    /\ pc = "idle"
    /\ cluster = 0
    /\ buf = <<>>

\* read_ebpb asks for sector 0; the buffer is zeroed on every call.
ReadFile ==
    /\ pc = "idle"
    /\ pc' = "boot"
    /\ Command(0)
    /\ buf' = <<>>
    /\ UNCHANGED <<vol, cluster, size, buffer8>>

\* The boot sector is there.  On an unformatted disk the division by the
\* bytes per sector is a divide error, which is a panic.
ReadBoot ==
    /\ pc = "boot"
    /\ Transfer
    /\ \/ /\ vol.bytesPerSector = 0
          /\ Quiet
          /\ pc' = "panic"
       \/ /\ vol.bytesPerSector # 0
          /\ Command(FirstSector(vol, vol.root))
          /\ pc' = "dir"
    /\ UNCHANGED <<vol, cluster, buf>>

\* Without an entry of the name, the caller's buffer stays zero.
ReadDirectory ==
    /\ pc = "dir"
    /\ Transfer
    /\ \/ /\ Named(vol) = {}
          /\ Quiet
          /\ pc' = "read"
          /\ cluster' = cluster
       \/ /\ Named(vol) # {}
          /\ cluster' = LowCluster(vol.dir[First(Named(vol))].cluster)
          /\ Command(FirstSector(vol, cluster'))
          /\ pc' = "data"
    /\ UNCHANGED <<vol, buf>>

\* Variant of ReadData: a full buffer ends the file.
ReadDataBounded ==
    /\ pc = "data"
    /\ Transfer
    /\ \/ /\ Len(buf) = BufSectors - 1
          /\ Quiet
          /\ pc' = "smashed"
          /\ buf' = buf
       \/ /\ Len(buf) < BufSectors - 1
          /\ buf' = Append(buf, lba)
          /\ Command(FatSector(vol))
          /\ pc' = "fat"
    /\ UNCHANGED <<vol, cluster>>

\* A sector is copied, and past the end of the buffer over the stack: what
\* follows is undefined.
ReadData ==
    /\ pc = "data"
    /\ Transfer
    /\ \/ /\ Len(buf) = BufSectors
          /\ Quiet
          /\ pc' = "smashed"
          /\ buf' = buf
       \/ /\ Len(buf) < BufSectors
          /\ buf' = Append(buf, lba)
          /\ Command(FatSector(vol))
          /\ pc' = "fat"
    /\ UNCHANGED <<vol, cluster>>

\* The FAT says where the file goes on.
ReadFat ==
    /\ pc = "fat"
    /\ Transfer
    /\ cluster' = NextCluster(vol, cluster)
    /\ \/ /\ cluster' = 0
          /\ Quiet
          /\ pc' = "read"
       \/ /\ cluster' # 0
          /\ Command(FirstSector(vol, cluster'))
          /\ pc' = "data"
    /\ UNCHANGED <<vol, buf>>

Driver == Poll /\ UNCHANGED fileVars
Drive == Serve /\ UNCHANGED fileVars
Step == ReadBoot \/ ReadDirectory \/ ReadData \/ ReadFat

-----------------------------------------------------------------------------
(* The file as FAT32 defines it. *)

Files(v) == {i \in DOMAIN v.dir : v.dir[i].kind = "file" /\ v.dir[i].name = "HELLO"}
TrueSector(v, c) == (c - 2) * v.perCluster + v.reserved + v.fats * v.perFat

\* The clusters of the chain from c, as far as there are n of them.
Chain(v, c, n) ==
    LET at[i \in 1 .. n] == IF i = 1 THEN c
                            ELSE IF at[i - 1] \in DOMAIN v.fat THEN v.fat[at[i - 1]]
                            ELSE EndMark
        long == {i \in 1 .. n : \A j \in 1 .. i : at[j] \in 2 .. EndMark - 2}
    IN  [i \in 1 .. Cardinality(long) |-> at[i]]

\* The first sectors of the clusters the file occupies, one cluster more than
\* the buffer holds at most.
FileClusters(v) ==
    IF Files(v) = {} THEN <<>>
    ELSE Chain(v, v.dir[First(Files(v))].cluster, BufSectors + 1)
FileSectors(v) == [i \in DOMAIN FileClusters(v) |-> TrueSector(v, FileClusters(v)[i])]

\* The volumes read_file is made for: a small FAT32 volume of one-sector
\* clusters, no larger than a command can address, whose file is the first
\* entry of its name and lies in clusters that one byte of offset into the FAT
\* can reach, with links that are links or ends: read_file goes on after 1 and
\* after the mark of a bad cluster.
Plain(v) ==
    /\ v.drive = "idle" /\ v.size <= LbaLimit
    /\ v.bytesPerSector # 0 /\ v.perCluster = 1 /\ v.rootEntries = 0
    /\ v.reserved < Byte /\ v.perFat < Byte * Byte
    /\ v.root = 2
    /\ \A i \in DOMAIN FileClusters(v) :
          /\ FileClusters(v)[i] < Byte \div EntryBytes
          /\ FileSectors(v)[i] < v.size
          /\ v.fat[FileClusters(v)[i]] \notin {1, EndMark - 1}
    /\ \A i \in Files(v) : i <= DirEntries
    /\ Files(v) # {} => FileClusters(v) # <<>>
    /\ \A i \in DOMAIN v.dir : v.dir[i].name = "HELLO" => v.dir[i].kind \in {"long", "file"}

Fits(v) == Len(FileSectors(v)) <= BufSectors

\* The clusters read_file may be led to: the root directory's, those of the
\* entries of the name, and those in the part of the FAT it reads.
Leads(v) ==
    {v.root} \union {LowCluster(v.dir[i].cluster) : i \in Named(v)}
    \union (({v.fat[e] : e \in 0 .. (Byte - 1) \div EntryBytes} \union {v.stray}) \cap 1 .. EndMark - 1)
\* Their sectors, and the FAT's, fit the 28 bits of a command.
Addressable(v) ==
    /\ FatSector(v) < LbaLimit
    /\ v.bytesPerSector # 0 => \A c \in Leads(v) : FirstSector(v, c) < LbaLimit

\* read_file (fat32.c:86-127) gives its caller every sector of the file, in
\* order and no other, though directory, FAT and data pass through buffer8
\* in turn; and the file's absence shows as an empty buffer.
ReadsTheFile ==
    pc = "read" /\ Plain(vol) => buf = FileSectors(vol)

\* The caller's stack (shell.c:81, fat32.c:113) is overwritten by no file
\* that fits the buffer, down to the last of its 4608 bytes.
StackKept == pc = "smashed" /\ Plain(vol) => ~Fits(vol)
=============================================================================
