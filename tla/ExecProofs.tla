------------------------------ MODULE ExecProofs ------------------------------
(***************************************************************************)
(* Theorems about "exec", for any volumes, programs, page tables and sizes *)
(* that the assumptions allow: what read_file gives its caller, what the   *)
(* disk driver gives read_file, and where read_elf puts a program.         *)
(*                                                                         *)
(* FatInv is inductive by itself: numbers keep their widths, the driver is *)
(* waiting for a sector exactly while read_file runs, and data are ready   *)
(* only for the sector asked for.  FollowInv is inductive beside it: on a  *)
(* plain volume the buffer holds the first sectors of the file, and        *)
(* current_cluster is where FAT32 says that the file goes on.  LoadInv is  *)
(* inductive beside FatInv: the tree of page tables that map_page keeps,   *)
(* that kmalloc's frames are reached through pages of their own (Homes),   *)
(* and where the sections loaded so far lie (Placed).                      *)
(***************************************************************************)
EXTENDS Exec, PagingProofs

\* The sizes and widths, as disk.c and fat32.c have them.
LEMMA WidthsTyped ==
    /\ LbaLimit \in Nat \ {0} /\ Polls \in Nat \ {0} /\ NoSector \in Nat
    /\ NoSector >= Word /\ Word \in Nat \ {0} /\ Word >= LbaLimit
    /\ Byte \in Nat \ {0} /\ Byte * Byte \in Nat \ {0} /\ Word >= Byte * Byte
    /\ EntryBytes \in Nat /\ EntryBytes >= 2 /\ DirEntries \in Nat /\ BufSectors \in Nat \ {0}
    /\ EndMark \in Nat
<1>1. /\ LbaLimit \in Nat \ {0} /\ Polls \in Nat \ {0} /\ NoSector \in Nat
    BY DiskAssumption DEF DiskAssumption
<1>2. /\ Byte \in Nat \ {0} /\ EntryBytes \in Nat \ {0, 1}
      /\ DirEntries \in Nat /\ BufSectors \in Nat \ {0} /\ EndMark \in Nat
      /\ Word \in Nat /\ Word >= Byte * Byte /\ Word >= LbaLimit /\ NoSector >= Word
    BY FatAssumption DEF FatAssumption
<1>3. Byte * Byte \in Nat \ {0}
    BY <1>2
<1> QED BY <1>1, <1>2, <1>3

\* What the boot sector, the directory and the FAT of a volume can say.
VolumeOK(v) ==
    /\ v.drive \in {"absent", "idle"} /\ v.size \in Nat
    /\ {v.bytesPerSector, v.perCluster, v.reserved, v.fats, v.perFat, v.rootEntries, v.root} \subseteq Nat
    /\ DOMAIN v.dir \subseteq Nat
    /\ \A i \in DOMAIN v.dir : v.dir[i].cluster \in Nat
    /\ 0 .. (Byte - 1) \div EntryBytes \subseteq DOMAIN v.fat
    /\ \A c \in DOMAIN v.fat : v.fat[c] \in 0 .. Word - 1
    /\ v.stray \in 0 .. Word - 1

\* Each volume says such things.
LEMMA VolumesTyped == \A v \in Volumes : VolumeOK(v)
BY FatAssumption DEF FatAssumption, VolumeOK

-----------------------------------------------------------------------------
\* get_first_sector_of_cluster returns a 32-bit number (fat32.c:38-46).
LEMMA FirstSectorTyped ==
    ASSUME NEW v, VolumeOK(v), v.bytesPerSector # 0, NEW c \in Int
    PROVE  FirstSector(v, c) \in 0 .. Word - 1
<1> DEFINE rootSectors == (v.rootEntries * 32 + v.bytesPerSector - 1) \div v.bytesPerSector
           firstData == v.reserved + v.fats * (v.perFat % (Byte * Byte)) + rootSectors
<1>1. /\ v.bytesPerSector \in Nat \ {0} /\ v.rootEntries \in Nat /\ v.reserved \in Nat
      /\ v.fats \in Nat /\ v.perFat \in Nat /\ v.perCluster \in Nat
    BY DEF VolumeOK
<1>2. rootSectors \in Int
    BY <1>1
<1>3. v.perFat % (Byte * Byte) \in Nat
    BY <1>1, WidthsTyped
<1>4. firstData \in Int
  <2> HIDE DEF rootSectors
  <2>1. v.fats * (v.perFat % (Byte * Byte)) \in Int
      BY <1>1, <1>3
  <2> QED BY <1>1, <1>2, <2>1
<1>5. FirstSector(v, c) = ((c - 2) * v.perCluster + firstData) % Word
    BY DEF FirstSector
<1> HIDE DEF firstData
<1>6. (c - 2) * v.perCluster + firstData \in Int
    BY <1>1, <1>4
<1> QED BY <1>5, <1>6, WidthsTyped

\* The entry get_next_cluster reads lies in the bytes its 8-bit offset reaches
\* (fat32.c:20-22).
LEMMA FatEntryTyped ==
    ASSUME NEW v, VolumeOK(v), NEW c \in Nat
    PROVE  FatEntry(v, c) \in DOMAIN v.fat /\ FatEntry(v, c) \in 0 .. (Byte - 1) \div EntryBytes
<1> DEFINE x == c * EntryBytes % Byte
           e == EntryBytes
           q == x \div e
           m == (Byte - 1) \div e
<1>1. e \in Nat \ {0} /\ Byte \in Nat \ {0} /\ c * e \in Nat
    BY WidthsTyped
<1>2. x \in 0 .. Byte - 1
    BY <1>1
<1> HIDE DEF x, e
<1>3. q \in Nat /\ m \in Nat /\ e * q <= x /\ Byte - 1 < e * (m + 1)
    BY <1>1, <1>2
<1> HIDE DEF q, m
<1>4. q <= m
  <2> SUFFICES ASSUME q >= m + 1 PROVE FALSE
      BY <1>3
  <2>1. e * q >= e * (m + 1)
      BY <1>1, <1>3
  <2>2. e * q \in Int /\ e * (m + 1) \in Int
      BY <1>1, <1>3
  <2> QED BY <1>1, <1>2, <1>3, <2>1, <2>2
<1>5. q \in 0 .. m
    BY <1>3, <1>4
<1> QED BY <1>5 DEF FatEntry, VolumeOK, q, m, x, e

\* get_next_cluster returns a 32-bit number (fat32.c:17-34).
LEMMA NextClusterTyped ==
    ASSUME NEW v, VolumeOK(v), NEW c \in Nat
    PROVE  NextCluster(v, c) \in 0 .. Word - 1
<1>1. v.fat[FatEntry(v, c)] \in 0 .. Word - 1 /\ v.stray \in 0 .. Word - 1
    BY FatEntryTyped DEF VolumeOK
<1>2. 0 \in 0 .. Word - 1
    BY WidthsTyped
<1> QED BY <1>1, <1>2 DEF NextCluster

\* Two joined bytes make a number of their width, with a sign or without
\* (fat32.c:70).
LEMMA LowClusterTyped ==
    ASSUME NEW c \in Nat
    PROVE  LowCluster(c) \in 0 .. Word - 1
<1>1. c % Byte \in 0 .. Byte - 1 /\ c % (Byte * Byte) \in 0 .. Byte * Byte - 1
    BY WidthsTyped
<1>2. Byte * (Byte - 1) = Byte * Byte - Byte /\ Byte * (Byte - 1) >= 0
    BY WidthsTyped
<1>3. Byte * (Byte - 1) + (c % Byte) \in 0 .. Byte * Byte - 1
    BY <1>1, <1>2, WidthsTyped
<1> QED BY <1>1, <1>3, WidthsTyped DEF LowCluster

\* The first of some entries is one of them (fat32.c:92-96).
LEMMA FirstIs ==
    ASSUME NEW T \in SUBSET Nat, T # {}
    PROVE  First(T) \in T
<1>1. \E i \in T : \A j \in T : i <= j
    BY LeastNatural
<1> QED BY <1>1 DEF First

-----------------------------------------------------------------------------
\* read_file runs, and waits for a sector.
Reading == pc \in {"boot", "dir", "data", "fat"}
\* All that the kernel can be doing.
Kinds == {"idle", "boot", "dir", "data", "fat", "read", "smashed", "panic",
          "load", "corrupt", "fault", "ran"}

\* The driver's part of FatInv (disk.c:114-198): the registers hold the sector
\* asked for, cut to a command's bits, and good reads of the status are counted
\* only when its data are ready.
DriveInv ==
    /\ drive \in {"absent", "idle", "busy", "drq", "error"}
    /\ size \in Nat
    /\ lba \in 0 .. LbaLimit - 1
    /\ asked \in 0 .. Word - 1 \union {NoSector}
    /\ polls \in 0 .. Polls
    /\ buffer8 \in 0 .. LbaLimit - 1 \union {NoSector}
    /\ asked # NoSector => lba = asked % LbaLimit
    /\ polls > 0 => drive = "drq"
    /\ drive = "drq" => lba < size

\* The inductive invariant of read_file's numbers.
FatInv ==
    /\ DriveInv
    /\ vol \in Volumes /\ size = vol.size
    /\ pc \in Kinds
    /\ Reading <=> asked # NoSector
    /\ pc \notin {"idle", "boot", "panic"} => vol.bytesPerSector # 0
    /\ cluster \in 0 .. Word - 1
    /\ buf \in Seq(0 .. LbaLimit - 1) /\ Len(buf) <= BufSectors

\* After a command the driver waits for the sector (disk.c:114-136).
LEMMA Commanded ==
    ASSUME DriveInv, NEW s \in 0 .. Word - 1, Command(s), size' = size,
           buffer8' \in 0 .. LbaLimit - 1 \union {NoSector}
    PROVE  DriveInv' /\ asked' = s /\ asked' # NoSector /\ lba' = s % LbaLimit /\ polls' = 0
<1>1. s \in Nat /\ s # NoSector /\ s % LbaLimit \in 0 .. LbaLimit - 1 /\ 0 \in 0 .. Polls
    BY WidthsTyped
<1>2. /\ drive' \in {"absent", "busy"} /\ lba' = s % LbaLimit /\ asked' = s /\ polls' = 0
    BY DEF Command
<1> QED BY <1>1, <1>2 DEF DriveInv

\* What a transfer leaves in buffer8 is the sector asked for: good reads of
\* the status come first, so data are ready (disk.c:137-185).
LEMMA Transferred ==
    ASSUME DriveInv, Transfer
    PROVE  /\ asked # NoSector /\ buffer8' = lba /\ lba = asked % LbaLimit /\ size' = size
           /\ buffer8' \in 0 .. LbaLimit - 1 /\ lba < size
BY WidthsTyped DEF DriveInv, Transfer

\* After the last transfer the driver waits for nothing (disk.c:187-198).
LEMMA Stopped ==
    ASSUME DriveInv, Quiet, size' = size, buffer8' \in 0 .. LbaLimit - 1
    PROVE  DriveInv' /\ asked' = NoSector
<1>1. drive' = "idle" /\ asked' = NoSector /\ polls' = 0 /\ lba' = lba /\ 0 \in 0 .. Polls
    BY WidthsTyped DEF Quiet
<1> QED BY <1>1 DEF DriveInv

\* Before the first "exec".
LEMMA FatInitial == FatInit => FatInv
<1> SUFFICES ASSUME FatInit PROVE FatInv
    OBVIOUS
<1>1. /\ drive \in {"absent", "idle"} /\ lba = 0 /\ asked = NoSector /\ polls = 0 /\ buffer8 = NoSector
      /\ vol \in Volumes /\ size = vol.size /\ pc = "idle" /\ cluster = 0 /\ buf = <<>>
    BY DEF FatInit, DiskInit
<1>2. size \in Nat
    BY <1>1, VolumesTyped DEF VolumeOK
<1>3. 0 \in 0 .. LbaLimit - 1 /\ 0 \in 0 .. Polls /\ 0 \in 0 .. Word - 1 /\ 0 <= BufSectors
    BY WidthsTyped
<1>4. DriveInv
    BY <1>1, <1>2, <1>3 DEF DriveInv
<1>5. buf \in Seq(0 .. LbaLimit - 1) /\ Len(buf) <= BufSectors
    BY <1>1, <1>3
<1> QED BY <1>1, <1>3, <1>4, <1>5 DEF FatInv, Kinds, Reading

\* read_ebpb asks for the boot sector (fat32.c:129-138).
LEMMA ReadFileKeeps == ASSUME FatInv, ReadFile PROVE FatInv'
<1>1. DriveInv /\ 0 \in 0 .. Word - 1 /\ 0 <= BufSectors
    BY WidthsTyped DEF FatInv
<1>2. /\ pc = "idle" /\ pc' = "boot" /\ Command(0) /\ buf' = <<>>
      /\ UNCHANGED <<vol, cluster, size, buffer8>>
    BY DEF ReadFile
<1>3. DriveInv' /\ asked' # NoSector
    BY <1>1, <1>2, Commanded DEF DriveInv
<1>4. buf' \in Seq(0 .. LbaLimit - 1) /\ Len(buf') <= BufSectors
    BY <1>1, <1>2
<1> QED BY <1>2, <1>3, <1>4 DEF FatInv, Kinds, Reading

\* read_ebpb returns (fat32.c:139-172).
LEMMA ReadBootKeeps == ASSUME FatInv, ReadBoot PROVE FatInv'
<1>0. /\ DriveInv /\ vol \in Volumes /\ VolumeOK(vol) /\ pc = "boot" /\ Transfer
      /\ UNCHANGED <<vol, cluster, buf>>
    BY VolumesTyped DEF FatInv, ReadBoot
<1>1. size' = size /\ buffer8' \in 0 .. LbaLimit - 1
    BY <1>0, Transferred
<1>2. CASE Quiet /\ pc' = "panic"
    BY <1>0, <1>1, <1>2, Stopped DEF FatInv, Kinds, Reading
<1>3. CASE vol.bytesPerSector # 0 /\ Command(FirstSector(vol, vol.root)) /\ pc' = "dir"
  <2>1. FirstSector(vol, vol.root) \in 0 .. Word - 1
    <3>1. vol.root \in Int
        BY <1>0 DEF VolumeOK
    <3> QED BY <1>0, <1>3, <3>1, FirstSectorTyped
  <2>2. DriveInv' /\ asked' # NoSector
      BY <1>0, <1>1, <1>3, <2>1, Commanded
  <2> QED BY <1>0, <1>1, <1>3, <2>2 DEF FatInv, Kinds, Reading
<1> QED BY <1>2, <1>3 DEF ReadBoot

\* The first entry of the name is an entry of the name, and has a cluster.
LEMMA NamedTyped ==
    ASSUME NEW v, VolumeOK(v), Named(v) # {}
    PROVE  First(Named(v)) \in Named(v) /\ v.dir[First(Named(v))].cluster \in Nat
<1>1. Named(v) \subseteq DOMAIN v.dir /\ DOMAIN v.dir \subseteq Nat
    BY DEF Named, Listed, VolumeOK
<1>2. First(Named(v)) \in Named(v)
    BY <1>1, FirstIs
<1> QED BY <1>1, <1>2 DEF VolumeOK

\* The directory is searched (fat32.c:86-106).
LEMMA ReadDirectoryKeeps == ASSUME FatInv, ReadDirectory PROVE FatInv'
<1>0. /\ DriveInv /\ vol \in Volumes /\ VolumeOK(vol) /\ pc = "dir" /\ Transfer
      /\ UNCHANGED <<vol, buf>> /\ vol.bytesPerSector # 0
    BY VolumesTyped DEF FatInv, ReadDirectory
<1>1. size' = size /\ buffer8' \in 0 .. LbaLimit - 1
    BY <1>0, Transferred
<1>2. CASE Quiet /\ pc' = "read" /\ cluster' = cluster
    BY <1>0, <1>1, <1>2, Stopped DEF FatInv, Kinds, Reading
<1>3. CASE /\ Named(vol) # {}
           /\ cluster' = LowCluster(vol.dir[First(Named(vol))].cluster)
           /\ Command(FirstSector(vol, cluster')) /\ pc' = "data"
  <2>1. cluster' \in 0 .. Word - 1
      BY <1>0, <1>3, NamedTyped, LowClusterTyped
  <2>2. FirstSector(vol, cluster') \in 0 .. Word - 1
    <3>1. cluster' \in Int
        BY <2>1, WidthsTyped
    <3> QED BY <1>0, <3>1, FirstSectorTyped
  <2>3. DriveInv' /\ asked' # NoSector
      BY <1>0, <1>1, <1>3, <2>2, Commanded
  <2> QED BY <1>0, <1>1, <1>3, <2>1, <2>3 DEF FatInv, Kinds, Reading
<1> QED BY <1>2, <1>3 DEF ReadDirectory

\* One more sector in the buffer (fat32.c:112-114).
LEMMA Extended ==
    ASSUME FatInv, Len(buf) < BufSectors, buf' = Append(buf, lba)
    PROVE  /\ buf' \in Seq(0 .. LbaLimit - 1) /\ Len(buf') = Len(buf) + 1 /\ Len(buf') <= BufSectors
           /\ \A j \in 1 .. Len(buf) : buf'[j] = buf[j]
           /\ buf'[Len(buf) + 1] = lba
<1> DEFINE b == Append(buf, lba)
           S == 0 .. LbaLimit - 1
<1>1. buf \in Seq(S) /\ lba \in S
    BY DEF FatInv, DriveInv
<1> HIDE DEF S
<1>2. /\ b \in Seq(S) /\ Len(b) = Len(buf) + 1
      /\ \A j \in 1 .. Len(buf) : b[j] = buf[j]
      /\ b[Len(buf) + 1] = lba
    BY <1>1
<1>3. Len(buf) \in Nat
    BY <1>1
<1> HIDE DEF b
<1>4. Len(b) <= BufSectors
    BY <1>2, <1>3, WidthsTyped
<1>5. buf' = b
    BY DEF b
<1> QED BY <1>2, <1>4, <1>5 DEF S

\* A sector is copied (fat32.c:107-114).
LEMMA ReadDataKeeps == ASSUME FatInv, ReadData PROVE FatInv'
<1>0. /\ DriveInv /\ VolumeOK(vol) /\ pc = "data" /\ Transfer /\ UNCHANGED <<vol, cluster>>
    BY VolumesTyped DEF FatInv, ReadData
<1>1. size' = size /\ buffer8' \in 0 .. LbaLimit - 1
    BY <1>0, Transferred
<1>2. CASE Quiet /\ pc' = "smashed" /\ buf' = buf
    BY <1>0, <1>1, <1>2, Stopped DEF FatInv, Kinds, Reading
<1>3. CASE /\ Len(buf) < BufSectors
           /\ buf' = Append(buf, lba) /\ Command(FatSector(vol)) /\ pc' = "fat"
  <2>1. FatSector(vol) \in 0 .. Word - 1
    <3>1. vol.reserved \in Nat
        BY <1>0 DEF VolumeOK
    <3>2. vol.reserved % Byte \in 0 .. Byte - 1
        BY <3>1, WidthsTyped
    <3>3. Byte <= Byte * Byte
        BY WidthsTyped
    <3> QED BY <3>2, <3>3, WidthsTyped DEF FatSector
  <2>2. DriveInv' /\ asked' # NoSector
      BY <1>0, <1>1, <1>3, <2>1, Commanded
  <2>3. buf' \in Seq(0 .. LbaLimit - 1) /\ Len(buf') <= BufSectors
      BY <1>3, Extended
  <2> QED BY <1>0, <1>1, <1>3, <2>2, <2>3 DEF FatInv, Kinds, Reading
<1> QED BY <1>2, <1>3 DEF ReadData

\* The FAT is read (fat32.c:115-124).
LEMMA ReadFatKeeps == ASSUME FatInv, ReadFat PROVE FatInv'
<1>0. /\ DriveInv /\ VolumeOK(vol) /\ pc = "fat" /\ Transfer /\ UNCHANGED <<vol, buf>>
      /\ cluster' = NextCluster(vol, cluster) /\ vol.bytesPerSector # 0
    BY VolumesTyped DEF FatInv, ReadFat
<1>1. size' = size /\ buffer8' \in 0 .. LbaLimit - 1
    BY <1>0, Transferred
<1>2. cluster' \in 0 .. Word - 1
  <2>1. cluster \in Nat
      BY WidthsTyped DEF FatInv
  <2> QED BY <1>0, <2>1, NextClusterTyped
<1>3. CASE Quiet /\ pc' = "read"
    BY <1>0, <1>1, <1>2, <1>3, Stopped DEF FatInv, Kinds, Reading
<1>4. CASE Command(FirstSector(vol, cluster')) /\ pc' = "data"
  <2>1. FirstSector(vol, cluster') \in 0 .. Word - 1
    <3>1. cluster' \in Int
        BY <1>2, WidthsTyped
    <3> QED BY <1>0, <3>1, FirstSectorTyped
  <2>2. DriveInv' /\ asked' # NoSector
      BY <1>0, <1>1, <1>4, <2>1, Commanded
  <2> QED BY <1>0, <1>1, <1>2, <1>4, <2>2 DEF FatInv, Kinds, Reading
<1> QED BY <1>3, <1>4 DEF ReadFat

\* The driver and the drive (disk.c:137-150).
LEMMA DriveKeeps == ASSUME FatInv, Driver \/ Drive PROVE FatInv'
<1>1. DriveInv' /\ UNCHANGED <<size, asked>>
  <2>1. CASE Driver
      BY <2>1, WidthsTyped DEF Driver, Poll, FatInv, DriveInv
  <2>2. CASE Drive
      BY <2>2, WidthsTyped DEF Drive, Serve, FatInv, DriveInv
  <2> QED BY <2>1, <2>2
<1>2. UNCHANGED fileVars
    BY DEF Driver, Drive
<1> QED BY <1>1, <1>2 DEF FatInv, fileVars, Reading

-----------------------------------------------------------------------------
\* The cluster after cluster d of a chain, by the FAT.
Link(v, d) == IF d \in DOMAIN v.fat THEN v.fat[d] ELSE EndMark
\* The clusters a file may lie in.
Usable == 2 .. EndMark - 2

\* g is the list of the n clusters from c on.
IsLinks(v, c, n, g) == g = [i \in 1 .. n |-> IF i = 1 THEN c ELSE Link(v, g[i - 1])]

\* Such a list exists, for each n: the recursive function in Chain is one.
LEMMA LinksExist ==
    ASSUME NEW v, NEW c, NEW n \in Nat
    PROVE  \E g : IsLinks(v, c, n, g)
<1> DEFINE S == {m \in Nat : \E g : IsLinks(v, c, m, g)}
<1>1. 0 \in S
  <2>1. 1 .. 0 = {}
      OBVIOUS
  <2> DEFINE g == [i \in 1 .. 0 |-> c]
  <2>2. g = [i \in 1 .. 0 |-> IF i = 1 THEN c ELSE Link(v, g[i - 1])]
      BY <2>1
  <2> HIDE DEF g
  <2> QED BY <2>2 DEF IsLinks
<1>2. ASSUME NEW m \in S PROVE m + 1 \in S
  <2>1. PICK g : g = [i \in 1 .. m |-> IF i = 1 THEN c ELSE Link(v, g[i - 1])]
      BY DEF IsLinks
  <2>2. m \in Nat /\ m + 1 \in Nat
      OBVIOUS
  <2> DEFINE h == [i \in 1 .. m + 1 |-> IF i = 1 THEN c ELSE Link(v, g[i - 1])]
  <2>3. ASSUME NEW i \in 1 .. m + 1, i # 1 PROVE h[i - 1] = g[i - 1]
    <3>1. i - 1 \in 1 .. m /\ i - 1 \in 1 .. m + 1
        BY <2>2, <2>3
    <3>2. g[i - 1] = IF i - 1 = 1 THEN c ELSE Link(v, g[i - 1 - 1])
        BY <2>1, <3>1
    <3>3. h[i - 1] = IF i - 1 = 1 THEN c ELSE Link(v, g[i - 1 - 1])
        BY <3>1
    <3> QED BY <3>2, <3>3
  <2>4. h = [i \in 1 .. m + 1 |-> IF i = 1 THEN c ELSE Link(v, h[i - 1])]
    <3> SUFFICES ASSUME NEW i \in 1 .. m + 1
                 PROVE  (IF i = 1 THEN c ELSE Link(v, g[i - 1])) = (IF i = 1 THEN c ELSE Link(v, h[i - 1]))
        OBVIOUS
    <3> HIDE DEF h
    <3> QED BY <2>3
  <2> HIDE DEF h
  <2> QED BY <2>2, <2>4 DEF IsLinks
<1>3. S \in SUBSET Nat
    OBVIOUS
<1> HIDE DEF S
<1>4. S = Nat
    BY <1>1, <1>2, <1>3, SetInduction
<1> QED BY <1>4 DEF S

\* A chain starts at c, goes on where the FAT says, and ends before the first
\* cluster no file may lie in.
LEMMA ChainIs ==
    ASSUME NEW v, NEW c, NEW n \in Nat, NEW s, s = Chain(v, c, n)
    PROVE  /\ s \in Seq(Usable) /\ Len(s) \in 0 .. n
           /\ s # <<>> => s[1] = c
           /\ \A k \in 1 .. n - 1 : k + 1 \in 1 .. Len(s) => s[k + 1] = Link(v, s[k])
           /\ \A k \in 1 .. n - 1 : k = Len(s) => Link(v, s[k]) \notin Usable
<1>1. PICK at : /\ at = [i \in 1 .. n |-> IF i = 1 THEN c ELSE Link(v, at[i - 1])]
                /\ s = [i \in 1 .. Cardinality({k \in 1 .. n : \A j \in 1 .. k : at[j] \in Usable}) |-> at[i]]
  <2>1. PICK g : IsLinks(v, c, n, g)
      BY LinksExist
  <2>2. g = [i \in 1 .. n |-> IF i = 1 THEN c ELSE Link(v, g[i - 1])]
      BY <2>1 DEF IsLinks
  <2> QED BY <2>2 DEF Chain, Link, Usable
<1> DEFINE good == {k \in 1 .. n : \A j \in 1 .. k : at[j] \in Usable}
           bad == {k \in 1 .. n + 1 : k \notin good}
<1>2. PICK m \in bad : \A k \in bad : m <= k
  <2>1. bad \in SUBSET Nat /\ n + 1 \in bad
      OBVIOUS
  <2> HIDE DEF bad
  <2> QED BY <2>1, LeastNatural
<1>3. good = 1 .. m - 1 /\ m \in 1 .. n + 1 /\ m \notin good
  <2>1. \A k \in 1 .. m - 1 : k \in good
      BY <1>2
  <2>2. \A k \in good : k < m
    <3> SUFFICES ASSUME NEW k \in good, k >= m PROVE FALSE
        BY <1>2
    <3>1. m \in 1 .. n
        BY <1>2
    <3>2. \A j \in 1 .. m : at[j] \in Usable
        BY <3>1
    <3> QED BY <1>2, <3>1, <3>2
  <2> QED BY <1>2, <2>1, <2>2
<1>4. Cardinality(good) = m - 1
  <2>1. Cardinality(1 .. m - 1) = IF 1 > m - 1 THEN 0 ELSE m - 1 - 1 + 1
      BY <1>3, FS_Interval
  <2>2. (IF 1 > m - 1 THEN 0 ELSE m - 1 - 1 + 1) = m - 1
      BY <1>3
  <2> HIDE DEF good
  <2> QED BY <2>1, <2>2, <1>3
<1>5. s = [i \in 1 .. m - 1 |-> at[i]]
    BY <1>1, <1>4
<1>6. \A i \in 1 .. m - 1 : at[i] \in Usable
    BY <1>3
<1> HIDE DEF good, Usable, Link
<1>7. s \in Seq(Usable) /\ Len(s) = m - 1 /\ \A i \in 1 .. m - 1 : s[i] = at[i]
  <2>1. m - 1 \in Nat
      BY <1>3
  <2> QED BY <1>5, <1>6, <2>1
<1>8. \A i \in 1 .. n : at[i] = IF i = 1 THEN c ELSE Link(v, at[i - 1])
    BY <1>1
<1>9. s # <<>> => s[1] = c
  <2> SUFFICES ASSUME s # <<>> PROVE s[1] = c
      OBVIOUS
  <2>1. Len(s) # 0
      BY <1>7
  <2>2. 1 \in 1 .. m - 1 /\ 1 \in 1 .. n
      BY <2>1, <1>3, <1>7
  <2> QED BY <2>2, <1>7, <1>8
<1>10. ASSUME NEW k \in 1 .. n - 1 PROVE at[k + 1] = Link(v, at[k])
  <2>1. k + 1 \in 1 .. n /\ k + 1 # 1 /\ k + 1 - 1 = k
      OBVIOUS
  <2> QED BY <2>1, <1>8
<1>11. ASSUME NEW k \in 1 .. n - 1, k + 1 \in 1 .. Len(s) PROVE s[k + 1] = Link(v, s[k])
  <2>1. k \in 1 .. m - 1 /\ k + 1 \in 1 .. m - 1
      BY <1>3, <1>7, <1>11
  <2> QED BY <2>1, <1>7, <1>10
<1>12. ASSUME NEW k \in 1 .. n - 1, k = Len(s) PROVE Link(v, s[k]) \notin Usable
  <2>1. m = k + 1 /\ m \in 1 .. n /\ k \in 1 .. m - 1
      BY <1>3, <1>7, <1>12
  <2>2. PICK j \in 1 .. m : at[j] \notin Usable
      BY <2>1, <1>3 DEF good
  <2>3. j = m
      BY <1>6, <1>3, <2>2
  <2> QED BY <2>1, <2>2, <2>3, <1>7, <1>10
<1>13. Len(s) \in 0 .. n
    BY <1>3, <1>7
<1> QED BY <1>7, <1>9, <1>11, <1>12, <1>13

-----------------------------------------------------------------------------
\* The same of the clusters of the file.
LEMMA FileClustersAre ==
    ASSUME NEW v, VolumeOK(v), NEW s, s = FileClusters(v)
    PROVE  /\ s \in Seq(Usable) /\ Len(s) \in 0 .. BufSectors + 1
           /\ Files(v) = {} => s = <<>>
           /\ Files(v) # {} /\ s # <<>> => s[1] = v.dir[First(Files(v))].cluster
           /\ \A k \in 1 .. BufSectors :
                 /\ k + 1 \in 1 .. Len(s) => s[k + 1] = Link(v, s[k])
                 /\ k = Len(s) => Link(v, s[k]) \notin Usable
<1>0. BufSectors \in Nat /\ BufSectors + 1 \in Nat /\ BufSectors + 1 - 1 = BufSectors
    BY WidthsTyped
<1>1. CASE Files(v) = {}
  <2>1. s = <<>> /\ Len(s) = 0
      BY <1>1 DEF FileClusters
  <2> QED BY <1>0, <1>1, <2>1
<1>2. CASE Files(v) # {}
  <2>1. s = Chain(v, v.dir[First(Files(v))].cluster, BufSectors + 1)
      BY <1>2 DEF FileClusters
  <2>2. /\ s \in Seq(Usable) /\ Len(s) \in 0 .. BufSectors + 1
        /\ s # <<>> => s[1] = v.dir[First(Files(v))].cluster
        /\ \A k \in 1 .. BufSectors + 1 - 1 : k + 1 \in 1 .. Len(s) => s[k + 1] = Link(v, s[k])
        /\ \A k \in 1 .. BufSectors + 1 - 1 : k = Len(s) => Link(v, s[k]) \notin Usable
    <3> HIDE DEF Usable, Link
    <3> QED BY <1>0, <2>1, ChainIs
  <2> QED BY <1>0, <1>2, <2>2
<1> QED BY <1>1, <1>2

\* On a plain volume the entries read_file finds are the file's
\* (fat32.c:48-96).
LEMMA PlainNamed ==
    ASSUME NEW v, VolumeOK(v), Plain(v)
    PROVE  Named(v) = Files(v)
BY DEF Plain, Named, Listed, Files

\* The clusters that an 8-bit offset reaches are read from the directory and
\* looked up in the FAT as they are (fat32.c:20-22, 70).
LEMMA PlainCluster ==
    ASSUME NEW c \in Nat, c < Byte \div EntryBytes
    PROVE  /\ LowCluster(c) = c
           /\ \A v : FatEntry(v, c) = c
<1> DEFINE q == Byte \div EntryBytes
<1>1. /\ q \in Nat /\ EntryBytes * q <= Byte /\ Byte \in Nat \ {0} /\ EntryBytes \in Nat
      /\ EntryBytes >= 2
    BY WidthsTyped
<1>2. c <= q - 1
    BY <1>1
<1> HIDE DEF q
<1>3. c * EntryBytes <= q * EntryBytes - EntryBytes /\ c * EntryBytes \in Nat
  <2>1. c * EntryBytes <= (q - 1) * EntryBytes
      BY <1>1, <1>2
  <2>2. (q - 1) * EntryBytes = q * EntryBytes - EntryBytes
      BY <1>1
  <2> QED BY <1>1, <2>1, <2>2
<1>4. c * EntryBytes < Byte
    BY <1>1, <1>3
<1>5. 2 * c <= c * EntryBytes
    BY <1>1
<1>6. \A v : FatEntry(v, c) = c
  <2>1. c * EntryBytes % Byte = c * EntryBytes
      BY <1>1, <1>3, <1>4
  <2>2. (c * EntryBytes) \div EntryBytes = c
      BY <1>1
  <2> QED BY <2>1, <2>2 DEF FatEntry
<1>7. LowCluster(c) = c
  <2>1. 2 * c < Byte
      BY <1>1, <1>3, <1>4, <1>5
  <2>3. c % Byte = c
      BY <1>1, <2>1
  <2>4. c < Byte \div 2
      BY <1>1, <1>2, <1>5, <1>3, <1>4
  <2>5. c % (Byte * Byte) = c
    <3>1. c < Byte * Byte
        BY <1>1, <2>1
    <3> QED BY <3>1, WidthsTyped
  <2>6. ~(c % Byte >= Byte \div 2)
      BY <1>1, <2>3, <2>4
  <2> QED BY <2>5, <2>6 DEF LowCluster
<1> QED BY <1>6, <1>7

\* On a plain volume get_first_sector_of_cluster is FAT32's rule
\* (fat32.c:38-46).
LEMMA PlainSectors ==
    ASSUME NEW v, VolumeOK(v), Plain(v), NEW c \in Usable, TrueSector(v, c) < v.size
    PROVE  /\ FirstSector(v, c) = TrueSector(v, c)
           /\ TrueSector(v, c) \in 0 .. LbaLimit - 1
<1>1. /\ v.bytesPerSector \in Nat \ {0} /\ v.rootEntries = 0 /\ v.reserved \in Nat /\ v.fats \in Nat
      /\ v.perFat \in Nat /\ v.perCluster = 1 /\ v.perFat < Byte * Byte /\ v.size <= LbaLimit
      /\ v.size \in Nat
    BY DEF VolumeOK, Plain
<1>2. v.perFat % (Byte * Byte) = v.perFat
    BY <1>1, WidthsTyped
<1>3. (v.rootEntries * 32 + v.bytesPerSector - 1) \div v.bytesPerSector = 0
    BY <1>1
<1>4. FirstSector(v, c) = ((c - 2) * 1 + (v.reserved + v.fats * v.perFat + 0)) % Word
    BY <1>1, <1>2, <1>3 DEF FirstSector
<1> DEFINE p == v.fats * v.perFat
<1>5. p \in Nat
    BY <1>1
<1>6. TrueSector(v, c) = (c - 2) * 1 + v.reserved + p
    BY <1>1 DEF TrueSector
<1>7. c \in Nat /\ c >= 2
    BY WidthsTyped DEF Usable
<1> HIDE DEF p
<1>8. TrueSector(v, c) = c - 2 + v.reserved + p
    BY <1>1, <1>5, <1>6, <1>7
<1>9. FirstSector(v, c) = (c - 2 + v.reserved + p) % Word
    BY <1>1, <1>4, <1>5, <1>7 DEF p
<1>10. c - 2 + v.reserved + p \in 0 .. LbaLimit - 1
    BY <1>1, <1>5, <1>7, <1>8, WidthsTyped
<1> QED BY <1>8, <1>9, <1>10, WidthsTyped

\* On a plain volume the code's steps from cluster to cluster are those of the
\* file: its first cluster, the next one, and the end (fat32.c:17-46, 107-124).
LEMMA PlainFile ==
    ASSUME NEW v, VolumeOK(v), Plain(v), NEW s, s = FileClusters(v), NEW t, t = FileSectors(v)
    PROVE  /\ Len(s) \in 0 .. BufSectors + 1 /\ Len(t) = Len(s) /\ t \in Seq(0 .. LbaLimit - 1)
           /\ \A k \in 1 .. Len(s) :
                 /\ s[k] \in Nat
                 /\ t[k] = FirstSector(v, s[k]) /\ t[k] \in 0 .. LbaLimit - 1
                 /\ k < Len(s) => NextCluster(v, s[k]) = s[k + 1] /\ s[k + 1] # 0
                 /\ k = Len(s) /\ k <= BufSectors => NextCluster(v, s[k]) = 0
           /\ Named(v) = {} => Len(s) = 0
           /\ Named(v) # {} => /\ 1 \in 1 .. Len(s)
                               /\ s[1] = LowCluster(v.dir[First(Named(v))].cluster)
<1>0. BufSectors \in Nat \ {0}
    BY WidthsTyped
<1>1. /\ s \in Seq(Usable) /\ Len(s) \in 0 .. BufSectors + 1
      /\ Files(v) = {} => s = <<>>
      /\ Files(v) # {} /\ s # <<>> => s[1] = v.dir[First(Files(v))].cluster
      /\ \A k \in 1 .. BufSectors :
            /\ k + 1 \in 1 .. Len(s) => s[k + 1] = Link(v, s[k])
            /\ k = Len(s) => Link(v, s[k]) \notin Usable
    BY FileClustersAre
<1>2. \A k \in 1 .. Len(s) : /\ s[k] < Byte \div EntryBytes
                             /\ t[k] = TrueSector(v, s[k]) /\ t[k] < v.size
                             /\ v.fat[s[k]] \notin {1, EndMark - 1}
  <2>1. DOMAIN s = 1 .. Len(s)
      BY <1>1
  <2>2. t = [i \in DOMAIN s |-> TrueSector(v, s[i])]
      BY DEF FileSectors
  <2> QED BY <2>1, <2>2 DEF Plain
<1>3. ASSUME NEW k \in 1 .. Len(s)
      PROVE  /\ s[k] \in Usable /\ s[k] \in Nat
             /\ t[k] = FirstSector(v, s[k]) /\ t[k] \in 0 .. LbaLimit - 1
  <2>1. s[k] \in Usable
      BY <1>1
  <2>2. s[k] \in Nat
      BY <2>1, WidthsTyped DEF Usable
  <2> QED BY <1>2, <2>1, <2>2, PlainSectors
<1>4. Len(t) = Len(s) /\ t \in Seq(0 .. LbaLimit - 1)
  <2>1. t = [i \in 1 .. Len(s) |-> TrueSector(v, s[i])] /\ Len(s) \in Nat
    <3>1. DOMAIN s = 1 .. Len(s)
        BY <1>1
    <3>2. t = [i \in 1 .. Len(s) |-> TrueSector(v, s[i])]
        BY <3>1, Zenon DEF FileSectors
    <3>3. Len(s) \in Nat
        BY <1>1
    <3> QED BY <3>2, <3>3
  <2>2. \A i \in 1 .. Len(s) : TrueSector(v, s[i]) \in 0 .. LbaLimit - 1
      BY <1>2, <1>3
  <2> QED BY <2>1, <2>2
<1>5. ASSUME NEW k \in 1 .. Len(s)
      PROVE  /\ s[k] \in DOMAIN v.fat /\ v.fat[s[k]] \in Nat
             /\ NextCluster(v, s[k]) = IF v.fat[s[k]] >= EndMark THEN 0 ELSE v.fat[s[k]]
  <2>1. FatEntry(v, s[k]) = s[k]
      BY <1>2, <1>3, PlainCluster
  <2>2. s[k] \in DOMAIN v.fat
      BY <1>3, <2>1, FatEntryTyped
  <2>3. v.fat[s[k]] \in 0 .. Word - 1
      BY <2>2 DEF VolumeOK
  <2>4. FatSector(v) = v.reserved
    <3>1. v.reserved \in Nat /\ v.reserved < Byte
        BY DEF Plain, VolumeOK
    <3> QED BY <3>1, WidthsTyped DEF FatSector
  <2> QED BY <2>1, <2>2, <2>3, <2>4 DEF NextCluster
<1>6. ASSUME NEW k \in 1 .. Len(s), k < Len(s) PROVE NextCluster(v, s[k]) = s[k + 1] /\ s[k + 1] # 0
  <2>1. k \in 1 .. BufSectors /\ k + 1 \in 1 .. Len(s)
      BY <1>0, <1>1, <1>6
  <2>2. s[k + 1] = v.fat[s[k]]
      BY <1>1, <1>5, <2>1 DEF Link
  <2>3. s[k + 1] \in 2 .. EndMark - 2
      BY <1>3, <2>1 DEF Usable
  <2> QED BY <1>5, <2>2, <2>3, WidthsTyped
<1>7. ASSUME NEW k \in 1 .. Len(s), k = Len(s), k <= BufSectors PROVE NextCluster(v, s[k]) = 0
  <2>1. k \in 1 .. BufSectors
      BY <1>0, <1>7
  <2>2. v.fat[s[k]] \notin 2 .. EndMark - 2
      BY <1>1, <1>5, <1>7, <2>1 DEF Link, Usable
  <2>3. v.fat[s[k]] \notin {1, EndMark - 1} /\ v.fat[s[k]] \in Nat
      BY <1>2, <1>5
  <2>4. v.fat[s[k]] >= EndMark \/ v.fat[s[k]] = 0
    <3>1. \A e \in Nat : e \notin 2 .. EndMark - 2 /\ e \notin {1, EndMark - 1} => e >= EndMark \/ e = 0
        BY WidthsTyped
    <3> QED BY <2>2, <2>3, <3>1
  <2> QED BY <1>5, <2>4
<1>8. Named(v) = {} => Len(s) = 0
    BY <1>1, PlainNamed
<1>9. ASSUME Named(v) # {}
      PROVE  1 \in 1 .. Len(s) /\ s[1] = LowCluster(v.dir[First(Named(v))].cluster)
  <2>1. Files(v) = Named(v) /\ s # <<>>
      BY <1>9, PlainNamed DEF Plain
  <2>2. 1 \in 1 .. Len(s)
      BY <1>1, <2>1
  <2>3. s[1] = v.dir[First(Named(v))].cluster
      BY <1>1, <1>9, <2>1
  <2>4. LowCluster(s[1]) = s[1]
      BY <1>2, <1>3, <2>2, PlainCluster
  <2> QED BY <2>2, <2>3, <2>4
<1> QED BY <1>1, <1>3, <1>4, <1>6, <1>7, <1>8, <1>9

-----------------------------------------------------------------------------
\* n sectors are in the buffer: they are the first n of the file.  The data
\* asked for are those of cluster n + 1; the FAT is asked for the one after
\* cluster n.
Follows ==
    LET s == FileClusters(vol)
        t == FileSectors(vol)
        n == Len(buf)
    IN  /\ pc \in {"boot", "dir"} => n = 0
        /\ pc \in {"boot", "dir", "data", "fat"} => n <= Len(s) /\ \A j \in 1 .. n : buf[j] = t[j]
        /\ pc = "data" => n + 1 \in 1 .. Len(s) /\ cluster = s[n + 1] /\ asked = t[n + 1]
        /\ pc = "fat" => n \in 1 .. Len(s) /\ cluster = s[n]
        /\ pc = "smashed" => Len(s) > BufSectors
\* The inductive invariant of the copying.
FollowInv == Plain(vol) => Follows /\ ReadsTheFile

\* What FatInv says of the buffer and the volume.
LEMMA BufIs ==
    ASSUME FatInv
    PROVE  /\ buf \in Seq(0 .. LbaLimit - 1) /\ Len(buf) \in Nat /\ Len(buf) <= BufSectors
           /\ vol \in Volumes /\ VolumeOK(vol)
BY VolumesTyped DEF FatInv

\* A buffer with as many sectors as the file, each in its place, is the file.
LEMMA WholeFile ==
    ASSUME FatInv, Plain(vol), Len(buf) = Len(FileClusters(vol)),
           \A j \in 1 .. Len(buf) : buf[j] = FileSectors(vol)[j]
    PROVE  buf = FileSectors(vol)
<1> DEFINE t == FileSectors(vol)
<1>1. t \in Seq(0 .. LbaLimit - 1) /\ Len(t) = Len(buf)
    BY BufIs, PlainFile
<1>2. buf \in Seq(0 .. LbaLimit - 1) /\ \A j \in 1 .. Len(buf) : buf[j] = t[j]
    BY BufIs
<1> HIDE DEF t
<1>3. buf = t
    BY <1>1, <1>2, SeqEqual
<1> QED BY <1>3 DEF t

\* The directory leads to the file's first cluster, or to none (fat32.c:86-106).
LEMMA DirectoryFollows ==
    ASSUME FatInv, FollowInv, ReadDirectory
    PROVE  FollowInv'
<1> SUFFICES ASSUME Plain(vol) PROVE Follows' /\ ReadsTheFile'
    BY DEF FollowInv, ReadDirectory
<1> DEFINE s == FileClusters(vol)
           t == FileSectors(vol)
<1>0. /\ pc = "dir" /\ vol' = vol /\ buf' = buf /\ Len(buf) = 0 /\ VolumeOK(vol)
    BY VolumesTyped DEF ReadDirectory, FollowInv, Follows, FatInv
<1>1. /\ Len(s) \in 0 .. BufSectors + 1
      /\ \A k \in 1 .. Len(s) : t[k] = FirstSector(vol, s[k])
      /\ Named(vol) = {} => Len(s) = 0
      /\ Named(vol) # {} => 1 \in 1 .. Len(s) /\ s[1] = LowCluster(vol.dir[First(Named(vol))].cluster)
    BY <1>0, PlainFile
<1> HIDE DEF s, t
<1>2. CASE Named(vol) = {} /\ pc' = "read"
  <2>1. buf = t
    <3>1. Len(buf) = Len(s) /\ \A j \in 1 .. Len(buf) : buf[j] = t[j]
        BY <1>0, <1>1, <1>2
    <3> QED BY <3>1, WholeFile DEF s, t
  <2> QED BY <1>0, <1>2, <2>1 DEF Follows, ReadsTheFile, t
<1>3. CASE /\ Named(vol) # {} /\ pc' = "data"
           /\ cluster' = LowCluster(vol.dir[First(Named(vol))].cluster)
           /\ asked' = FirstSector(vol, cluster')
  <2>1. 0 + 1 \in 1 .. Len(s) /\ cluster' = s[0 + 1] /\ asked' = t[0 + 1] /\ 0 <= Len(s)
      BY <1>1, <1>3
  <2>2. Len(buf') = 0 /\ 1 .. 0 = {}
      BY <1>0
  <2> QED BY <1>0, <1>3, <2>1, <2>2 DEF Follows, ReadsTheFile, s, t
<1> QED BY <1>2, <1>3 DEF ReadDirectory, Command

\* The sector copied is the one after those in the buffer, and one that finds
\* it full is one too many for it (fat32.c:107-114).
LEMMA DataFollows ==
    ASSUME FatInv, FollowInv, ReadData
    PROVE  FollowInv'
<1> SUFFICES ASSUME Plain(vol) PROVE Follows' /\ ReadsTheFile'
    BY DEF FollowInv, ReadData
<1> DEFINE s == FileClusters(vol)
           t == FileSectors(vol)
           n == Len(buf)
<1>0. /\ pc = "data" /\ vol' = vol /\ cluster' = cluster /\ VolumeOK(vol) /\ DriveInv /\ Transfer
      /\ n <= Len(s) /\ \A j \in 1 .. n : buf[j] = t[j]
      /\ n + 1 \in 1 .. Len(s) /\ cluster = s[n + 1] /\ asked = t[n + 1]
    BY VolumesTyped DEF ReadData, FollowInv, Follows, FatInv
<1>1. Len(s) \in 0 .. BufSectors + 1 /\ \A k \in 1 .. Len(s) : t[k] \in 0 .. LbaLimit - 1
    BY <1>0, PlainFile
<1>2. n \in Nat /\ n <= BufSectors /\ BufSectors \in Nat
    BY BufIs, WidthsTyped
<1>3. lba = t[n + 1]
  <2>1. lba = asked % LbaLimit
      BY <1>0, Transferred
  <2>2. t[n + 1] \in 0 .. LbaLimit - 1
      BY <1>0, <1>1
  <2>3. \A x \in 0 .. LbaLimit - 1 : x % LbaLimit = x
      BY WidthsTyped
  <2> QED BY <1>0, <2>1, <2>2, <2>3
<1> HIDE DEF s, t
<1>4. CASE n = BufSectors /\ pc' = "smashed" /\ buf' = buf
  <2>1. Len(s) > BufSectors
      BY <1>0, <1>1, <1>2, <1>4
  <2> QED BY <1>0, <1>4, <2>1 DEF Follows, ReadsTheFile, s
<1>5. CASE n < BufSectors /\ pc' = "fat" /\ buf' = Append(buf, lba)
  <2>1. Len(buf') = n + 1 /\ (\A j \in 1 .. n : buf'[j] = buf[j]) /\ buf'[n + 1] = lba
      BY <1>5, Extended
  <2>2. \A j \in 1 .. n + 1 : buf'[j] = t[j]
    <3> SUFFICES ASSUME NEW j \in 1 .. n + 1 PROVE buf'[j] = t[j]
        OBVIOUS
    <3>1. j \in 1 .. n \/ j = n + 1
        BY <1>2
    <3> QED BY <3>1, <1>0, <1>3, <2>1
  <2>3. n + 1 <= Len(s)
      BY <1>0, <1>1
  <2> HIDE DEF n
  <2> QED BY <1>0, <1>5, <2>1, <2>2, <2>3 DEF Follows, ReadsTheFile, s, t
<1> QED BY <1>4, <1>5 DEF ReadData

\* The FAT leads to the file's next cluster, or the file is complete
\* (fat32.c:115-124).
LEMMA FatFollows ==
    ASSUME FatInv, FollowInv, ReadFat
    PROVE  FollowInv'
<1> SUFFICES ASSUME Plain(vol) PROVE Follows' /\ ReadsTheFile'
    BY DEF FollowInv, ReadFat
<1> DEFINE s == FileClusters(vol)
           t == FileSectors(vol)
           n == Len(buf)
<1>0. /\ pc = "fat" /\ vol' = vol /\ buf' = buf /\ cluster' = NextCluster(vol, cluster) /\ VolumeOK(vol)
      /\ n <= Len(s) /\ \A j \in 1 .. n : buf[j] = t[j]
      /\ n \in 1 .. Len(s) /\ cluster = s[n]
    BY VolumesTyped DEF ReadFat, FollowInv, Follows, FatInv
<1>1. /\ Len(s) \in 0 .. BufSectors + 1
      /\ \A k \in 1 .. Len(s) :
            /\ t[k] = FirstSector(vol, s[k])
            /\ k < Len(s) => NextCluster(vol, s[k]) = s[k + 1] /\ s[k + 1] # 0
            /\ k = Len(s) /\ k <= BufSectors => NextCluster(vol, s[k]) = 0
    BY <1>0, PlainFile
<1>2. n \in Nat /\ n <= BufSectors /\ BufSectors \in Nat
    BY BufIs, WidthsTyped
<1> HIDE DEF s, t
<1>3. CASE cluster' = 0 /\ pc' = "read"
  <2>1. n = Len(s)
    <3>1. ~(n < Len(s))
        BY <1>0, <1>1, <1>3
    <3> QED BY <3>1, <1>0, <1>1
  <2>2. buf = t
      BY <1>0, <2>1, WholeFile DEF s, t
  <2> QED BY <1>0, <1>3, <2>2 DEF Follows, ReadsTheFile, t
<1>4. CASE cluster' # 0 /\ asked' = FirstSector(vol, cluster') /\ pc' = "data"
  <2>1. n < Len(s)
      BY <1>0, <1>1, <1>2, <1>4
  <2>2. n + 1 \in 1 .. Len(s) /\ cluster' = s[n + 1]
      BY <1>0, <1>1, <1>2, <2>1
  <2>3. asked' = t[n + 1]
      BY <1>1, <1>4, <2>2
  <2> QED BY <1>0, <1>4, <2>2, <2>3 DEF Follows, ReadsTheFile, s, t
<1> QED BY <1>3, <1>4 DEF ReadFat, Command

\* All steps of read_file (fat32.c:86-127).
LEMMA FileFollows ==
    ASSUME FatInv, FollowInv, ReadFile \/ Driver \/ Drive \/ Step
    PROVE  FollowInv'
<1>1. CASE ReadFile
  <2>1. pc' = "boot" /\ buf' = <<>> /\ vol' = vol
      BY <1>1 DEF ReadFile
  <2>2. Len(buf') = 0 /\ 1 .. 0 = {}
      BY <2>1
  <2>3. Plain(vol) => 0 <= Len(FileClusters(vol))
    <3>1. Plain(vol) => Len(FileClusters(vol)) \in 0 .. BufSectors + 1
        BY BufIs, PlainFile
    <3> QED BY <3>1, WidthsTyped
  <2> QED BY <2>1, <2>2, <2>3 DEF FollowInv, Follows, ReadsTheFile
<1>2. CASE Driver \/ Drive
  <2>1. UNCHANGED <<vol, pc, cluster, buf, asked>>
      BY <1>2 DEF Driver, Drive, Poll, Serve, fileVars
  <2> QED BY <2>1 DEF FollowInv, Follows, ReadsTheFile
<1>3. CASE ReadBoot
  <2>1. pc = "boot" /\ pc' \in {"dir", "panic"} /\ UNCHANGED <<vol, buf>>
      BY <1>3 DEF ReadBoot
  <2> QED BY <2>1 DEF FollowInv, Follows, ReadsTheFile
<1> QED BY <1>1, <1>2, <1>3, DirectoryFollows, DataFollows, FatFollows DEF Step

\* What read_file returns is the file, and the stack beyond its buffer is
\* written only for a file that is too long (shell.c:81, fat32.c:113).
LEMMA FollowSound == FatInv /\ FollowInv => ReadsTheFile /\ StackKept
<1> SUFFICES ASSUME FatInv, FollowInv PROVE ReadsTheFile /\ StackKept
    OBVIOUS
<1>1. ReadsTheFile
    BY DEF FollowInv, ReadsTheFile
<1>2. ASSUME pc = "smashed", Plain(vol) PROVE ~Fits(vol)
  <2>1. Len(FileClusters(vol)) > BufSectors
      BY <1>2 DEF FollowInv, Follows
  <2>2. Len(FileSectors(vol)) = Len(FileClusters(vol)) /\ Len(FileClusters(vol)) \in 0 .. BufSectors + 1
      BY <1>2, BufIs, PlainFile
  <2> QED BY <2>1, <2>2, WidthsTyped DEF Fits
<1> QED BY <1>1, <1>2 DEF StackKept
-----------------------------------------------------------------------------

\* The loader (elf.c:135-174) leaves the disk and the buffer alone.
LEMMA LoaderKeeps ==
    ASSUME FatInv, FollowInv, UNCHANGED <<diskVars, vol, cluster, buf>>,
           pc \in {"read", "load"}, pc' \in {"idle", "load", "fault", "corrupt", "ran"}
    PROVE  FatInv' /\ FollowInv'
<1>1. UNCHANGED <<drive, size, lba, asked, polls, buffer8, vol, cluster, buf>>
    BY DEF diskVars
<1>2. DriveInv'
    BY <1>1 DEF DriveInv, FatInv
<1>3. pc' \in Kinds /\ pc \notin {"boot", "dir", "data", "fat", "idle", "panic"}
      /\ pc' \notin {"boot", "dir", "data", "fat", "read", "smashed"}
    BY DEF Kinds
<1>4. FatInv'
    BY <1>1, <1>2, <1>3 DEF FatInv, Reading
<1>5. FollowInv'
    BY <1>3 DEF FollowInv, Follows, ReadsTheFile
<1> QED BY <1>4, <1>5

\* FatInv and FollowInv hold when the kernel starts.
LEMMA Initially == ExecInit => FatInv /\ FollowInv
<1> SUFFICES ASSUME ExecInit PROVE FatInv /\ FollowInv
    OBVIOUS
<1>1. FatInit
    BY DEF ExecInit
<1>2. FatInv
    BY <1>1, FatInitial
<1>3. pc = "idle"
    BY <1>1 DEF FatInit
<1>4. FollowInv
    BY <1>3 DEF FollowInv, Follows, ReadsTheFile
<1> QED BY <1>2, <1>4

\* They are kept by each step of boot, read_file, driver and loader.
LEMMA Stepwise ==
    ASSUME FatInv, FollowInv, [ExecNext]_execVars
    PROVE  FatInv' /\ FollowInv'
<1>1. CASE Boot \/ UNCHANGED execVars
  <2>1. UNCHANGED <<drive, size, lba, asked, polls, buffer8, vol, pc, cluster, buf>>
      BY <1>1 DEF Boot, Idle, execVars, diskVars, fileVars
  <2>2. DriveInv'
      BY <2>1 DEF FatInv, DriveInv
  <2>3. FatInv'
      BY <2>1, <2>2 DEF FatInv, Reading
  <2>4. FollowInv'
      BY <2>1 DEF FollowInv, Follows, ReadsTheFile
  <2> QED BY <2>3, <2>4
<1>2. CASE Command_exec
  <2>1. ReadFile
      BY <1>2 DEF Command_exec
  <2> QED BY <2>1, ReadFileKeeps, FileFollows
<1>3. CASE Read
  <2>1. Driver \/ Drive \/ Step
      BY <1>3 DEF Read
  <2>2. FatInv'
      BY <2>1, DriveKeeps, ReadBootKeeps, ReadDirectoryKeeps, ReadDataKeeps, ReadFatKeeps DEF Step
  <2> QED BY <2>1, <2>2, FileFollows
<1>4. CASE ReadElf
  <2>1. pc = "read" /\ pc' \in {"idle", "load"} /\ UNCHANGED <<diskVars, vol, cluster, buf>>
      BY <1>4 DEF ReadElf
  <2> QED BY <2>1, LoaderKeeps
<1>5. CASE SkipSection
  <2>1. pc = "load" /\ pc' = pc /\ UNCHANGED <<diskVars, vol, cluster, buf>>
      BY <1>5 DEF SkipSection, fileVars
  <2> QED BY <2>1, LoaderKeeps
<1>6. CASE LoadSection
  <2>1. pc = "load" /\ pc' \in {pc, "fault", "corrupt"} /\ UNCHANGED <<diskVars, vol, cluster, buf>>
      BY <1>6 DEF LoadSection
  <2> QED BY <2>1, LoaderKeeps
<1>7. CASE Jump
  <2>1. pc = "load" /\ pc' \in {"fault", "ran"} /\ UNCHANGED <<diskVars, vol, cluster, buf>>
      BY <1>7 DEF Jump
  <2> QED BY <2>1, LoaderKeeps
<1> QED BY <1>1, <1>2, <1>3, <1>4, <1>5, <1>6, <1>7 DEF ExecNext

\* read_file (fat32.c:86-127) gives its caller every sector of the file of a
\* plain volume, in order and no other.  From FollowInv.
THEOREM FileRead == ExecSpec => []ReadsTheFile
<1>1. ExecSpec => [](FatInv /\ FollowInv)
    BY Initially, Stepwise, PTL DEF ExecSpec
<1> QED BY <1>1, FollowSound, PTL

\* On a plain volume the caller's stack (shell.c:81, fat32.c:113) is written
\* over only for a file that is longer than the buffer.  From FollowInv.
THEOREM StackSafe == ExecSpec => []StackKept
<1>1. ExecSpec => [](FatInv /\ FollowInv)
    BY Initially, Stepwise, PTL DEF ExecSpec
<1> QED BY <1>1, FollowSound, PTL

-----------------------------------------------------------------------------
\* The sector asked for fits a command.
AskedInv == asked # NoSector => asked < LbaLimit

\* A sector that fits a command is not cut (disk.c:120-132).
LEMMA Small ==
    ASSUME NEW s \in Nat, s < LbaLimit
    PROVE  s % LbaLimit = s /\ s # NoSector
BY WidthsTyped

\* A command for a sector that fits keeps AskedInv.
LEMMA AskedBy ==
    ASSUME NEW s \in Nat, s < LbaLimit, Command(s)
    PROVE  AskedInv'
BY Small DEF Command, AskedInv

\* So does the end of a command.
LEMMA AskedNothing ==
    ASSUME Quiet
    PROVE  AskedInv'
BY DEF Quiet, AskedInv

\* A transfer answers with the sector asked for (disk.c:175-198).
LEMMA Answers ==
    ASSUME FatInv, AskedInv, Transfer, asked' \in Nat \union {NoSector}
    PROVE  Device!Answer
<1>1. asked # NoSector /\ buffer8' = lba /\ lba = asked % LbaLimit
    BY Transferred DEF FatInv
<1>2. asked \in Nat /\ asked < LbaLimit
    BY <1>1, WidthsTyped DEF FatInv, DriveInv, AskedInv
<1>3. buffer8' = asked
    BY <1>1, <1>2, Small
<1> QED BY <1>1, <1>3 DEF Device!Answer

\* A cluster that read_file may be led to has a sector that fits a command.
LEMMA SectorAddressable ==
    ASSUME NEW v, VolumeOK(v), Addressable(v), v.bytesPerSector # 0, NEW c \in Leads(v), c \in Int
    PROVE  FirstSector(v, c) \in Nat /\ FirstSector(v, c) < LbaLimit
<1>1. FirstSector(v, c) \in 0 .. Word - 1
    BY FirstSectorTyped
<1>2. FirstSector(v, c) < LbaLimit
    BY DEF Addressable
<1> QED BY <1>1, <1>2, WidthsTyped

\* read_ebpb leads to the root directory's cluster (fat32.c:88).
LEMMA BootLeads == ASSUME NEW v, VolumeOK(v) PROVE v.root \in Leads(v) /\ v.root \in Int
BY DEF Leads, VolumeOK

\* The directory leads to an entry's cluster (fat32.c:106).
LEMMA DirectoryLeads ==
    ASSUME NEW v, VolumeOK(v), Named(v) # {}, NEW c, c = LowCluster(v.dir[First(Named(v))].cluster)
    PROVE  c \in Leads(v) /\ c \in Int
<1>1. First(Named(v)) \in Named(v) /\ v.dir[First(Named(v))].cluster \in Nat
    BY NamedTyped
<1>2. c \in Int
    BY <1>1, LowClusterTyped, WidthsTyped
<1> QED BY <1>1, <1>2 DEF Leads

\* The FAT leads to one of its clusters, or to the stray one (fat32.c:17-34).
LEMMA FatLeads ==
    ASSUME NEW v, VolumeOK(v), NEW d \in Nat, NEW c, c = NextCluster(v, d), c # 0
    PROVE  c \in Leads(v) /\ c \in Int
<1> DEFINE e == FatEntry(v, d)
           x == IF FatSector(v) = v.reserved THEN v.fat[e] ELSE v.stray
<1>1. e \in 0 .. (Byte - 1) \div EntryBytes /\ e \in DOMAIN v.fat
    BY FatEntryTyped
<1>2. c = IF x >= EndMark THEN 0 ELSE x
    BY DEF NextCluster
<1> HIDE DEF e
<1>3. x \in {v.fat[i] : i \in 0 .. (Byte - 1) \div EntryBytes} \union {v.stray}
    BY <1>1
<1>4. x \in Nat
  <2>1. v.stray \in 0 .. Word - 1 /\ v.fat[e] \in 0 .. Word - 1
      BY <1>1 DEF VolumeOK
  <2> QED BY <2>1, WidthsTyped
<1> HIDE DEF x
<1>5. c = x /\ c \in 1 .. EndMark - 1
    BY <1>2, <1>4, WidthsTyped
<1> QED BY <1>3, <1>5 DEF Leads

\* Each step of read_file is an answer of the abstract device.
LEMMA ReadAnswers ==
    ASSUME FatInv, AskedInv, Step, Addressable(vol)
    PROVE  AskedInv' /\ Device!Answer
<1>0. VolumeOK(vol) /\ LbaLimit \in Nat
    BY BufIs, WidthsTyped
<1>1. CASE ReadBoot
  <2>1. CASE Transfer /\ Quiet
    <3>1. asked' \in Nat \union {NoSector}
        BY <2>1 DEF Quiet
    <3> QED BY <2>1, <3>1, AskedNothing, Answers
  <2>2. CASE Transfer /\ vol.bytesPerSector # 0 /\ Command(FirstSector(vol, vol.root)) /\ pc' = "dir"
    <3>1. FirstSector(vol, vol.root) \in Nat /\ FirstSector(vol, vol.root) < LbaLimit
        BY <1>0, <2>2, BootLeads, SectorAddressable
    <3>2. asked' \in Nat \union {NoSector}
        BY <2>2, <3>1 DEF Command
    <3> QED BY <2>2, <3>1, <3>2, AskedBy, Answers
  <2> QED BY <1>1, <2>1, <2>2 DEF ReadBoot
<1>2. CASE ReadDirectory
  <2>0. vol.bytesPerSector # 0
      BY <1>2 DEF ReadDirectory, FatInv
  <2>1. CASE Transfer /\ Quiet
    <3>1. asked' \in Nat \union {NoSector}
        BY <2>1 DEF Quiet
    <3> QED BY <2>1, <3>1, AskedNothing, Answers
  <2>2. CASE /\ Transfer /\ Named(vol) # {} /\ cluster' = LowCluster(vol.dir[First(Named(vol))].cluster)
             /\ Command(FirstSector(vol, cluster')) /\ pc' = "data"
    <3>0. cluster' \in Leads(vol) /\ cluster' \in Int
        BY <1>0, <2>2, DirectoryLeads
    <3>1. FirstSector(vol, cluster') \in Nat /\ FirstSector(vol, cluster') < LbaLimit
        BY <1>0, <2>0, <3>0, SectorAddressable
    <3>2. asked' \in Nat \union {NoSector}
        BY <2>2, <3>1 DEF Command
    <3> QED BY <2>2, <3>1, <3>2, AskedBy, Answers
  <2> QED BY <1>2, <2>1, <2>2 DEF ReadDirectory
<1>3. CASE ReadData
  <2>1. CASE Transfer /\ Quiet
    <3>1. asked' \in Nat \union {NoSector}
        BY <2>1 DEF Quiet
    <3> QED BY <2>1, <3>1, AskedNothing, Answers
  <2>2. CASE Transfer /\ Command(FatSector(vol)) /\ pc' = "fat"
    <3>1. FatSector(vol) \in Nat /\ FatSector(vol) < LbaLimit
      <4>1. vol.reserved \in Nat
          BY <1>0 DEF VolumeOK
      <4> QED BY <4>1, WidthsTyped DEF FatSector, Addressable
    <3>2. asked' \in Nat \union {NoSector}
        BY <2>2, <3>1 DEF Command
    <3> QED BY <2>2, <3>1, <3>2, AskedBy, Answers
  <2> QED BY <1>3, <2>1, <2>2 DEF ReadData
<1>4. CASE ReadFat
  <2>0. vol.bytesPerSector # 0 /\ cluster \in Nat
      BY <1>4, WidthsTyped DEF ReadFat, FatInv
  <2>1. CASE Transfer /\ Quiet
    <3>1. asked' \in Nat \union {NoSector}
        BY <2>1 DEF Quiet
    <3> QED BY <2>1, <3>1, AskedNothing, Answers
  <2>2. CASE /\ Transfer /\ cluster' = NextCluster(vol, cluster) /\ cluster' # 0
             /\ Command(FirstSector(vol, cluster')) /\ pc' = "data"
    <3>0. cluster' \in Leads(vol) /\ cluster' \in Int
        BY <1>0, <2>0, <2>2, FatLeads
    <3>1. FirstSector(vol, cluster') \in Nat /\ FirstSector(vol, cluster') < LbaLimit
        BY <1>0, <2>0, <3>0, SectorAddressable
    <3>2. asked' \in Nat \union {NoSector}
        BY <2>2, <3>1 DEF Command
    <3> QED BY <2>2, <3>1, <3>2, AskedBy, Answers
  <2> QED BY <1>4, <2>1, <2>2 DEF ReadFat
<1> QED BY <1>1, <1>2, <1>3, <1>4 DEF Step

\* Each step of "exec" is a step of the abstract device or none.
LEMMA DeviceStep ==
    ASSUME \A v \in Volumes : Addressable(v), FatInv, AskedInv, [ExecNext]_execVars
    PROVE  AskedInv' /\ [Device!Ask \/ Device!Answer]_<<asked, buffer8>>
<1>0. Addressable(vol)
    BY DEF FatInv
<1>1. CASE UNCHANGED <<asked, buffer8>>
    BY <1>1 DEF AskedInv
<1>2. CASE ReadFile
  <2>1. asked = NoSector /\ Command(0) /\ buffer8' = buffer8 /\ pc' = "boot"
      BY <1>2 DEF ReadFile, FatInv, Reading
  <2>2. AskedInv'
      BY <2>1, AskedBy, WidthsTyped
  <2>3. Device!Ask
      BY <2>1 DEF Device!Ask, Command
  <2> QED BY <2>2, <2>3
<1>3. CASE Driver \/ Drive
    BY <1>3, <1>1 DEF Driver, Drive, Poll, Serve
<1>4. CASE Step
    BY <1>0, <1>4, ReadAnswers
<1>5. CASE Boot \/ UNCHANGED execVars
    BY <1>1, <1>5 DEF Boot, Idle, execVars, diskVars, fileVars
<1>6. CASE ReadElf \/ SkipSection \/ LoadSection \/ Jump
    BY <1>1, <1>6 DEF ReadElf, SkipSection, LoadSection, Jump, diskVars
<1> QED BY <1>2, <1>3, <1>4, <1>5, <1>6 DEF ExecNext, Command_exec, Read

\* The driver (disk.c:114-198) is the abstract block device on volumes whose
\* sectors fit a command: it returns the sector asked for, never the one before
\* or one still on its way.  From FatInv, step by step.
THEOREM DriverImplements ==
    ASSUME \A v \in Volumes : Addressable(v)
    PROVE  ExecSpec => ImplementsBlockDevice
<1>1. ExecSpec => [](FatInv /\ FollowInv)
    BY Initially, Stepwise, PTL DEF ExecSpec
<1>2. ExecInit => AskedInv /\ Device!Init
    BY DEF ExecInit, FatInit, DiskInit, AskedInv, Device!Init
<1>3. FatInv /\ AskedInv /\ [ExecNext]_execVars => AskedInv' /\ [Device!Ask \/ Device!Answer]_<<asked, buffer8>>
    BY DeviceStep
<1> QED BY <1>1, <1>2, <1>3, PTL DEF ExecSpec, ImplementsBlockDevice, Device!Spec

-----------------------------------------------------------------------------
\* The sizes of read_elf (elf.c:145-166).
LEMMA LoaderTyped ==
    /\ PageSectors \in Nat \ {0} /\ SizeLimit \in Nat \ {0} /\ Garbage \subseteq Seq(SectionHeader)
    /\ \A v \in Volumes : v.program.sections \in Seq(SectionHeader) /\ v.program.entry \in Nat
BY ExecAssumption DEF ExecAssumption, ElfFile

\* The loader's numbers.
LoadTyped ==
    /\ headers \in Seq(SectionHeader)
    /\ loaded \in 0 .. Len(headers)
    /\ entered \in 0 .. NoFrame
    /\ \A f \in DOMAIN content : f \in Virt

\* The page of one of kmalloc's frames leads to such a frame, if it is mapped.
Homes ==
    \A w \in Virt : w % WalkPages \in Frames(layout) =>
        Leaf(Root, mem, w) \in Frames(layout) \union {NoFrame}

\* It leads to that very frame, if it is mapped.
Straight ==
    \A w \in Virt : w % WalkPages \in Frames(layout) =>
        Leaf(Root, mem, w) \in {w % WalkPages, NoFrame}

\* Section i lies at the start of its page, in a frame kmalloc gave.
Placed(i) ==
    Taken(headers[i]) =>
        LET s == headers[i]
            f == Leaf(Root, mem, s.page)
        IN  /\ f \in Allotted(Root, used) /\ f \in DOMAIN content
            /\ content[f] = Part(s.offset, s.offset + s.size)

\* The loader's inductive invariant, beside FatInv: frames are written at their
\* own pages as long as no section comes in the way, and the sections done
\* are in place.
LoadInv ==
    /\ TreeInv /\ Noted /\ LoadTyped /\ Homes
    /\ pc \notin {"load", "ran", "fault", "corrupt"} \/ AllOwn => Straight
    /\ pc \in {"load", "ran"} /\ AllOwn => \A i \in 1 .. loaded : Placed(i)
    /\ pc = "ran" => loaded = Len(headers)
    /\ pc # "idle" => phase \in {"on", "fault"}
    /\ CopySparesTables

\* One section (elf.c:155-164): its page gets a new frame, which is no table,
\* and the copy goes to wherever that frame's own page leads.
LEMMA SectionMapped ==
    ASSUME Sane, TreeInv, Noted, LoadTyped, LoadSection, NEW w, w = Frame(used)
    PROVE  /\ TreeInv' /\ Noted' /\ layout' = layout /\ Root' = Root /\ layout \in Layouts
           /\ Section \in SectionHeader /\ Section.page \in Virt
           /\ w \in Virt /\ w % WalkPages = w /\ w \in Frames(layout) /\ w # NoFrame
           /\ w \notin Allotted(Root, used)
           /\ CopyTo(Section.page) = Leaf(Root, mem, w)'
           /\ phase' \in {"on", "fault"}
           /\ phase' = "on" => /\ Updates(Section.page, w) /\ IsData(w)'
                               /\ Allotted(Root, used) \subseteq Allotted(Root, used)'
           /\ phase' = "fault" => mem' = mem /\ used' = used
<1> DEFINE v == Section.page
<1>1. MapPage(v) /\ loaded < Len(headers)
    BY DEF LoadSection
<1>2. Section \in SectionHeader /\ v \in Virt
  <2>1. Section \in SectionHeader
      BY <1>1 DEF Section, LoadTyped
  <2> QED BY <2>1 DEF SectionHeader
<1>3. layout' = layout /\ layout \in Layouts /\ used \in Nat /\ used < MaxMaps /\ Root' = Root
  <2>1. layout' = layout /\ layout \in Layouts /\ used \in 0 .. MaxMaps /\ used + Levels <= MaxMaps
      BY <1>1 DEF MapPage, TreeInv
  <2>2. Root' = Root
      BY <2>1 DEF Root, Frame
  <2> QED BY <2>1, <2>2, SizesTyped
<1>4. layout.first \in Nat /\ Root = layout.first /\ w = layout.first + used
    BY <1>3, RootIs
<1>5. w \in Frames(layout) /\ w \notin Allotted(Root, used)
    BY <1>3, <1>4, SizesTyped DEF Frames, Allotted
<1>6. w \in Virt /\ w % WalkPages = w /\ w # NoFrame
    BY <1>3, <1>5, RoomyTyped
<1>7. CopyTo(v) = Leaf(Root, mem, w)'
  <2>1. CopyTo(v) = Leaf(Root, mem', w)
      BY <1>4, PathIs DEF CopyTo
  <2> QED BY <1>3, <2>1
<1>8. TreeInv' /\ Noted'
    BY <1>1, <1>2, MapPageTree, NotedMapped
<1>9. CASE phase' = "on"
  <2>1. Updates(v, Frame(used)) /\ used' \in Nat /\ used < used' /\ \A x : x = Frame(used) => IsData(x)'
      BY <1>1, <1>2, <1>9, MapPageTree
  <2> DEFINE m == used'
             r == Root
  <2>2. Allotted(Root, used)' = Allotted(r, m)
      BY <1>3 DEF Allotted
  <2>3. m \in Nat /\ used < m /\ r \in Nat
      BY <1>4, <2>1
  <2> HIDE DEF m, r
  <2>4. Allotted(r, used) \subseteq Allotted(r, m)
      BY <1>3, <2>3 DEF Allotted
  <2>5. Allotted(Root, used) \subseteq Allotted(Root, used)'
      BY <2>2, <2>4 DEF r
  <2>6. Updates(v, w) /\ IsData(w)'
      BY <2>1 DEF Updates
  <2> HIDE DEF v
  <2> QED BY <1>2, <1>3, <1>5, <1>6, <1>7, <1>8, <1>9, <2>5, <2>6 DEF v
<1>10. CASE phase' = "fault"
    BY <1>1, <1>2, <1>3, <1>5, <1>6, <1>7, <1>8, <1>10, MapPageTree
<1> QED BY <1>1, <1>9, <1>10 DEF MapPage

\* One page changes (paging.c:89, 550): pages of kmalloc's frames still lead to
\* such frames when it is none of them or leads to one, and to their own when it
\* is none of them or leads to its own.
LEMMA HomesKept ==
    ASSUME layout' = layout, NEW v \in Virt, NEW f, Updates(v, f)
    PROVE  /\ Homes /\ (v % WalkPages \in Frames(layout) => f \in Frames(layout)) => Homes'
           /\ Straight /\ (v % WalkPages \in Frames(layout) => f = v % WalkPages) => Straight'
<1>1. ASSUME NEW w \in Virt, Same(v, w) PROVE v % WalkPages = w % WalkPages /\ Leaf(Root, mem, w)' = f
  <2>1. v \in Nat /\ w \in Nat
      BY PagesTyped DEF Virt
  <2> QED BY <1>1, <2>1, SamePage DEF Updates
<1>2. ASSUME NEW w \in Virt, ~Same(v, w) PROVE Leaf(Root, mem, w)' = Leaf(Root, mem, w)
    BY <1>2 DEF Updates
<1>3. Frames(layout)' = Frames(layout)
    OBVIOUS
<1>4. ASSUME Homes, v % WalkPages \in Frames(layout) => f \in Frames(layout) PROVE Homes'
  <2> SUFFICES ASSUME NEW w \in Virt, w % WalkPages \in Frames(layout)
               PROVE  Leaf(Root, mem, w)' \in Frames(layout) \union {NoFrame}
      BY <1>3 DEF Homes
  <2> QED BY <1>1, <1>2, <1>4 DEF Homes
<1>5. ASSUME Straight, v % WalkPages \in Frames(layout) => f = v % WalkPages PROVE Straight'
  <2> SUFFICES ASSUME NEW w \in Virt, w % WalkPages \in Frames(layout)
               PROVE  Leaf(Root, mem, w)' \in {w % WalkPages, NoFrame}
      BY <1>3 DEF Straight
  <2> QED BY <1>1, <1>2, <1>5 DEF Straight
<1> QED BY <1>4, <1>5

\* No page changes.
LEMMA HomesSame ==
    ASSUME layout' = layout, \A w \in Virt : Leaf(Root, mem, w)' = Leaf(Root, mem, w)
    PROVE  (Homes => Homes') /\ (Straight => Straight')
BY DEF Homes, Straight

\* Before CR3 is loaded nothing but own frames are mapped at the pages of
\* kmalloc's frames (paging.c:94-401).
LEMMA BootHomes ==
    ASSUME Sane, OwnFrames, TreeInv, Noted, AllocRoot \/ MapNext \/ LoadCr3
    PROVE  /\ TreeInv' /\ Noted' /\ layout' = layout
           /\ Homes => Homes'
           /\ Straight => Straight'
<1>1. TreeInv' /\ Noted'
    BY TreeInvNext, NotedNext DEF Next
<1>2. layout' = layout /\ layout \in Layouts
    BY DEF AllocRoot, MapNext, LoadCr3, TreeInv
<1>3. CASE AllocRoot
    BY <1>1, <1>2, <1>3, AllocRootTree, HomesSame
<1>4. CASE MapNext
  <2> DEFINE b == Requests[next]
  <2>1. b \in BootMaps(layout) /\ Updates(b.page, b.frame)
      BY <1>4, MapNextTree
  <2> HIDE DEF b
  <2>2. b.page \in Virt /\ (b.page % WalkPages \in Frames(layout) => b.frame = b.page % WalkPages)
      BY <1>2, <2>1, BootMapsTyped DEF OwnFrames
  <2> QED BY <1>1, <1>2, <2>1, <2>2, HomesKept
<1>5. CASE LoadCr3
    BY <1>1, <1>2, <1>5, LoadCr3Tree, HomesSame
<1> QED BY <1>3, <1>4, <1>5

\* What copying one section does (elf.c:162-164): it writes into the new frame
\* alone when the section fits a page and goes where its frame's page leads.
LEMMA CopiedIs ==
    ASSUME NEW s, NEW t
    PROVE  /\ s.size <= PageSectors => /\ DOMAIN Copied(s, t) = {t}
                                       /\ Copied(s, t)[t] = Part(s.offset, s.offset + s.size)
           /\ DOMAIN Copied(s, t) \subseteq {t, t + 1}
<1> DEFINE whole == Part(s.offset, s.offset + s.size)
           first == Part(s.offset, s.offset + PageSectors)
           rest == Part(s.offset + PageSectors, s.offset + s.size)
<1>1. Copied(s, t) = IF s.size <= PageSectors THEN [f \in {t} |-> whole]
                     ELSE [f \in {t, t + 1} |-> IF f = t THEN first ELSE rest]
    BY DEF Copied
<1> HIDE DEF whole, first, rest
<1>2. CASE s.size <= PageSectors
  <2>1. DOMAIN Copied(s, t) = {t} /\ Copied(s, t)[t] = whole
      BY <1>1, <1>2
  <2> QED BY <1>2, <2>1 DEF whole
<1>3. CASE ~(s.size <= PageSectors)
    BY <1>1, <1>3
<1> QED BY <1>2, <1>3

\* Whether sections are on their own depends on the file and the layout.
LEMMA AllOwnSame ==
    ASSUME headers' = headers, layout' = layout
    PROVE  AllOwn' <=> AllOwn
BY DEF AllOwn, OnItsOwn, Taken, Frames

\* A section that has been placed stays where it is when frames other than its
\* own are written and pages other than its own mapped.
LEMMA PlacedStays ==
    ASSUME headers' = headers, buf' = buf, NEW i \in DOMAIN headers, Placed(i),
           Taken(headers[i]) =>
               LET f == Leaf(Root, mem, headers[i].page)
               IN  /\ Leaf(Root, mem, headers[i].page)' = f
                   /\ f \in Allotted(Root, used) => f \in Allotted(Root, used)'
                   /\ f \in Allotted(Root, used) /\ f \in DOMAIN content =>
                          f \in DOMAIN content' /\ content'[f] = content[f]
    PROVE  Placed(i)'
<1>1. headers'[i] = headers[i]
    OBVIOUS
<1> DEFINE s == headers[i]
           f == Leaf(Root, mem, s.page)
           part == Part(s.offset, s.offset + s.size)
<1>2. CASE Taken(s)
  <2>1. f \in Allotted(Root, used) /\ f \in DOMAIN content /\ content[f] = part
      BY <1>2 DEF Placed
  <2>2. f' = f /\ f \in Allotted(Root, used)' /\ f \in DOMAIN content' /\ content'[f] = content[f]
      BY <1>1, <1>2, <2>1
  <2>3. part' = part
      BY <1>1 DEF Part
  <2>4. f' \in Allotted(Root, used)' /\ f' \in DOMAIN content' /\ content'[f'] = part'
    <3> HIDE DEF f, part
    <3> QED BY <2>1, <2>2, <2>3
  <2> QED BY <2>4 DEF Placed
<1>3. CASE ~Taken(s)
  <2>1. ~Taken(s)'
      BY <1>1, <1>3 DEF Taken
  <2> QED BY <2>1 DEF Placed
<1> QED BY <1>2, <1>3

\* The copy goes to the new frame while every section is on its own, and to one
\* of kmalloc's frames in any case.
LEMMA CopyGoes ==
    ASSUME Sane, LoadInv, pc = "load", LoadSection, NEW w, w = Frame(used)
    PROVE  /\ Homes' /\ (AllOwn => Straight')
           /\ CopyTo(Section.page) \in Frames(layout) \union {NoFrame}
           /\ AllOwn => CopyTo(Section.page) \in {w, NoFrame}
<1>0. TreeInv /\ Noted /\ LoadTyped /\ Homes /\ (AllOwn => Straight)
    BY DEF LoadInv
<1>1. /\ layout' = layout /\ Root' = Root /\ Section.page \in Virt
      /\ w \in Virt /\ w % WalkPages = w /\ w \in Frames(layout)
      /\ CopyTo(Section.page) = Leaf(Root, mem, w)'
      /\ phase' \in {"on", "fault"}
      /\ phase' = "on" => Updates(Section.page, w)
      /\ phase' = "fault" => mem' = mem
    BY <1>0, SectionMapped
<1>2. AllOwn => Section.page % WalkPages \notin Frames(layout)
  <2>1. loaded < Len(headers) /\ Taken(Section)
      BY DEF LoadSection
  <2>2. loaded + 1 \in DOMAIN headers
      BY <1>0, <2>1 DEF LoadTyped
  <2> QED BY <2>1, <2>2 DEF AllOwn, OnItsOwn, Section
<1>3. Homes' /\ (AllOwn => Straight')
  <2>1. CASE phase' = "on"
      BY <1>0, <1>1, <1>2, <2>1, HomesKept
  <2>2. CASE phase' = "fault"
    <3>1. \A x \in Virt : Leaf(Root, mem, x)' = Leaf(Root, mem, x)
        BY <1>1, <2>2
    <3> QED BY <1>0, <1>1, <3>1, HomesSame
  <2> QED BY <1>1, <2>1, <2>2
<1>4. Frames(layout)' = Frames(layout)
    BY <1>1
<1> QED BY <1>1, <1>3, <1>4 DEF Homes, Straight

\* The frame a section of a page or less is copied to is no table
\* (elf.c:155-164), whatever page the program says it occupies.
LEMMA CopyIntoTable ==
    ASSUME Sane, LoadInv, pc = "load", LoadSection, Section.size <= PageSectors,
           phase' = "on", CopyTo(Section.page) # NoFrame
    PROVE  DOMAIN Copied(Section, CopyTo(Section.page)) \cap AllTables' = {}
<1>0. TreeInv /\ Noted /\ LoadTyped
    BY DEF LoadInv
<1>1. PICK w, t : w = Frame(used) /\ t = CopyTo(Section.page)
    OBVIOUS
<1>2. /\ TreeInv' /\ w \in Virt /\ w % WalkPages = w /\ w \in Frames(layout)
      /\ layout' = layout /\ t = Leaf(Root, mem, w)' /\ IsData(w)'
    BY <1>0, <1>1, SectionMapped
<1>3. t \in Frames(layout)
    BY <1>1, CopyGoes
<1>4. Frames(layout)' = Frames(layout)
    BY <1>2
<1>5. Tame'
    BY <1>2 DEF TreeInv
<1>6. IsData(t)'
    BY <1>2, <1>3, <1>4, <1>5 DEF Tame
<1>7. t \notin AllTables'
  <2>1. Sane'
      BY DEF Sane, Roomy, Clean, BootMaps, RangePages, SinglePages, Frames
  <2>2. \A x \in AllTables' : IsTable(x)'
      BY <1>2, <2>1, TablesStayHeld DEF TablesHeld
  <2> QED BY <1>6, <2>2 DEF IsData
<1>8. DOMAIN Copied(Section, t) = {t}
    BY CopiedIs
<1> QED BY <1>1, <1>7, <1>8

\* One section keeps the loader's types (elf.c:145-166).
LEMMA LoadSectionTyped ==
    ASSUME Sane, LoadInv, pc = "load", LoadSection
    PROVE  LoadTyped'
<1> DEFINE t == CopyTo(Section.page)
<1>1. headers' = headers /\ entered' = entered /\ loaded < Len(headers) /\ loaded' \in {loaded, loaded + 1}
      /\ \/ content' = content
         \/ t # NoFrame /\ content' = Over(Copied(Section, t), content)
    BY DEF LoadSection
<1>2. LoadTyped /\ layout \in Layouts
    BY DEF LoadInv, TreeInv
<1>3. ASSUME t # NoFrame PROVE {t, t + 1} \subseteq Virt
  <2>1. t \in Frames(layout)
      BY <1>3, CopyGoes
  <2> HIDE DEF t
  <2>2. t \in Nat /\ t + 1 <= WalkPages /\ WalkPages < VirtPages /\ VirtPages \in Nat /\ WalkPages \in Nat
      BY <1>2, <2>1, RoomyTyped DEF Frames
  <2> QED BY <2>2 DEF Virt
<1>4. \A f \in DOMAIN content' : f \in Virt
  <2>1. CASE content' = content
      BY <1>2, <2>1 DEF LoadTyped
  <2>2. CASE t # NoFrame /\ content' = Over(Copied(Section, t), content)
    <3>1. DOMAIN content' = DOMAIN Copied(Section, t) \union DOMAIN content
        BY <2>2 DEF Over
    <3>2. DOMAIN Copied(Section, t) \subseteq {t, t + 1}
        BY CopiedIs
    <3> HIDE DEF t
    <3> QED BY <1>2, <1>3, <2>2, <3>1, <3>2 DEF LoadTyped
  <2> QED BY <1>1, <2>1, <2>2
<1>5. loaded' \in 0 .. Len(headers)
    BY <1>1, <1>2 DEF LoadTyped
<1> QED BY <1>1, <1>2, <1>4, <1>5 DEF LoadTyped

\* And the sections done so far stay in place, with one more (elf.c:145-166).
LEMMA LoadSectionPlaces ==
    ASSUME Sane, LoadInv, pc = "load", LoadSection, pc' = "load", AllOwn
    PROVE  \A i \in 1 .. loaded' : Placed(i)'
<1> DEFINE t == CopyTo(Section.page)
<1>0. TreeInv /\ Noted /\ LoadTyped /\ Homes /\ \A i \in 1 .. loaded : Placed(i)
    BY DEF LoadInv
<1>k. PICK k, v : k = loaded + 1 /\ v = headers[k].page
    OBVIOUS
<1>1. /\ headers' = headers /\ buf' = buf /\ loaded < Len(headers) /\ loaded' = k
      /\ phase' = "on" /\ t # NoFrame /\ content' = Over(Copied(Section, t), content)
      /\ Taken(headers[k]) /\ Section = headers[k] /\ headers'[k] = headers[k]
    BY <1>k DEF LoadSection, Section
<1>2. PICK w : w = Frame(used)
    OBVIOUS
<1>3. /\ TreeInv' /\ layout' = layout /\ v \in Virt /\ w \notin Allotted(Root, used)
      /\ Updates(v, w) /\ IsData(w)' /\ Allotted(Root, used) \subseteq Allotted(Root, used)'
    BY <1>0, <1>1, <1>2, <1>k, SectionMapped
<1>4. t = w
    BY <1>1, <1>2, CopyGoes
<1>5. k \in DOMAIN headers /\ loaded \in Nat /\ headers \in Seq(SectionHeader) /\ k \in 1 .. loaded'
    BY <1>0, <1>1, <1>k DEF LoadTyped
<1>6. /\ OnItsOwn(k) /\ headers[k].size <= PageSectors
      /\ \A j \in DOMAIN headers : Taken(headers[j]) /\ headers[j].page % WalkPages = v % WalkPages => j = k
    BY <1>1, <1>5, <1>k DEF AllOwn, OnItsOwn
<1> DEFINE part == Part(headers[k].offset, headers[k].offset + headers[k].size)
<1>7. DOMAIN content' = {w} \union DOMAIN content /\ content'[w] = part
      /\ \A f \in DOMAIN content \ {w} : content'[f] = content[f]
  <2>1. DOMAIN Copied(Section, w) = {w} /\ Copied(Section, w)[w] = part
      BY <1>1, <1>6, CopiedIs
  <2>2. content' = Over(Copied(Section, w), content)
      BY <1>1, <1>4
  <2> HIDE DEF part
  <2> QED BY <2>1, <2>2 DEF Over
<1>8. Placed(k)'
  <2>1. Leaf(Root, mem, v)' = w
    <3>1. Same(v, v)
        BY DEF Same, Agree
    <3> QED BY <1>3, <3>1 DEF Updates
  <2>2. w \in Allotted(Root, used)'
      BY <1>3 DEF IsData
  <2>3. part' = part
      BY <1>1 DEF Part
  <2> DEFINE p == part'
  <2>5. w \in DOMAIN content' /\ content'[w] = p
      BY <1>7, <2>3
  <2> QED BY <1>1, <1>k, <2>1, <2>2, <2>5 DEF Placed
<1>9. ASSUME NEW i \in 1 .. loaded PROVE Placed(i)'
  <2>1. i \in DOMAIN headers /\ i # k /\ headers[i].page \in Virt
    <3>1. i \in DOMAIN headers /\ i # k /\ headers[i] \in SectionHeader
        BY <1>1, <1>5, <1>k
    <3> QED BY <3>1 DEF SectionHeader
  <2>2. ASSUME Taken(headers[i])
        PROVE  LET f == Leaf(Root, mem, headers[i].page)
               IN  /\ Leaf(Root, mem, headers[i].page)' = f
                   /\ f \in Allotted(Root, used) => f \in Allotted(Root, used)'
                   /\ f \in Allotted(Root, used) /\ f \in DOMAIN content =>
                          f \in DOMAIN content' /\ content'[f] = content[f]
    <3>1. ~Same(v, headers[i].page)
      <4>1. headers[i].page % WalkPages # v % WalkPages
          BY <1>6, <2>1, <2>2
      <4> QED BY <1>3, <2>1, <4>1, NotSame
    <3>2. Leaf(Root, mem, headers[i].page)' = Leaf(Root, mem, headers[i].page)
      <4>1. headers'[i] = headers[i]
          BY <1>1
      <4> QED BY <1>3, <2>1, <3>1, <4>1 DEF Updates
    <3> DEFINE f == Leaf(Root, mem, headers[i].page)
    <3>3. f \in Allotted(Root, used) => f \in Allotted(Root, used)' /\ f # w
        BY <1>3
    <3> HIDE DEF f
    <3>4. f \in Allotted(Root, used) /\ f \in DOMAIN content => f \in DOMAIN content' /\ content'[f] = content[f]
        BY <1>7, <3>3
    <3> QED BY <3>2, <3>3, <3>4 DEF f
  <2> QED BY <1>0, <1>1, <2>1, <2>2, PlacedStays
<1>10. 1 .. loaded' = 1 .. loaded \union {k}
    BY <1>1, <1>5, <1>k
<1> QED BY <1>8, <1>9, <1>10

\* Loading a section keeps the whole invariant (elf.c:145-166).
LEMMA LoadSectionKeeps ==
    ASSUME Sane, LoadInv, LoadSection
    PROVE  LoadInv'
<1>1. /\ pc = "load" /\ pc' \in {"load", "fault", "corrupt"} /\ headers' = headers
      /\ pc' = "corrupt" => /\ phase' = "on" /\ loaded' = loaded /\ CopyTo(Section.page) # NoFrame
                            /\ DOMAIN Copied(Section, CopyTo(Section.page)) \cap AllTables' # {}
    BY DEF LoadSection
<1>2. PICK w : w = Frame(used)
    OBVIOUS
<1>3. TreeInv' /\ Noted' /\ layout' = layout /\ phase' \in {"on", "fault"}
    BY <1>2, SectionMapped DEF LoadInv
<1>4. LoadTyped'
    BY <1>1, LoadSectionTyped
<1>5. Homes' /\ (AllOwn => Straight')
    BY <1>1, <1>2, CopyGoes
<1>6. AllOwn' <=> AllOwn
    BY <1>1, <1>3, AllOwnSame
<1>7. pc' = "load" /\ AllOwn => \A i \in 1 .. loaded' : Placed(i)'
    BY <1>1, LoadSectionPlaces
<1>8. CopySparesTables'
  <2>1. SUFFICES ASSUME pc' = "corrupt" PROVE Section'.size > PageSectors
      BY DEF CopySparesTables
  <2>2. Section' = Section
      BY <1>1, <2>1 DEF Section
  <2>3. ~(Section.size <= PageSectors)
      BY <1>1, <2>1, CopyIntoTable
  <2>4. Section.size \in Nat
    <3>1. Section \in SectionHeader
        BY <1>2, SectionMapped DEF LoadInv
    <3> QED BY <3>1 DEF SectionHeader
  <2> QED BY <2>2, <2>3, <2>4, LoaderTyped
<1> QED BY <1>1, <1>3, <1>4, <1>5, <1>6, <1>7, <1>8 DEF LoadInv

\* Steps that map nothing and load nothing keep the tables' part of the invariant
\* (disk.c, fat32.c, elf.c:135-143, 166-174).
LEMMA TablesRest ==
    ASSUME Sane, TreeInv, Noted, UNCHANGED vars
    PROVE  /\ TreeInv' /\ Noted' /\ layout' = layout
           /\ Homes => Homes'
           /\ Straight => Straight'
           /\ phase' = phase
           /\ Allotted(Root, used)' = Allotted(Root, used)
           /\ \A w \in Virt : Leaf(Root, mem, w)' = Leaf(Root, mem, w)
<1>1. TreeInv' /\ Noted'
    BY TreeInvNext, NotedNext
<1>2. layout' = layout /\ mem' = mem /\ used' = used /\ phase' = phase /\ Root' = Root
    BY DEF vars, Root, Frame
<1>3. \A w \in Virt : Leaf(Root, mem, w)' = Leaf(Root, mem, w)
    BY <1>2
<1> QED BY <1>1, <1>2, <1>3, HomesSame DEF Allotted

\* So they do the loader's part, while the same file is in the buffer.
LEMMA LoadedRest ==
    ASSUME LoadTyped, UNCHANGED vars, UNCHANGED <<headers, content, buf>>, layout \in Layouts
    PROVE  (AllOwn' <=> AllOwn) /\ \A i \in DOMAIN headers : Placed(i) => Placed(i)'
<1>1. layout' = layout /\ mem' = mem /\ used' = used /\ Root' = Root
    BY DEF vars, Root, Frame
<1>2. AllOwn' <=> AllOwn
    BY <1>1, AllOwnSame
<1>3. ASSUME NEW i \in DOMAIN headers, Placed(i) PROVE Placed(i)'
  <2>1. Leaf(Root, mem, headers[i].page)' = Leaf(Root, mem, headers[i].page)
        /\ Allotted(Root, used)' = Allotted(Root, used)
      BY <1>1 DEF Allotted
  <2> QED BY <1>3, <2>1, PlacedStays
<1> QED BY <1>2, <1>3

\* What "exec" reads as section headers are section headers (elf.c:135-143).
LEMMA HeadersTyped ==
    ASSUME vol \in Volumes
    PROVE  HeadersRead \subseteq Seq(SectionHeader)
<1>1. <<>> \in Seq(SectionHeader)
    OBVIOUS
<1> QED BY <1>1, LoaderTyped DEF HeadersRead

\* The invariant outlasts every step of exec (shell.c:81-100, elf.c:135-174).
LEMMA LoadNext ==
    ASSUME Sane, OwnFrames, FatInv, LoadInv, [ExecNext]_execVars
    PROVE  LoadInv'
<1>0. TreeInv /\ Noted /\ LoadTyped /\ Homes /\ layout \in Layouts
    BY DEF LoadInv, TreeInv
<1>1. CASE Boot
  <2>1. /\ pc' = pc /\ buf' = buf /\ UNCHANGED <<headers, loaded, content, entered>>
        /\ AllocRoot \/ MapNext \/ LoadCr3
      BY <1>1 DEF Boot, Idle, fileVars, elfVars
  <2>2. /\ TreeInv' /\ Noted' /\ layout' = layout /\ Homes' /\ (Straight => Straight')
      BY <1>0, <2>1, BootHomes
  <2>3. LoadTyped'
      BY <1>0, <2>1 DEF LoadTyped
  <2>4. AllOwn' <=> AllOwn
      BY <2>1, <2>2, AllOwnSame
  <2>5. CopySparesTables'
      BY <2>1 DEF LoadInv, CopySparesTables, Section
  <2>6. pc = "idle"
      BY <2>1 DEF AllocRoot, MapNext, LoadCr3, LoadInv
  <2> QED BY <2>1, <2>2, <2>3, <2>4, <2>5, <2>6 DEF LoadInv
<1>2. CASE UNCHANGED vars /\ UNCHANGED elfVars /\ pc \notin {"load", "ran", "fault", "corrupt"}
           /\ pc' \notin {"load", "ran", "fault", "corrupt"} /\ (pc' # "idle" => phase \in {"on", "fault"})
  <2>1. TreeInv' /\ Noted' /\ layout' = layout /\ Homes' /\ (Straight => Straight') /\ phase' = phase
      BY <1>0, <1>2, TablesRest
  <2>2. LoadTyped'
      BY <1>0, <1>2 DEF LoadTyped, elfVars
  <2>3. CopySparesTables'
      BY <1>2 DEF CopySparesTables
  <2> QED BY <1>2, <2>1, <2>2, <2>3 DEF LoadInv
<1>3. CASE Command_exec
  <2>1. UNCHANGED vars /\ UNCHANGED elfVars /\ pc = "idle" /\ pc' = "boot" /\ phase = "on"
      BY <1>3 DEF Command_exec, ReadFile, elfVars, vars
  <2> QED BY <1>2, <2>1
<1>4. CASE Read /\ Step
  <2>1. /\ UNCHANGED vars /\ UNCHANGED elfVars
        /\ Reading /\ pc' \in {"boot", "dir", "data", "fat", "read", "smashed", "panic"}
      BY <1>4 DEF Read, Step, ReadBoot, ReadDirectory, ReadData, ReadFat, Reading, elfVars, vars
  <2>2. phase \in {"on", "fault"}
      BY <2>1 DEF Reading, LoadInv
  <2> QED BY <1>2, <2>1, <2>2 DEF Reading
<1>5. CASE ReadElf
  <2>1. /\ UNCHANGED vars /\ pc = "read" /\ pc' \in {"idle", "load"} /\ loaded' = 0
        /\ content' = content /\ entered' = entered /\ headers' \in HeadersRead \union {<<>>}
      BY <1>5 DEF ReadElf, vars
  <2>2. /\ TreeInv' /\ Noted' /\ layout' = layout /\ Homes' /\ (Straight => Straight') /\ phase' = phase
      BY <1>0, <2>1, TablesRest
  <2>3. Straight /\ phase \in {"on", "fault"}
      BY <2>1 DEF LoadInv
  <2>4. headers' \in Seq(SectionHeader)
    <3>1. HeadersRead \subseteq Seq(SectionHeader)
        BY HeadersTyped DEF FatInv
    <3>2. <<>> \in Seq(SectionHeader)
        OBVIOUS
    <3> QED BY <2>1, <3>1, <3>2
  <2>5. LoadTyped'
    <3>1. 0 \in 0 .. Len(headers')
        BY <2>4
    <3> QED BY <1>0, <2>1, <2>4, <3>1 DEF LoadTyped
  <2>6. CopySparesTables'
      BY <2>1 DEF CopySparesTables
  <2>7. 1 .. loaded' = {}
      BY <2>1
  <2> QED BY <2>1, <2>2, <2>3, <2>5, <2>6, <2>7 DEF LoadInv
<1>6. CASE SkipSection
  <2>1. /\ UNCHANGED vars /\ pc = "load" /\ pc' = "load" /\ loaded < Len(headers) /\ loaded' = loaded + 1
        /\ UNCHANGED <<buf, headers, content, entered>> /\ ~Taken(Section)
      BY <1>6 DEF SkipSection, vars, fileVars
  <2>2. /\ TreeInv' /\ Noted' /\ layout' = layout /\ Homes' /\ (Straight => Straight') /\ phase' = phase
        /\ Allotted(Root, used)' = Allotted(Root, used)
        /\ \A w \in Virt : Leaf(Root, mem, w)' = Leaf(Root, mem, w)
      BY <1>0, <2>1, TablesRest
  <2>3. LoadTyped'
      BY <1>0, <2>1 DEF LoadTyped
  <2>4. AllOwn' <=> AllOwn
      BY <2>1, <2>2, AllOwnSame
  <2>5. ASSUME AllOwn, NEW i \in 1 .. loaded' PROVE Placed(i)'
    <3>1. i \in DOMAIN headers /\ headers[i].page \in Virt /\ headers'[i] = headers[i]
      <4>1. i \in DOMAIN headers /\ headers[i] \in SectionHeader
          BY <1>0, <2>1, <2>5 DEF LoadTyped
      <4> QED BY <2>1, <4>1 DEF SectionHeader
    <3>2. CASE i = loaded + 1
      <4>1. ~Taken(headers[i])'
          BY <2>1, <3>1, <3>2 DEF Section, Taken
      <4> QED BY <4>1 DEF Placed
    <3>3. CASE i # loaded + 1
      <4>1. i \in 1 .. loaded
          BY <1>0, <2>1, <2>5, <3>3 DEF LoadTyped
      <4>2. Placed(i)
          BY <2>1, <2>5, <4>1 DEF LoadInv
      <4>3. Leaf(Root, mem, headers[i].page)' = Leaf(Root, mem, headers[i].page)
          BY <2>2, <3>1
      <4> QED BY <2>1, <2>2, <3>1, <4>2, <4>3, PlacedStays
    <3> QED BY <3>2, <3>3
  <2>6. CopySparesTables'
      BY <2>1 DEF CopySparesTables
  <2>7. AllOwn => Straight
      BY <2>1 DEF LoadInv
  <2>8. phase \in {"on", "fault"}
      BY <2>1 DEF LoadInv
  <2> QED BY <2>1, <2>2, <2>3, <2>4, <2>5, <2>6, <2>7, <2>8 DEF LoadInv
<1>7. CASE LoadSection
    BY <1>7, LoadSectionKeeps
<1>8. CASE Jump
  <2>1. /\ UNCHANGED vars /\ pc = "load" /\ pc' \in {"fault", "ran"} /\ loaded = Len(headers)
        /\ UNCHANGED <<buf, headers, loaded, content>>
        /\ entered' = Translate(mem, Wrap(Hhdm + vol.program.entry))
      BY <1>8 DEF Jump, vars
  <2>2. TreeInv' /\ Noted' /\ layout' = layout /\ Homes' /\ (Straight => Straight') /\ phase' = phase
      BY <1>0, <2>1, TablesRest
  <2>3. (AllOwn' <=> AllOwn) /\ \A i \in DOMAIN headers : Placed(i) => Placed(i)'
      BY <1>0, <2>1, LoadedRest
  <2>4. entered' \in 0 .. NoFrame
    <3>1. \A m, x : Translate(m, x) = NoFrame \/ \E e \in DOMAIN m : Translate(m, x) = m[e]
        BY DEF Translate
    <3>2. \A e \in DOMAIN mem : mem[e] \in Virt
        BY <1>0 DEF TreeInv
    <3>3. Virt \subseteq 0 .. NoFrame /\ NoFrame \in 0 .. NoFrame
        BY PagesTyped DEF Virt
    <3> QED BY <2>1, <3>1, <3>2, <3>3
  <2>5. LoadTyped'
      BY <1>0, <2>1, <2>4 DEF LoadTyped
  <2>6. 1 .. loaded \subseteq DOMAIN headers /\ (AllOwn => Straight)
        /\ (AllOwn => \A i \in 1 .. loaded : Placed(i)) /\ phase \in {"on", "fault"}
      BY <1>0, <2>1 DEF LoadTyped, LoadInv
  <2>7. CopySparesTables'
      BY <2>1 DEF CopySparesTables
  <2> QED BY <2>1, <2>2, <2>3, <2>5, <2>6, <2>7 DEF LoadInv
<1>9. CASE UNCHANGED vars /\ UNCHANGED elfVars /\ pc' = pc /\ buf' = buf
  <2>1. TreeInv' /\ Noted' /\ layout' = layout /\ Homes' /\ (Straight => Straight') /\ phase' = phase
      BY <1>0, <1>9, TablesRest
  <2>2. (AllOwn' <=> AllOwn) /\ \A i \in DOMAIN headers : Placed(i) => Placed(i)'
      BY <1>0, <1>9, LoadedRest DEF elfVars
  <2>3. LoadTyped' /\ loaded' = loaded /\ headers' = headers /\ 1 .. loaded \subseteq DOMAIN headers
      BY <1>0, <1>9 DEF LoadTyped, elfVars
  <2>4. CopySparesTables'
      BY <1>9, <2>3 DEF LoadInv, CopySparesTables, Section
  <2> QED BY <1>9, <2>1, <2>2, <2>3, <2>4 DEF LoadInv
<1>10. CASE Read /\ ~Step
  <2>1. UNCHANGED vars /\ UNCHANGED elfVars /\ pc' = pc /\ buf' = buf
      BY <1>10 DEF Read, Driver, Drive, fileVars, vars, elfVars
  <2> QED BY <1>9, <2>1
<1>11. CASE UNCHANGED execVars
  <2>1. UNCHANGED vars /\ UNCHANGED elfVars /\ pc' = pc /\ buf' = buf
      BY <1>11 DEF execVars, fileVars, vars, elfVars
  <2> QED BY <1>9, <2>1
<1> QED BY <1>1, <1>3, <1>4, <1>5, <1>6, <1>7, <1>8, <1>10, <1>11 DEF ExecNext

\* It holds when the kernel starts (kernel.c).
LEMMA LoadInit == ASSUME Sane, ExecInit PROVE LoadInv
<1>1. /\ Init /\ headers = <<>> /\ loaded = 0 /\ content = <<>> /\ entered = NoFrame /\ pc = "idle"
    BY DEF ExecInit, FatInit
<1>2. TreeInv /\ Noted
    BY <1>1, TreeInvInit, NotedInit
<1>3. \A w : Leaf(Root, mem, w) = NoFrame
  <2>1. DOMAIN mem = {}
      BY <1>1 DEF Init
  <2> QED BY <2>1 DEF Leaf, Follow
<1>4. LoadTyped
  <2>1. headers \in Seq(SectionHeader) /\ Len(headers) = 0 /\ DOMAIN content = {}
      BY <1>1
  <2>2. NoFrame \in 0 .. NoFrame
      BY PagesTyped
  <2> QED BY <1>1, <2>1, <2>2 DEF LoadTyped
<1>5. Homes /\ Straight
    BY <1>3 DEF Homes, Straight
<1> QED BY <1>1, <1>2, <1>4, <1>5 DEF LoadInv, CopySparesTables

\* The loader's types follow (elf.c:135-174, fat32.c:86-127).
LEMMA LoadTypes == ASSUME Sane, FatInv, LoadInv PROVE ExecTypeOK
<1>1. DiskTypeOK
  <2>1. DriveInv
      BY DEF FatInv
  <2> QED BY <2>1, WidthsTyped DEF DriveInv, DiskTypeOK
<1>2. TypeOK
    BY TypesStand DEF LoadInv
<1>3. loaded \in 0 .. Len(headers) /\ entered \in 0 .. NoFrame
      /\ \A f \in DOMAIN content : f \in 0 .. VirtPages - 1
    BY DEF LoadInv, LoadTyped, Virt
<1> QED BY <1>1, <1>2, <1>3 DEF ExecTypeOK, FatInv, Kinds

\* With the last section done, all are in place (elf.c:145-170).
LEMMA LoadPlaces == ASSUME LoadInv PROVE SectionsInPlace
<1> SUFFICES ASSUME pc = "ran", AllOwn, NEW i \in DOMAIN headers, Taken(headers[i])
             PROVE  FoundFrom(headers[i], 0)
    BY DEF SectionsInPlace, AtItsAddress
<1>1. i \in 1 .. loaded /\ headers[i] \in SectionHeader
    BY DEF LoadInv, LoadTyped
<1>2. PICK s, f : s = headers[i] /\ f = Leaf(Root, mem, s.page)
    OBVIOUS
<1>3. f \in DOMAIN content /\ content[f] = Part(s.offset, s.offset + s.size)
  <2>1. Placed(i)
      BY <1>1 DEF LoadInv
  <2> QED BY <1>2, <2>1 DEF Placed
<1>4. s.page \in Virt /\ s.offset \in Nat /\ s.size \in Nat /\ s.size <= PageSectors
  <2>1. OnItsOwn(i)
      BY DEF AllOwn
  <2> QED BY <1>1, <1>2, <2>1 DEF OnItsOwn, SectionHeader
<1>5. ASSUME NEW k \in 1 .. s.size, NEW place, place = 0 + k - 1
      PROVE  /\ Translate(mem, Wrap(s.page + place \div PageSectors)) = f
             /\ (place % PageSectors) + 1 = k
             /\ k \in DOMAIN content[f]
  <2>1. place \in 0 .. PageSectors - 1 /\ place = k - 1 /\ k \in Nat
      BY <1>4, <1>5, LoaderTyped
  <2>2. place \div PageSectors = 0 /\ place % PageSectors = place
      BY <2>1, LoaderTyped
  <2>3. Wrap(s.page + place \div PageSectors) = s.page
    <3>1. PICK n : n = VirtPages
        OBVIOUS
    <3>2. n \in Nat \ {0} /\ s.page \in 0 .. n - 1
        BY <1>4, <3>1, PagesTyped DEF Virt
    <3>3. s.page % n = s.page /\ s.page + 0 = s.page
        BY ONLY <3>2
    <3> QED BY <2>2, <3>1, <3>3 DEF Wrap
  <2>4. Translate(mem, Wrap(s.page + place \div PageSectors)) = f
      BY <1>2, <2>3, PathIs
  <2>5. (place % PageSectors) + 1 = k
      BY <2>1, <2>2
  <2>6. DOMAIN Part(s.offset, s.offset + s.size) = 1 .. s.size
      BY <1>4 DEF Part
  <2> QED BY <1>3, <2>4, <2>5, <2>6
<1> QED BY <1>2, <1>3, <1>5 DEF FoundFrom

\* Both invariants hold throughout (shell.c:81-100): the two are kept side by
\* side by every step.
LEMMA LoadHolds ==
    ASSUME Sane, OwnFrames
    PROVE  ExecSpec => [](FatInv /\ LoadInv)
<1>1. Sane /\ ExecInit => FatInv /\ FollowInv /\ LoadInv
    BY Initially, LoadInit
<1>2. Sane /\ OwnFrames /\ FatInv /\ FollowInv /\ LoadInv /\ [ExecNext]_execVars
      => FatInv' /\ FollowInv' /\ LoadInv'
    BY Stepwise, LoadNext
<1> QED BY <1>1, <1>2, PTL DEF ExecSpec

\* The types of "exec" hold always: numbers keep their widths, sections are
\* counted to the last and frames written exist (elf.c:135-174).
THEOREM ExecTyped ==
    ASSUME Sane, OwnFrames
    PROVE  ExecSpec => []ExecTypeOK
<1>1. Sane /\ FatInv /\ LoadInv => ExecTypeOK
    BY LoadTypes
<1> QED BY <1>1, LoadHolds, PTL

\* Each section of a program that was called, if all are on their own, is found
\* from the start of its address's page on, to its end (elf.c:145-166): at its
\* address where that starts a page, for any program, depth of tables and
\* whatever was mapped on the way.  From LoadInv.
THEOREM ProgramInPlace ==
    ASSUME Sane, OwnFrames
    PROVE  ExecSpec => []SectionsInPlace
<1>1. LoadInv => SectionsInPlace
    BY LoadPlaces
<1> QED BY <1>1, LoadHolds, PTL

\* Copying a section of a page or less writes into no page table (elf.c:162-164),
\* whatever the program's pages take the place of.  From LoadInv.
THEOREM TablesSpared ==
    ASSUME Sane, OwnFrames
    PROVE  ExecSpec => []CopySparesTables
<1>1. LoadInv => CopySparesTables
    BY DEF LoadInv
<1> QED BY <1>1, LoadHolds, PTL
=============================================================================
