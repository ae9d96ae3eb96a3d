-------------------------------- MODULE Exec --------------------------------
(***************************************************************************)
(* The shell's "exec" (kernel/shell.c, kernel/elf.c): the file is read as  *)
(* in Fat32, its sections are given frames by kmalloc, mapped as in Paging *)
(* and copied, and its entry point is called.  The kernel boots first.     *)
(*                                                                         *)
(* A program is the place of its section headers, in sectors, its sections *)
(* and its entry's page.  A section's address is a page and what lies      *)
(* before the section in it.  That, offsets and sizes are counted in       *)
(* sectors; offsets and sizes wrap at SizeLimit as 64-bit numbers do.      *)
(* exec runs in the keyboard handler with interrupts off, start to end.    *)
(***************************************************************************)
EXTENDS Fat32, Paging

CONSTANTS
    PageSectors,    \* sectors of a page: 8
    SizeLimit,      \* 2^64
    Garbage         \* section headers that may lie on the stack

\* The fields of a section header, and of a program, that read_elf looks at.
SectionHeader == [progbits : BOOLEAN, page : Virt, within : 0 .. PageSectors - 1,
                  offset : Nat, size : Nat]
ElfFile == [elf : BOOLEAN, headers : Nat, sections : Seq(SectionHeader), entry : Nat]

ASSUME ExecAssumption ==
    /\ PageSectors \in Nat \ {0} /\ SizeLimit \in Nat \ {0}
    /\ \A v \in Volumes : v.program \in ElfFile
    /\ Garbage \subseteq Seq(SectionHeader)

VARIABLES
    headers,        \* the sections of the program being loaded
    loaded,         \* how many of them are done
    content,        \* the sectors copied into a frame
    entered         \* the frame of the code called

elfVars == <<headers, loaded, content, entered>>

Idle == UNCHANGED <<diskVars, fileVars>>

-----------------------------------------------------------------------------
ExecInit ==
    /\ Init
    /\ FatInit
    /\ headers = <<>>
    /\ loaded = 0
    /\ content = <<>>
    /\ entered = NoFrame

Boot == (AllocRoot \/ MapNext \/ LoadCr3) /\ Idle /\ UNCHANGED elfVars

Command_exec == phase = "on" /\ ReadFile /\ UNCHANGED <<vars, elfVars>>
Read == (Driver \/ Drive \/ Step) /\ UNCHANGED <<vars, elfVars>>

\* What lies in the buffer: the program, when the file's first sector does.
IsElf == buf # <<>> /\ FileSectors(vol) # <<>> /\ buf[1] = FileSectors(vol)[1] /\ vol.program.elf

\* Headers in a sector of the buffer nothing was read into are zero; those
\* past its end are what the stack holds.
HeadersRead ==
    LET h == vol.program.headers + 1
    IN  IF h > BufSectors THEN Garbage
        ELSE IF h > Len(buf) THEN {<<>>}
        ELSE IF h \in DOMAIN FileSectors(vol) /\ buf[h] = FileSectors(vol)[h]
             THEN {vol.program.sections}
        ELSE Garbage

\* Without the magic number read_elf returns, and so does the command.
ReadElf ==
    /\ pc = "read"
    /\ \/ /\ ~IsElf
          /\ pc' = "idle"
          /\ headers' = <<>>
       \/ /\ IsElf
          /\ pc' = "load"
          /\ headers' \in HeadersRead
    /\ loaded' = 0
    /\ UNCHANGED <<diskVars, vol, cluster, buf, vars, content, entered>>

Section == headers[loaded + 1]

\* PROGBITS sections that end inside the buffer, as 64-bit numbers say.
Taken(s) == s.progbits /\ s.size > 0 /\ (s.offset + s.size) % SizeLimit <= BufSectors

SkipSection ==
    /\ pc = "load"
    /\ loaded < Len(headers)
    /\ ~Taken(Section)
    /\ loaded' = loaded + 1
    /\ UNCHANGED <<diskVars, fileVars, vars, headers, content, entered>>

\* Sectors i and up of the buffer; NoSector where nothing was read.
Part(from, to) ==
    [i \in 1 .. to - from |-> IF from + i \in DOMAIN buf THEN buf[from + i] ELSE NoSector]

\* Variant of CopyTo: the frame that follows is written.
CopyToNext(page) == Translate(mem', page) + 1
\* The copy goes through the physical address: to what it is mapped to.
CopyTo(page) == Translate(mem', layout.first + used)

\* Variant of Copied: every section is taken from the start of the buffer.
CopiedFromStart(s, target) == [f \in {target} |-> Part(0, s.size)]
\* A section past the end of its frame runs over into the next one.
Copied(s, target) ==
    LET full == s.offset + PageSectors
        end == s.offset + s.size
    IN  IF s.size <= PageSectors THEN [f \in {target} |-> Part(s.offset, end)]
        ELSE [f \in {target, target + 1} |->
                 IF f = target THEN Part(s.offset, full) ELSE Part(full, end)]

\* What frames hold once c is written over d.
Over(c, d) == [f \in DOMAIN c \union DOMAIN d |-> IF f \in DOMAIN c THEN c[f] ELSE d[f]]

\* One section: a frame, its mapping, the copy.  What lies before the section
\* in its page counts for neither: the page is mapped, and the copy begins at
\* the frame's start.  A frame that has no mapping is a page fault; one that is a table is the end of the address space.
LoadSection ==
    /\ pc = "load"
    /\ loaded < Len(headers)
    /\ Taken(Section)
    /\ MapPage(Section.page)
    /\ LET target == CopyTo(Section.page)
           hit == DOMAIN Copied(Section, target)
       IN  \/ /\ phase' = "fault" \/ target = NoFrame
              /\ pc' = "fault"
              /\ UNCHANGED <<content, loaded>>
           \/ /\ phase' = "on" /\ target # NoFrame
              /\ hit \cap AllTables' # {}
              /\ pc' = "corrupt"
              /\ UNCHANGED <<content, loaded>>
           \/ /\ phase' = "on" /\ target # NoFrame
              /\ hit \cap AllTables' = {}
              /\ content' = Over(Copied(Section, target), content)
              /\ loaded' = loaded + 1
              /\ pc' = pc
    /\ UNCHANGED <<diskVars, vol, cluster, buf, headers, entered>>

\* The entry point is called at its address in the direct map.
Jump ==
    /\ pc = "load"
    /\ loaded = Len(headers)
    /\ entered' = Translate(mem, Wrap(Hhdm + vol.program.entry))
    /\ pc' = IF entered' = NoFrame THEN "fault" ELSE "ran"
    /\ UNCHANGED <<diskVars, vol, cluster, buf, vars, headers, loaded, content>>

ExecNext == Boot \/ Command_exec \/ Read \/ ReadElf \/ SkipSection \/ LoadSection \/ Jump

execVars == <<diskVars, fileVars, vars, elfVars>>

\* The processor goes on, and the drive answers a command it was given.
Fairness == WF_execVars(Read \/ ReadElf \/ SkipSection \/ LoadSection \/ Jump)
ExecSpec == ExecInit /\ [][ExecNext]_execVars /\ Fairness

-----------------------------------------------------------------------------
\* What the theorems suppose of the boot beside Sane: if it maps the page of
\* one of kmalloc's frames, then to that frame.
OwnFrames ==
    \A l \in Layouts : \A b \in BootMaps(l) :
        b.page % WalkPages \in Frames(l) => b.frame = b.page % WalkPages

ExecTypeOK ==
    /\ DiskTypeOK
    /\ TypeOK
    /\ vol \in Volumes
    /\ pc \in {"idle", "boot", "dir", "data", "fat", "read", "smashed", "panic",
               "load", "corrupt", "fault", "ran"}
    /\ cluster \in 0 .. Word - 1
    /\ Len(buf) <= BufSectors
    /\ loaded \in 0 .. Len(headers)
    /\ \A f \in DOMAIN content : f \in 0 .. VirtPages - 1
    /\ entered \in 0 .. NoFrame

\* The driver keeps its promise to read_file (disk.c:114-198): what it returns
\* is the sector asked for, never the one before or one still on its way.
ImplementsBlockDevice == Device!Spec

\* Section i is no longer than a page and lies in the buffer, and its page is neither that
\* of another section nor one through which a frame of kmalloc's is written:
\* as a walk tells pages apart.
OnItsOwn(i) ==
    LET place == headers[i].page % WalkPages
    IN  /\ headers[i].size <= PageSectors
        /\ headers[i].offset + headers[i].size <= BufSectors
        /\ place \notin Frames(layout)
        /\ \A j \in DOMAIN headers :
              Taken(headers[j]) /\ headers[j].page % WalkPages = place => j = i

AllOwn == \A i \in DOMAIN headers : Taken(headers[i]) => OnItsOwn(i)

\* The program finds a section in memory, from so many sectors into its page on.
FoundFrom(s, first) ==
    \A k \in 1 .. s.size :
        LET place == first + k - 1
            f == Translate(mem, Wrap(s.page + place \div PageSectors))
            at == (place % PageSectors) + 1
        IN  /\ f \in DOMAIN content
            /\ at \in DOMAIN content[f]
            /\ content[f][at] = Part(s.offset, s.offset + s.size)[k]
AtItsAddress(s) == FoundFrom(s, s.within)

\* read_elf (elf.c:145-166): once all sections are loaded, each on its own, a
\* section whose address is the start of a page is found there, to its end.
\* One whose address lies inside a page is not, though elf.c:145 says "Map all
\* SHT_PROGBITS sections at their virtual addresses": it is found from the
\* start of that page, and no page is mapped for what goes over its end.
SectionsInPlace ==
    pc = "ran" /\ AllOwn =>
    \A i \in DOMAIN headers :
        LET s == headers[i]
        IN  Taken(s) => /\ s.within = 0 => AtItsAddress(s)
                        /\ s.within # 0 => FoundFrom(s, 0)

\* Copying a section (elf.c:162-164) writes into no page table, even where
\* the program's pages take the place of the kernel's window on low memory,
\* unless the section is longer than the one frame it was given.
CopySparesTables == pc = "corrupt" => Section.size > PageSectors

\* Where a drive answers (disk.c:139-150), a file that fits the buffer of a
\* plain volume is read to its end, and "exec" comes to an end of some kind:
\* chains that turn back on themselves included, for which the stack is the
\* limit (fat32.c:107-124).  Only a sector the drive has not got is waited for
\* forever.
ExecEnds ==
    /\ pc = "boot" /\ Plain(vol) /\ Fits(vol) ~> pc = "read"
    /\ pc = "boot" /\ drive # "absent" ~>
           lba >= size \/ pc \notin {"boot", "dir", "data", "fat", "load"}
=============================================================================
