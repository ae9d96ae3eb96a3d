------------------------------- MODULE MCExec -------------------------------
(***************************************************************************)
(* A small instance of Exec.  Tables have 16 entries as in MCPaging, and a *)
(* page three sectors, a buffer four.  Bytes have 32 values, so that one   *)
(* reaches eight entries of a FAT.                                         *)
(***************************************************************************)
EXTENDS Exec, TLC

ExecLayouts ==
    { [first |-> 1, code |-> 481, codeFrame |-> 90, stack |-> 420],
      [first |-> 2, code |-> 480, codeFrame |-> 90, stack |-> 416] }

Inside(page, within, offset, sectors) ==
    [progbits |-> TRUE, page |-> page, within |-> within, offset |-> offset, size |-> sectors]
Sec(page, offset, sectors) == Inside(page, 0, offset, sectors)
Note == [progbits |-> FALSE, page |-> 0, within |-> 0, offset |-> 0, size |-> 1]
Program(h, sections, entry) ==
    [elf |-> TRUE, headers |-> h, sections |-> sections, entry |-> entry]

\* Two sections and one outside the buffer; sections that share a page; more
\* tables than there is room for in the window, and an entry outside; pages
\* in the kernel's window, one of them that of the next frame; a section of
\* more than a page; an offset that wraps around; headers behind the buffer;
\* sections inside a page, and over the end of one.
Two == Program(0, << Note, Sec(192, 0, 1), Sec(194, 1, 3), Sec(193, 3, 2) >>, 12)
Shared == Program(1, << Sec(192, 0, 3), Sec(192, 1, 1), Sec(195, 0, 2) >>, 9)
Wide == Program(0, << Sec(192, 0, 1), Sec(210, 1, 3), Sec(226, 2, 1), Sec(176, 3, 1) >>, 192)
Window == Program(0, << Sec(11, 0, 1), Sec(12, 1, 1), Sec(13, 0, 2), Sec(394, 0, 1) >>, 14)
Long == Program(0, << Sec(192, 0, 4), Sec(193, 0, 1) >>, 3)
Wrapped == Program(0, << Sec(192, 255, 2) >>, 4)
Behind == Program(4, <<>>, 5)
Unaligned == Program(0, << Sec(192, 0, 2), Inside(193, 1, 1, 1), Inside(195, 2, 2, 2) >>, 12)
Text == [elf |-> FALSE, headers |-> 0, sections |-> <<>>, entry |-> 0]
Stack == { <<>>, << Sec(210, 0, 4) >>, << Sec(192, 3, 1) >> }

File(c) == [kind |-> "file", name |-> "HELLO", cluster |-> c]
Dir(c) == [kind |-> "dir", name |-> "HELLO", cluster |-> c]
Label == [kind |-> "label", name |-> "HELLO", cluster |-> 0]
Other == [kind |-> "file", name |-> "OTHER", cluster |-> 4]
Free == [kind |-> "free", name |-> "", cluster |-> 0]
LongName == [kind |-> "long", name |-> "HELLO", cluster |-> 0]

End == 4095
Bad == 4087
Fat(f) == f @@ [c \in 0 .. 40 |-> IF c < 3 THEN End ELSE 0]

\* A volume whose file has one cluster, and what makes others different.
Base == [ drive |-> "idle", size |-> 3000, bytesPerSector |-> 512, perCluster |-> 1,
          reserved |-> 2, fats |-> 2, perFat |-> 1, rootEntries |-> 0, root |-> 2,
          dir |-> << LongName, Free, File(3) >>, fat |-> Fat(3 :> End),
          stray |-> 0, program |-> Two ]
Chained == Fat((3 :> 6) @@ (6 :> 4) @@ (4 :> 7) @@ (7 :> End))

Plains ==
    { [Base EXCEPT !.fat = Chained, !.program = p] : p \in {Two, Wide, Shared, Window, Long, Behind, Unaligned} }
    \union { [Base EXCEPT !.program = Wrapped],
             [Base EXCEPT !.program = Text],
             [Base EXCEPT !.fat = Fat((3 :> 7) @@ (7 :> End - 5)), !.program = Shared],
             [Base EXCEPT !.fat = Fat((3 :> 4) @@ (4 :> 5) @@ (5 :> 6) @@ (6 :> 7) @@ (7 :> End))],
             [Base EXCEPT !.dir = << Other, LongName >>] }
Odd ==
    { [Base EXCEPT !.drive = "absent"],
      [Base EXCEPT !.bytesPerSector = 0],
      [Base EXCEPT !.size = 5],
      [Base EXCEPT !.dir = << Label, File(3) >>],
      [Base EXCEPT !.dir = << Dir(5), File(3) >>],
      [Base EXCEPT !.dir = << Other, Other, Other, File(3) >>],
      [Base EXCEPT !.dir = << File(0) >>],
      [Base EXCEPT !.dir = << File(9) >>, !.fat = Fat((9 :> 10) @@ (10 :> End) @@ (1 :> 4) @@ (4 :> 0))],
      [Base EXCEPT !.dir = << File(20) >>, !.fat = Fat(20 :> End)],
      [Base EXCEPT !.fat = Fat((3 :> 4) @@ (4 :> 3))],
      [Base EXCEPT !.fat = Fat(3 :> Bad)],
      [Base EXCEPT !.perCluster = 2],
      [Base EXCEPT !.perFat = 1025],
      [Base EXCEPT !.reserved = 33],
      [Base EXCEPT !.rootEntries = 16] }
SmallVolumes == Plains \union Odd

\* What the theorems suppose of the volumes and of the boot's mappings.
ASSUME VolumesFit == \A v \in Volumes : Addressable(v)
ASSUME MappingsFit == Sane /\ OwnFrames
=============================================================================
