-------------------------------- MODULE MCPmm --------------------------------
(***************************************************************************)
(* Small instances of Pmm: bitmap pages of 3 bits, 2 frames of low memory, *)
(* ints that reach 16 frames.                                              *)
(***************************************************************************)
EXTENDS Pmm

Usable(base, length) == [base |-> base, length |-> length, usable |-> TRUE]
Reserved(base, length) == [base |-> base, length |-> length, usable |-> FALSE]

\* Below the reach of an int: a larger region under 1MB or reserved, regions
\* of growing, shrinking and equal length, one and two pages of bitmap, a
\* region of one frame, no region at all.
SmallMaps ==
    { <<Usable(0, 2), Usable(2, 3), Reserved(5, 8), Usable(13, 2)>>,
      <<Usable(2, 2), Usable(5, 5)>>,
      <<Usable(3, 3), Usable(8, 3), Usable(12, 1)>>,
      <<Usable(0, 9), Reserved(9, 2), Usable(11, 1)>>,
      <<Usable(0, 2), Reserved(2, 4)>> }

\* The largest region starts where an int of its byte address is negative
\* (18) or has lost its high bits (33).
HighMaps ==
    { <<Usable(2, 3), Usable(18, 4)>>,
      <<Usable(2, 3), Usable(33, 4)>> }
=============================================================================
