------------------------------ MODULE MCPaging ------------------------------
(***************************************************************************)
(* A small instance of Paging: two levels of 16 entries, so that 2MB are   *)
(* 16 pages.  The direct map starts in the middle of the walk's pages, the *)
(* stack lies in it and the kernel near the end of the addresses, as the   *)
(* boot loader and the linker script have them.                            *)
(***************************************************************************)
EXTENDS Paging

\* Free memory that starts below 2MB, above it, and right after the stack's
\* page; code in the first page of its 2MB and in a later one; a stack whose
\* surroundings cross the border of its 2MB, and others.
SmallLayouts ==
    { [first |-> 4, code |-> 481, codeFrame |-> 90, stack |-> 420],
      [first |-> 2, code |-> 480, codeFrame |-> 90, stack |-> 416],
      [first |-> 66, code |-> 487, codeFrame |-> 80, stack |-> 420],
      [first |-> 52, code |-> 487, codeFrame |-> 80, stack |-> 435] }

\* Two pages of one table, one of another.
SmallPages == {192, 193, 210}

\* What the theorems suppose holds of these layouts.
ASSUME LayoutsFit == Sane /\ WindowClear /\ RootClear
=============================================================================
