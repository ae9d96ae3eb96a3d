---------------------------- MODULE MCInterrupts ----------------------------
(***************************************************************************)
(* Small instances of Interrupts; the commands are given in the cfg files. *)
(***************************************************************************)
EXTENDS Interrupts
=============================================================================
