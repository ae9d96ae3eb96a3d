------------------------------- MODULE MCUhci -------------------------------
(* Two slots of three functions.  The buses: none; a controller behind a   *)
(* bridge and one more; a controller among the functions of a device, one  *)
(* of them hidden by a bridge's header; a device whose functions all say   *)
(* that it has several.                                                    *)
EXTENDS Uhci, TLC

F(uhci, header) == [vendor |-> TRUE, uhci |-> uhci, header |-> header]
SmallBuses ==
    { <<0, 0>> :> F(FALSE, "single"),
      <<0, 0>> :> F(FALSE, "multi") @@ <<0, 1>> :> F(FALSE, "single")
          @@ <<0, 2>> :> F(TRUE, "single") @@ <<1, 0>> :> F(TRUE, "single"),
      <<0, 0>> :> F(FALSE, "bridge") @@ <<0, 1>> :> F(FALSE, "single")
          @@ <<1, 2>> :> F(TRUE, "single"),
      <<1, 0>> :> F(FALSE, "multi") @@ <<1, 1>> :> F(TRUE, "multi") }

\* Bits of a frame's address; kmalloc may have none.
SmallFrames == { {}, {12, 14, 20} }

\* A length and a packet size: none, a device's, and what memory may hold.
SmallSizes == { <<0, 0>>, <<200, 0>>, <<255, 8>> }
=============================================================================
