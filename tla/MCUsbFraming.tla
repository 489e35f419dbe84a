----------------------------- MODULE MCUsbFraming -----------------------------
(***************************************************************************)
(* Instances of UsbFraming.                                                *)
(***************************************************************************)
EXTENDS UsbFraming
=============================================================================
