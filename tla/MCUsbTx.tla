------------------------------ MODULE MCUsbTx -------------------------------
(* A small instance of UsbTx for TLC. *)
EXTENDS UsbTx
=============================================================================
