------------------------------ MODULE MCUsbRx -------------------------------
(* A small instance of UsbRx for TLC. *)
EXTENDS UsbRx
=============================================================================
