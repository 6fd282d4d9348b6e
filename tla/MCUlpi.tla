------------------------------- MODULE MCUlpi -------------------------------
(* A small instance of Ulpi for TLC. *)
EXTENDS Ulpi
=============================================================================
