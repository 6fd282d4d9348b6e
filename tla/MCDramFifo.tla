----------------------------- MODULE MCDramFifo -----------------------------
(* Small instances of DramFifo for TLC. *)
EXTENDS DramFifo
=============================================================================
