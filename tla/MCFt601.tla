------------------------------ MODULE MCFt601 -------------------------------
(* A small instance of Ft601 for TLC. *)
EXTENDS Ft601
=============================================================================
