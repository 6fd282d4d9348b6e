----------------------------- MODULE MCItiCore ------------------------------
(* A small instance of ItiCore for TLC. *)
EXTENDS ItiCore
=============================================================================
