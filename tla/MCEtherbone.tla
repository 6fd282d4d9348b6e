----------------------------- MODULE MCEtherbone ----------------------------
(* A small instance of EtherboneHost for TLC. *)
EXTENDS EtherboneHost
=============================================================================
