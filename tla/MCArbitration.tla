---------------------------- MODULE MCArbitration ----------------------------
(* Arbitration of one phase; its bounds are in the .cfg file. *)
EXTENDS Arbitration
=============================================================================
