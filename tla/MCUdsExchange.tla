---------------------------- MODULE MCUdsExchange -----------------------------
(***************************************************************************)
(* A small instance of UdsExchange for TLC.                                *)
(***************************************************************************)
EXTENDS UdsExchange, MCUdsClient
==============================================================================
