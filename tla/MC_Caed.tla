-------------------------------- MODULE MC_Caed --------------------------------
(* Small instances of Caed for TLC.                                              *)
EXTENDS Caed
================================================================================
