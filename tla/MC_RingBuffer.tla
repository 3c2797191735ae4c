----------------------------- MODULE MC_RingBuffer -----------------------------
(* RingBuffer for TLC.                                                           *)
EXTENDS RingBuffer
================================================================================
