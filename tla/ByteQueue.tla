------------------------------- MODULE ByteQueue -------------------------------
(* What caed takes a ring buffer to be (module Caed keeps no more of one): a     *)
(* number of bytes, added by one thread and taken by another, emptied by a       *)
(* reset.  lost: the reader has left the stream, and no number says what it      *)
(* reads.                                                                        *)
EXTENDS Integers

CONSTANT Capacity   \* of the ring: its size less one

VARIABLES level, lost

QueueInit == level = 0 /\ lost = FALSE

Put == ~lost /\ level' \in (level + 1)..Capacity /\ UNCHANGED lost
Take == ~lost /\ level > 0 /\ level' = level - 1 /\ UNCHANGED lost
Lose == level' = 0 /\ lost' = TRUE
Clear == lost /\ level' = 0 /\ lost' = FALSE

QueueNext == Put \/ Take \/ Lose \/ Clear
QueueSpec == QueueInit /\ [][QueueNext]_<<level, lost>>
================================================================================
