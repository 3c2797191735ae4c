----------------------------- MODULE MC_SoundPanel -----------------------------
(* Small instances of SoundPanel for TLC.                                        *)
EXTENDS SoundPanel
================================================================================
