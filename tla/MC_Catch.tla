-------------------------------- MODULE MC_Catch --------------------------------
(* Small instances of Catch for TLC: the schedule to run.                         *)
EXTENDS Catch

Event(id, p, start, offset, gpi, multi) ==
  [id |-> id, deck |-> p, start |-> start, offset |-> offset, gpiEnd |-> gpi, once |-> FALSE,
   multi |-> multi, status |-> "Idle", window |-> FALSE, delay |-> FALSE]

(* Two events that take turns on a deck, one of which restarts itself.            *)
TurnsSchedule == <<Event(1, 0, "gpi", TRUE, TRUE, TRUE), Event(2, 0, "hard", FALSE, FALSE, FALSE)>>
================================================================================
