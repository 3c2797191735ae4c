------------------------------ MODULE MC_LogPlay ------------------------------
(* Small instances of LogPlay for TLC: the logs to run.                          *)
EXTENDS LogPlay

Line(type, trans_, at, grace_, ok, slow) ==
  [type |-> type, trans |-> trans_, at |-> at, grace |-> grace_, ok |-> ok, slow |-> slow,
   status |-> "Scheduled", deck |-> None]
Cart(trans_, slow) == Line("Cart", trans_, 0, "start", TRUE, slow)
Timed(trans_, at, grace_) == Line("Cart", trans_, at, grace_, TRUE, FALSE)
Dead(trans_, at) == Line("Cart", trans_, at, "start", FALSE, FALSE)
Macro(slow) == Line("Macro", "Play", 0, "start", TRUE, slow)
Marker == Line("Marker", "Play", 0, "start", TRUE, FALSE)

(* Logs run in Auto: hard starts out of order, of each grace, and transitions    *)
(* of each kind.                                                                 *)
AutoLogs == {<<Cart("Play", TRUE), Cart("Segue", FALSE), Timed("Play", 1, g)>> : g \in {"start", "wait"}}
            \cup {<<Timed("Segue", 2, "start"), Macro(g = "next"), Timed("Stop", 1, g)>> : g \in Graces}
            \cup {<<Cart("Play", TRUE), Marker, Timed("Segue", 1, "start")>>,
                  <<Cart("Play", TRUE), Timed("Play", 1, "wait"), Cart("Stop", FALSE)>>,
                  <<Cart("Play", FALSE), Dead("Play", 1), Cart("Play", FALSE)>>}
(* Logs an operator plays and edits.                                             *)
EditLogs == {<<Cart("Segue", TRUE), Macro(TRUE)>>}
(* An event without audio ahead of a hard start.                                 *)
DeadLogs == {<<Cart("Play", FALSE), Dead("Play", 0), Timed("Play", 1, "start"), Cart("Play", FALSE)>>}
(* Two carts in a row.                                                           *)
PlainLogs == {<<Cart("Play", FALSE), Cart("Play", FALSE)>>}
================================================================================
