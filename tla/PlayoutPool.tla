------------------------------ MODULE PlayoutPool ------------------------------
(* What caed promises its clients about playouts, with cards, streams, rings and *)
(* threads left out: a bounded pool of handles.  A handle has at most one owner, *)
(* is given only while it is free, and only its owner starts it or gives it      *)
(* back; losing the owner gives back everything it held.                         *)
EXTENDS Naturals, FiniteSets

CONSTANTS Clients, Handles, Nobody, Capacity

VARIABLES owner,     \* the client that holds a handle, or Nobody
          running    \* the handles whose playout runs

vars == <<owner, running>>

Held == {h \in Handles : owner[h] # Nobody}

Init ==
  /\ owner = [h \in Handles |-> Nobody]
  /\ running = {}

Acquire(c, h) ==
  /\ owner[h] = Nobody /\ Cardinality(Held) < Capacity
  /\ owner' = [owner EXCEPT ![h] = c]
  /\ UNCHANGED running

Release(c, h) ==
  /\ owner[h] = c
  /\ owner' = [owner EXCEPT ![h] = Nobody]
  /\ running' = running \ {h}

Drop(c) ==
  /\ owner' = [h \in Handles |-> IF owner[h] = c THEN Nobody ELSE owner[h]]
  /\ running' = {h \in running : owner[h] # c}

Start(c, h) ==
  /\ owner[h] = c /\ h \notin running
  /\ running' = running \cup {h}
  /\ UNCHANGED owner

Halt(h) ==
  /\ h \in running
  /\ running' = running \ {h}
  /\ UNCHANGED owner

Next ==
  \/ \E c \in Clients : Drop(c) \/ \E h \in Handles : Acquire(c, h) \/ Release(c, h) \/ Start(c, h)
  \/ \E h \in Handles : Halt(h)

Spec == Init /\ [][Next]_vars
================================================================================
