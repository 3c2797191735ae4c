-------------------------------- MODULE LogPlay --------------------------------
(* A log machine of RDAirPlay (rdairplay/log_play.cpp): the lines of the running *)
(* log (lib/rdlog_event.cpp), the decks that play its carts (lib/rdplay_deck.cpp),*)
(* the macro deck (lib/rdmacro_event.cpp), and the two timers that start events  *)
(* at a hard time.                                                               *)
(*                                                                               *)
(* Everything runs in one Qt event loop.  StartEvent() and FinishEvent() call    *)
(* each other, once per line that needs no time; `call' is the call the handler  *)
(* in progress has still to make, and nothing else runs until it is done.        *)
(* Positions in the log are counted from 1.  Channels, ports, volumes, start     *)
(* time estimates, as-played records and auditioning are left out.               *)
EXTENDS Integers, Sequences, FiniteSets, FiniteSetsExt, SequencesExt

CONSTANTS Logs,        \* the logs that may be loaded: sequences of lines
          NDecks,      \* RD_MAX_STREAMS
          MaxPlays,    \* LOGPLAY_MAX_PLAYS, TRANSPORT_QUANTITY
          MaxLines,    \* bound: lines a log grows to
          Modes,       \* operating modes the operator uses
          ForcedSegue, \* play_segue_length and play_trans_length are not 0
          Refusals,    \* caed may have no stream for a cart
          Commands,    \* what the operator does to a log
          EditsCross   \* also while a macro sleeps, and across a paused line

Types == {"Cart", "Macro", "Marker"}   \* Marker: whatever is passed over at once
Transitions == {"Play", "Segue", "Stop"}
Graces == {"start", "next", "wait"}    \* graceTime() 0, -1 and more
Statuses == {"Scheduled", "Playing", "Finishing", "Paused", "Finished"}
None == 0
DeckIds == 1..NDecks

(* `at' is the hard start time, 0 for a relative one; `ok' that setEvent() finds *)
(* something to play; `slow' that a cut has segue points or a macro sleeps.      *)
Lines == [type : Types, trans : Transitions, at : Nat, grace : Graces, ok : BOOLEAN,
          slow : BOOLEAN, status : Statuses, deck : DeckIds \cup {None}]

ASSUME LogPlayAssumption ==
  /\ Logs \subseteq Seq({ln \in Lines : ln.status = "Scheduled" /\ ln.deck = None})
  /\ MaxLines \in Nat
  /\ NDecks \in Nat /\ NDecks >= MaxLines /\ MaxPlays \in Nat
  /\ Modes \subseteq {"Auto", "LiveAssist", "Manual"}
  /\ Commands \subseteq {"play", "stop", "pause", "makeNext", "insert", "remove", "move"}
  /\ ForcedSegue \in BOOLEAN /\ Refusals \in BOOLEAN /\ EditsCross \in BOOLEAN

VARIABLES
  log, next, mode,    \* the lines, play_next_line, play_op_mode
  decks, active,      \* play_deck, play_deck_active
  macro,              \* play_macro_deck: its line, whether it sleeps
  macro_running,      \* play_macro_running
  trans,              \* play_trans_timer and play_trans_line
  grace,              \* play_grace_timer and play_grace_line
  now,                \* the time of day
  call                \* the call the handler in progress has still to make

vars == <<log, next, mode, decks, active, macro, macro_running, trans, grace, now, call>>

(* A deck as RDPlayDeck keeps it.  `air' is its stream at caed: not loaded, idle,*)
(* playing, or ended with the report on its way.                                 *)
Decks == [id : Nat, state : {"Stopped", "Playing", "Stopping", "Paused"}, connected : BOOLEAN,
          pause_called : BOOLEAN, stop_called : BOOLEAN, segue : {"off", "start", "end"},
          stop_timer : BOOLEAN, air : {"none", "idle", "playing", "ended"}]
NoDeck == [id |-> None, state |-> "Stopped", connected |-> FALSE, pause_called |-> FALSE,
           stop_called |-> FALSE, segue |-> "off", stop_timer |-> FALSE, air |-> "none"]
Calls == [op : {"none", "StartEvent", "FinishEvent"}, line : Nat, trans : Transitions,
          fade : BOOLEAN, rearm : SUBSET Nat, always : BOOLEAN, unwind : BOOLEAN]
NoCall == [op |-> "none", line |-> None, trans |-> "Play", fade |-> FALSE,
           rearm |-> {}, always |-> FALSE, unwind |-> FALSE]
NoMacro == [line |-> None, sleeps |-> FALSE]

LogTypeOK ==
  /\ log \in Seq(Lines) /\ next \in Nat /\ mode \in Modes
  /\ decks \in [DeckIds -> Decks] /\ active \subseteq DeckIds
  /\ macro \in [line : Nat, sleeps : BOOLEAN] /\ macro_running \in BOOLEAN
  /\ trans \in [line : Nat, at : Nat, on : BOOLEAN]
  /\ grace \in [line : Nat, on : BOOLEAN]
  /\ now \in Nat /\ call \in Calls

--------------------------------------------------------------------------------
(* Which line comes next.                                                        *)

(* SetTransTimer(): the earliest hard start still ahead of a line not yet        *)
(* started; the last of several at the same time                                 *)
HardStarts(l, t) == {k \in DOMAIN l : l[k].at > t /\ l[k].status = "Scheduled"}
(* Mutation: the first in the log instead of the earliest.                       *)
TransOfFirst(l, t) ==
  IF HardStarts(l, t) = {} THEN [line |-> None, at |-> 0, on |-> FALSE]
  ELSE [line |-> Min(HardStarts(l, t)), at |-> l[Min(HardStarts(l, t))].at, on |-> TRUE]
TransOf(l, t) ==
  IF HardStarts(l, t) = {} THEN [line |-> None, at |-> 0, on |-> FALSE]
  ELSE LET k == CHOOSE j \in HardStarts(l, t) : \A i \in HardStarts(l, t) :
                  l[j].at < l[i].at \/ (l[j].at = l[i].at /\ i <= j)
       IN  [line |-> k, at |-> l[k].at, on |-> TRUE]

(* runningEvents(): no more than TRANSPORT_QUANTITY of them                      *)
IsRunning(ln) == ln.status \in {"Playing", "Finishing", "Paused"}
Running == {k \in DOMAIN log : /\ IsRunning(log[k])
                               /\ Cardinality({j \in 1..(k - 1) : IsRunning(log[j])}) < MaxPlays}

(* GetNextPlayable(): the scan from a line on ends at one that stops the log     *)
(* (it becomes the next, and the scan has failed) or at one that can be played.  *)
Blocks(k, from) == (log[k].trans = "Stop" \/ mode = "LiveAssist") /\ k # from
Takes(k, forced) == log[k].ok \/ (log[k].trans = "Stop" /\ ~forced)
Halts(k, from, forced) == /\ log[k].status \in {"Scheduled", "Paused"}
                          /\ Blocks(k, from) \/ Takes(k, forced)
GetNextPlayable(from, forced) ==
  LET ends == {k \in DOMAIN log : from # None /\ k >= from /\ Halts(k, from, forced)}
  IN  IF ends = {} THEN None ELSE Min(ends)

Found(k, from) == k # None /\ ~Blocks(k, from)
Blocked(k, from) == k # None /\ Blocks(k, from)

(* makeNext()                                                                    *)
makeNextLine(k) == next' = k /\ trans' = TransOf(log, now)

--------------------------------------------------------------------------------
(* Methods of a deck.                                                            *)

StopAir(air) == IF air = "playing" THEN "ended" ELSE air
DeckStop(d) == IF d.state \notin {"Playing", "Stopping"} THEN d
               ELSE [d EXCEPT !.state = "Stopping", !.stop_called = TRUE, !.air = StopAir(@)]
DeckFade(d) == IF d.state \notin {"Playing", "Stopping"} THEN d
               ELSE [d EXCEPT !.state = "Stopping", !.stop_called = TRUE, !.stop_timer = TRUE]
DeckPause(d) == [d EXCEPT !.state = "Paused", !.pause_called = TRUE, !.air = StopAir(@)]

(* StartAudioEvent(), setCart() and play(): a paused deck keeps its id and its   *)
(* stream.  One that gets no stream stays as it is.                              *)
DeckStart(d, k, points) ==
  [NoDeck EXCEPT !.id = IF d.state = "Paused" THEN d.id ELSE k, !.connected = TRUE,
                 !.state = "Playing", !.air = "playing",
                 !.segue = IF points THEN "start" ELSE "off"]
DeckRefused(k) == [NoDeck EXCEPT !.id = k, !.connected = TRUE]

--------------------------------------------------------------------------------
(* The calls a handler makes.                                                    *)

Idle == call.op = "none"
StartCall(k, tr, fade, always) ==
  call' = [NoCall EXCEPT !.op = "StartEvent", !.line = k, !.trans = tr, !.fade = fade,
                         !.always = always]
FinishCall(unwind) == call' = [NoCall EXCEPT !.op = "FinishEvent", !.unwind = unwind]

(* The calls return: StartEvent() forgets a next line past the end of the log,   *)
(* FinishEvent() rearms the timer when the line it started is the one the timer  *)
(* was for or the timer is off, and macroFinishedData() resets its flag.         *)
Return(l, n) ==
  /\ call' = NoCall
  /\ next' = IF n \in DOMAIN l THEN n ELSE None
  /\ trans' = IF call.always \/ (call.rearm # {} /\ (trans.line \in call.rearm \/ ~trans.on))
              THEN TransOf(l, now) ELSE trans
  /\ macro_running' = (macro_running /\ ~call.unwind)

(* StartEvent() stops, or fades out, what is running.                            *)
(* Mutation: a segue leaves alone what is running.                               *)
TransitionedPlayOnly == IF mode = "Manual" \/ call.trans = "Segue" THEN {}
                        ELSE {j \in Running : log[j].status # "Paused"}
Transitioned ==
  IF mode = "Manual" THEN {}
  ELSE {j \in Running : log[j].status \in (IF call.trans = "Play" THEN {"Playing", "Finishing"}
                                            ELSE {"Playing"})}
MacroStopped == macro.sleeps /\ \E j \in Transitioned : log[j].type = "Macro"
LogTransitioned ==
  [j \in DOMAIN log |->
     IF MacroStopped /\ j = macro.line THEN [log[j] EXCEPT !.status = "Finished"]
     ELSE IF call.trans = "Segue" /\ j \in Transitioned /\ log[j].type = "Cart"
          THEN [log[j] EXCEPT !.status = "Finishing"] ELSE log[j]]
DecksTransitioned ==
  [d \in DeckIds |->
     IF \E j \in Transitioned : log[j].type = "Cart" /\ log[j].deck = d
     THEN IF call.trans = "Segue" /\ call.fade THEN DeckFade(decks[d]) ELSE DeckStop(decks[d])
     ELSE decks[d]]
MacroTransitioned == IF MacroStopped THEN NoMacro ELSE macro

NextAfter(k) == IF next = None THEN None ELSE k + 1

(* A cart: a paused one resumes on its deck, another takes a free deck and loads.*)
StartCart(k, d, loaded) ==
  LET resumed == log[k].status = "Paused"
      l == [LogTransitioned EXCEPT ![k].status = "Playing", ![k].deck = d]
  IN  /\ IF resumed THEN d = log[k].deck /\ loaded
         ELSE /\ log[k].ok /\ d \notin active /\ \A e \in DeckIds \ active : d <= e
              /\ loaded \/ Refusals
      /\ log' = l
      /\ active' = active \cup {d}
      /\ decks' = [DecksTransitioned EXCEPT ![d] = IF loaded THEN DeckStart(@, k, log[k].slow)
                                                             ELSE DeckRefused(k)]
      /\ macro' = MacroTransitioned
      /\ Return(l, IF resumed THEN next ELSE NextAfter(k))

(* A cart without audio is dismissed, a marker passed over, a macro that does    *)
(* not sleep executed: FinishEvent() follows.                                    *)
StartAndFinish(k) ==
  /\ \/ log[k].type = "Cart" /\ ~log[k].ok /\ log[k].status # "Paused" /\ UNCHANGED <<next, macro_running>>
     \/ log[k].type = "Marker" /\ next' = NextAfter(k) /\ UNCHANGED macro_running
     \/ log[k].type = "Macro" /\ ~log[k].slow /\ ~MacroTransitioned.sleeps
        /\ next' = NextAfter(k) /\ macro_running' = TRUE
  /\ log' = [LogTransitioned EXCEPT ![k].status = "Finished"]
  /\ decks' = DecksTransitioned
  /\ macro' = MacroTransitioned
  /\ call' = [call EXCEPT !.op = "FinishEvent", !.unwind = @ \/ log[k].type = "Macro"]
  /\ UNCHANGED <<active, trans>>

(* A macro that sleeps.  load() appends: the commands of one still sleeping run  *)
(* again with it.                                                                *)
StartMacro(k) ==
  LET l == [LogTransitioned EXCEPT ![k].status = "Playing"] IN
  /\ log[k].slow \/ MacroTransitioned.sleeps
  /\ log' = l
  /\ macro' = [line |-> k, sleeps |-> TRUE]
  /\ decks' = DecksTransitioned
  /\ call' = NoCall
  /\ next' = IF NextAfter(k) \in DOMAIN l THEN NextAfter(k) ELSE None
  /\ trans' = IF call.always \/ (call.rearm # {} /\ (trans.line \in call.rearm \/ ~trans.on))
              THEN TransOf(l, now) ELSE trans
  /\ macro_running' = ~call.unwind
  /\ UNCHANGED active

StartEvent ==
  /\ call.op = "StartEvent"
  /\ LET k == call.line
     IN  \/ log[k].type = "Cart" /\ \E d \in DeckIds, loaded \in BOOLEAN : StartCart(k, d, loaded)
         \/ StartAndFinish(k)
         \/ log[k].type = "Macro" /\ StartMacro(k)
  /\ UNCHANGED <<mode, grace, now>>

(* FinishEvent(): in Auto the next playable line starts by its transition.       *)
(* Mutation: only a Play transition follows on.                                  *)
FollowsOnPlay(k) == mode = "Auto" /\ log[k].trans = "Play"
FollowsOn(k) == mode = "Auto" /\ log[k].trans \in {"Play", "Segue"}
FinishEvent ==
  LET k == GetNextPlayable(next, FALSE) IN
  /\ call.op = "FinishEvent"
  /\ \/ /\ Found(k, next) /\ FollowsOn(k)
        /\ next' = k
        /\ call' = [call EXCEPT !.op = "StartEvent", !.line = k, !.trans = log[k].trans,
                                !.fade = FALSE, !.rearm = @ \cup {next}]
        /\ UNCHANGED <<trans, macro_running>>
     \/ Found(k, next) /\ ~FollowsOn(k) /\ Return(log, k)
     \/ /\ Blocked(k, next)
        /\ call' = NoCall /\ makeNextLine(k)
        /\ macro_running' = (macro_running /\ ~call.unwind)
     \/ k = None /\ Return(log, next)
  /\ UNCHANGED <<log, mode, decks, active, macro, grace, now>>

--------------------------------------------------------------------------------
(* The operator, by a button or an RML.                                          *)

Init ==
  /\ log \in Logs
  /\ next = (IF log = <<>> THEN None ELSE 1)
  /\ mode \in Modes
  /\ decks = [d \in DeckIds |-> NoDeck] /\ active = {}
  /\ macro = NoMacro /\ macro_running = FALSE
  /\ now = 0 /\ trans = TransOf(log, 0)
  /\ grace = [line |-> None, on |-> FALSE]
  /\ call = NoCall

play(line) ==
  LET k == GetNextPlayable(line, TRUE) IN
  /\ Idle /\ "play" \in Commands
  /\ Cardinality(Running) < MaxPlays \/ log[line].status = "Paused"
  /\ \/ /\ Found(k, line)
        /\ StartCall(k, IF ForcedSegue THEN "Segue" ELSE "Play", ForcedSegue, TRUE)
        /\ UNCHANGED <<next, trans>>
     \/ Blocked(k, line) /\ makeNextLine(k) /\ UNCHANGED call
  /\ UNCHANGED <<log, mode, decks, active, macro, macro_running, grace, now>>

(* stop() of a line, at once or with a fade                                      *)
stop(line, fade) ==
  /\ Idle /\ "stop" \in Commands /\ IsRunning(log[line])
  /\ \/ /\ log[line].type = "Cart" /\ log[line].deck # None
        /\ decks' = [decks EXCEPT ![log[line].deck] = IF fade THEN DeckFade(@) ELSE DeckStop(@)]
        /\ UNCHANGED <<log, macro>>
     \/ /\ log[line].type = "Macro" /\ ~fade /\ macro.sleeps
        /\ macro' = NoMacro
        /\ log' = [j \in DOMAIN log |-> IF j = macro.line THEN [log[j] EXCEPT !.status = "Finished"]
                                                          ELSE log[j]]
        /\ UNCHANGED decks
  /\ UNCHANGED <<next, mode, active, macro_running, trans, grace, now, call>>

pause(line) ==
  /\ Idle /\ "pause" \in Commands /\ log[line].status \in {"Playing", "Finishing"}
  /\ log[line].type = "Cart" /\ log[line].deck # None
  /\ decks[log[line].deck].air \in {"playing", "ended"}
  /\ decks' = [decks EXCEPT ![log[line].deck] = DeckPause(@)]
  /\ UNCHANGED <<log, next, mode, active, macro, macro_running, trans, grace, now, call>>

makeNext(line) ==
  /\ Idle /\ "makeNext" \in Commands /\ log[line].status = "Scheduled"
  /\ makeNextLine(line)
  /\ UNCHANGED <<log, mode, decks, active, macro, macro_running, grace, now, call>>

setOpMode(m) ==
  /\ Idle /\ mode # m /\ mode' = m
  /\ UNCHANGED <<log, next, decks, active, macro, macro_running, trans, grace, now, call>>

--------------------------------------------------------------------------------
(* Edits of the log.  Deck ids and the line of the macro deck follow them; the   *)
(* line of the grace timer does not.                                             *)

NewLine == [type |-> "Cart", trans |-> "Play", at |-> 0, grace |-> "start", ok |-> TRUE,
            slow |-> FALSE, status |-> "Scheduled", deck |-> None]
DecksOf(S) == {log[k].deck : k \in S} \ {None}
Renumber(S, Id(_)) == decks' = [d \in DeckIds |-> IF d \in DecksOf(S)
                                  THEN [decks[d] EXCEPT !.id = Id(@)] ELSE decks[d]]
Quiet == EditsCross \/ ~macro.sleeps

insert(k) ==
  /\ Idle /\ "insert" \in Commands /\ Quiet /\ Len(log) < MaxLines
  /\ k \in DOMAIN log => log[k].status = "Scheduled"
  /\ log' = InsertAt(log, k, NewLine)
  /\ Renumber(Running, LAMBDA id : IF id >= k THEN id + 1 ELSE id)
  /\ macro' = [macro EXCEPT !.line = IF @ # None THEN @ + 1 ELSE @]
  /\ next' = IF next > k THEN next + 1 ELSE IF next = None THEN k ELSE next
  /\ trans' = TransOf(log', now)
  /\ UNCHANGED <<mode, active, macro_running, grace, now, call>>

(* Mutation: the next line moves up, whichever line goes.                        *)
removeShiftsNext(k) ==
  /\ Idle /\ "remove" \in Commands /\ Quiet
  /\ log[k].status = "Scheduled"
  /\ log' = RemoveAt(log, k)
  /\ next' = next - 1
  /\ UNCHANGED <<mode, decks, active, macro, macro_running, trans, grace, now, call>>

remove(k) ==
  LET gone == DecksOf({k}) IN
  /\ Idle /\ "remove" \in Commands /\ Quiet
  /\ log[k].status \in {"Scheduled", "Paused"}
  /\ log' = RemoveAt(log, k)
  /\ decks' = [d \in DeckIds |-> IF d \in gone THEN NoDeck
                 ELSE IF d \in DecksOf(Running) /\ decks[d].id > k
                      THEN [decks[d] EXCEPT !.id = @ - 1] ELSE decks[d]]
  /\ active' = active \ gone
  /\ macro' = [macro EXCEPT !.line = IF @ > 1 THEN @ - 1 ELSE @]
  /\ next' = IF next > k THEN next - 1 ELSE next
  /\ trans' = TransOf(log', now)
  /\ UNCHANGED <<mode, macro_running, grace, now, call>>

(* move(), of a line not yet started in front of another or to the end.  Paused  *)
(* lines are not renumbered.                                                     *)
Shifted(id, from, to) == IF id > from /\ id <= to THEN id - 1
                         ELSE IF id < from /\ id > to THEN id + 1 ELSE id
move(from, before) ==
  LET to == IF before > Len(log) THEN Len(log) ELSE IF before > from THEN before - 1 ELSE before
      crossed == {k \in DOMAIN log : k \in from..to \/ k \in to..from}
      offset == IF to > from THEN 1 ELSE 0
  IN  /\ Idle /\ "move" \in Commands /\ Quiet
      /\ EditsCross \/ \A k \in crossed : log[k].status # "Paused"
      /\ \A k \in {from, before} \cap DOMAIN log : log[k].status = "Scheduled"
      /\ to # from
      /\ log' = InsertAt(RemoveAt(log, from), to, log[from])
      /\ Renumber({k \in Running : log[k].status # "Paused"}, LAMBDA id : Shifted(id, from, to))
      /\ macro' = [macro EXCEPT !.line = IF @ # None THEN Shifted(@, from, to) ELSE @]
      /\ next' = IF next > from /\ next <= to + offset THEN next - 1
                 ELSE IF next < from /\ next > to THEN next + 1 ELSE next
      /\ trans' = TransOf(log', now)
      /\ UNCHANGED <<mode, active, macro_running, grace, now, call>>

--------------------------------------------------------------------------------
(* Timers.                                                                       *)

(* transTimerData(): the line the timer was set for starts; what decides how is  *)
(* the first playable one from there on.                                         *)
transTimerData ==
  LET line == trans.line
      k == GetNextPlayable(line, FALSE)
      start == IF Running # {} /\ ForcedSegue THEN "Segue" ELSE "Play"
      off == grace' = [grace EXCEPT !.on = FALSE]
  IN  /\ Idle /\ trans.on
      /\ now' = trans.at
      /\ \/ /\ mode # "Auto" \/ k = None
            /\ off /\ UNCHANGED <<log, next, call>>
         \/ /\ mode = "Auto" /\ Blocked(k, line)
            /\ next' = k /\ off /\ UNCHANGED <<log, call>>
         \/ /\ mode = "Auto" /\ Found(k, line)
            /\ IF Running = {} THEN log[k].trans # "Stop" \/ log[k].grace # "next"
                               ELSE log[k].grace = "start"
            /\ next' = k /\ StartCall(line, start, start = "Segue", TRUE)
            /\ off /\ UNCHANGED log
         \/ /\ mode = "Auto" /\ Found(k, line) /\ log[k].grace = "next"
            /\ Running = {} => log[k].trans = "Stop"
            /\ next' = k /\ off /\ UNCHANGED <<log, call>>
         \/ /\ mode = "Auto" /\ Found(k, line) /\ log[k].grace = "wait" /\ Running # {}
            /\ log' = [log EXCEPT ![k].trans = IF @ = "Stop" THEN "Play" ELSE @]
            /\ grace' = [line |-> k, on |-> TRUE]
            /\ UNCHANGED <<next, call>>
      /\ trans' = TransOf(log', now')
      /\ UNCHANGED <<mode, decks, active, macro, macro_running>>

(* graceTimerData(): a deferred hard start                                       *)
graceTimerData ==
  LET line == grace.line
      k == GetNextPlayable(line, FALSE)
      start == IF Running # {} /\ ForcedSegue THEN "Segue" ELSE "Play"
  IN  /\ Idle /\ grace.on
      /\ grace' = [grace EXCEPT !.on = FALSE]
      /\ \/ mode = "Auto" /\ k = None /\ trans' = TransOf(log, now) /\ UNCHANGED <<next, call>>
         \/ mode = "Auto" /\ Blocked(k, line) /\ makeNextLine(k) /\ UNCHANGED call
         \/ mode = "Auto" /\ Found(k, line) /\ k = line /\ makeNextLine(k)
              /\ StartCall(k, start, start = "Segue", FALSE)
         \/ /\ mode # "Auto" \/ (Found(k, line) /\ k # line)
            /\ UNCHANGED <<next, trans, call>>
      /\ UNCHANGED <<log, mode, decks, active, macro, macro_running, now>>

(* RDMacroEvent::sleepTimerData(): the macro ends, macroFinishedData()           *)
(* Mutation: the line of the macro keeps its status.                             *)
sleepTimerKeepsStatus ==
  /\ Idle /\ macro.sleeps
  /\ macro' = NoMacro
  /\ FinishCall(TRUE)
  /\ UNCHANGED <<log, next, mode, decks, active, macro_running, trans, grace, now>>
sleepTimerData ==
  /\ Idle /\ macro.sleeps
  /\ macro' = NoMacro
  /\ log' = [j \in DOMAIN log |-> IF j = macro.line THEN [log[j] EXCEPT !.status = "Finished"]
                                                    ELSE log[j]]
  /\ FinishCall(TRUE)
  /\ UNCHANGED <<next, mode, decks, active, macro_running, trans, grace, now>>

--------------------------------------------------------------------------------
(* What decks report.                                                            *)

(* CleanupEvent() of a line: it is over, and the deck it holds is free again.    *)
(* Mutation: the deck is not given back.                                         *)
CleanupKeepsDeck(k) ==
  /\ log' = [log EXCEPT ![k].status = "Finished", ![k].deck = None]
  /\ decks' = [decks EXCEPT ![log[k].deck] = NoDeck]
  /\ UNCHANGED active
CleanupEvent(k) ==
  /\ log' = [log EXCEPT ![k].status = "Finished", ![k].deck = None]
  /\ decks' = [decks EXCEPT ![log[k].deck] = NoDeck]
  /\ active' = active \ {log[k].deck}

(* pointTimerData() at the segue start, and segueStartData()                     *)
segueStartData(d) ==
  LET from == decks[d].id
      k == GetNextPlayable(next, FALSE)
      goes == /\ decks[d].connected /\ from \in DOMAIN log /\ next \in DOMAIN log
              /\ mode = "Auto" /\ log[next].trans = "Segue" /\ log[from].status = "Playing"
  IN  /\ Idle /\ decks[d].segue = "start"
      /\ decks' = [decks EXCEPT ![d].segue = "end"]
      /\ \/ goes /\ Found(k, next) /\ next' = k /\ StartCall(k, "Segue", TRUE, TRUE)
              /\ UNCHANGED trans
         \/ goes /\ Blocked(k, next) /\ makeNextLine(k) /\ UNCHANGED call
         \/ (goes => k = None) /\ UNCHANGED <<next, trans, call>>
      /\ UNCHANGED <<log, mode, active, macro, macro_running, grace, now>>

(* segueEndData(): what has been faded out is over.                              *)
segueEndData(d) ==
  LET from == decks[d].id
      goes == /\ decks[d].connected /\ from \in DOMAIN log
              /\ mode = "Auto" /\ log[from].status = "Finishing"
  IN  /\ Idle /\ decks[d].segue = "end"
      /\ \/ goes /\ CleanupEvent(from)
         \/ ~goes /\ decks' = [decks EXCEPT ![d].segue = "off"] /\ UNCHANGED <<log, active>>
      /\ UNCHANGED <<next, mode, macro, macro_running, trans, grace, now, call>>

(* play_stop_timer: a fade is over                                               *)
stopTimer(d) ==
  /\ Idle /\ decks[d].stop_timer
  /\ decks' = [decks EXCEPT ![d] = [DeckStop(@) EXCEPT !.stop_timer = FALSE]]
  /\ UNCHANGED <<log, next, mode, active, macro, macro_running, trans, grace, now, call>>

(* caed reaches the end of the cut.                                              *)
caedEnds(d) ==
  /\ decks[d].air = "playing"
  /\ decks' = [decks EXCEPT ![d].air = "ended"]
  /\ UNCHANGED <<log, next, mode, active, macro, macro_running, trans, grace, now, call>>

(* playStoppedData() of a deck, and Paused(), Stopped() or Finished() of the     *)
(* line its id names.                                                            *)
EndsLine(d) == decks[d].connected /\ decks[d].id \in DOMAIN log
playStoppedData(d) ==
  LET k == decks[d].id
      ended == [decks EXCEPT ![d] = [NoDeck EXCEPT !.id = k, !.connected = decks[d].connected]]
  IN  /\ Idle /\ decks[d].air = "ended"
      /\ \/ /\ decks[d].pause_called
            /\ decks' = [decks EXCEPT ![d] = [NoDeck EXCEPT !.id = k, !.pause_called = TRUE,
                                                            !.state = "Paused", !.air = "idle"]]
            /\ log' = [j \in DOMAIN log |-> IF decks[d].connected /\ j = k
                         THEN [log[j] EXCEPT !.status = "Paused"] ELSE log[j]]
            /\ UNCHANGED <<active, call>>
         \/ /\ ~decks[d].pause_called /\ decks[d].stop_called /\ EndsLine(d)
            /\ CleanupEvent(k) /\ UNCHANGED call
         \/ /\ ~decks[d].pause_called /\ ~(decks[d].stop_called /\ EndsLine(d))
            /\ IF EndsLine(d) /\ log[k].status = "Playing"
               THEN CleanupEvent(k) /\ FinishCall(FALSE)
               ELSE decks' = ended /\ UNCHANGED <<log, active, call>>
      /\ UNCHANGED <<next, mode, macro, macro_running, trans, grace, now>>

--------------------------------------------------------------------------------
Operator ==
  \/ \E k \in DOMAIN log : \/ play(k) \/ pause(k) \/ makeNext(k) \/ remove(k)
                           \/ \E fade \in BOOLEAN : stop(k, fade)
                           \/ \E j \in 1..(Len(log) + 1) : move(k, j)
  \/ \E k \in 1..(Len(log) + 1) : insert(k)
  \/ \E m \in Modes : setOpMode(m)
DeckEvent(d) == \/ caedEnds(d) \/ playStoppedData(d) \/ stopTimer(d)
                \/ segueStartData(d) \/ segueEndData(d)
Next == \/ Operator \/ StartEvent \/ FinishEvent
        \/ transTimerData \/ graceTimerData \/ sleepTimerData
        \/ \E d \in DeckIds : DeckEvent(d)

LogSpec == Init /\ [][Next]_vars

(* Qt delivers every signal and timer, a call returns, and caed reaches the end  *)
(* of what it plays.                                                             *)
FairLogSpec == /\ LogSpec /\ WF_vars(StartEvent) /\ WF_vars(FinishEvent) /\ WF_vars(sleepTimerData)
               /\ \A d \in DeckIds : WF_vars(DeckEvent(d))

--------------------------------------------------------------------------------
(* Properties.                                                                   *)

Holders(d) == {k \in DOMAIN log : log[k].deck = d}

(* A cart that is running holds a deck that knows its line, no two lines hold    *)
(* the same one, and a deck no line holds is free and silent: FreePlayDeck() and *)
(* the renumbering in insert(), remove() and move() keep up with each other, and *)
(* CleanupEvent(), which follows playDeck() untested, finds a deck.              *)
DecksTrackLines ==
  /\ \A d \in DeckIds : IF Holders(d) = {} THEN d \notin active /\ decks[d].air = "none"
                          ELSE d \in active /\ Holders(d) = {decks[d].id}
  /\ \A k \in DOMAIN log : log[k].deck # None <=> (log[k].type = "Cart" /\ IsRunning(log[k]))

(* No line is shown as playing with nothing left that could end it: a cart has   *)
(* audio under way, a macro is the one the macro deck executes.                  *)
NothingHangs ==
  Idle => \A k \in DOMAIN log : log[k].status \in {"Playing", "Finishing"} =>
            \/ log[k].type = "Cart" /\ decks[log[k].deck].air \in {"playing", "ended"}
            \/ log[k].type = "Macro" /\ macro.sleeps /\ macro.line = k

(* Outside of Manual, starting an event by any of the ways leaves no more than   *)
(* it on air: the transition has stopped, or is fading, everything else.         *)
OneOnAir == Cardinality({d \in DeckIds : decks[d].state = "Playing"}) <= 1

(* In Auto no hard start is missed: time does not pass the hard start of a       *)
(* playable event that may not wait without the event having started, or being   *)
(* started now, whatever has set the timer since the log was loaded.             *)
(* (SetTransTimer() knows only the last of several at the same time.)            *)
Due(k) == /\ log[k].at > now /\ log[k].at <= now' /\ log[k].status = "Scheduled"
          /\ log[k].ok /\ log[k].grace = "start"
          /\ \A j \in DOMAIN log : j # k => log[j].at # log[k].at
HardStartsMet ==
  [][mode = "Auto" => \A k \in DOMAIN log : Due(k) => call'.op = "StartEvent" /\ call'.line = k]_vars

(* A hard start does not start again an event that is already on air.            *)
HardStartsOnce ==
  [][transTimerData => log[trans.line].status \notin {"Playing", "Finishing"} \/ call' = NoCall]_vars

(* While an event is on air in Auto, the one that is next and does not wait for  *)
(* the operator is started in its turn, or passed over for another, unless what  *)
(* is on air is stopped or paused meanwhile.                                     *)
OnAir(j) == /\ j \in DOMAIN log /\ log[j].type = "Cart" /\ log[j].status = "Playing"
            /\ ~decks[log[j].deck].stop_called /\ ~decks[log[j].deck].pause_called
Pending(k) == /\ mode = "Auto" /\ next = k /\ k \in DOMAIN log /\ log[k].status = "Scheduled"
              /\ log[k].ok /\ log[k].trans # "Stop"
Interrupted(j) == /\ j \in DOMAIN log /\ log[j].deck # None
                  /\ decks[log[j].deck].stop_called \/ decks[log[j].deck].pause_called
AutoGoesOn ==
  \A j, k \in 1..MaxLines : (OnAir(j) /\ Pending(k)) ~> (~Pending(k) \/ Interrupted(j))
================================================================================
