---------------------------------- MODULE Catch ---------------------------------
(* The recording side of the RDCatch daemon (rdcatchd/rdcatchd.cpp and           *)
(* local_macros.cpp): the list of scheduled events, the record decks, the GPI    *)
(* windows, recordings asked for by RML, and their life at caed, module Caed,    *)
(* whose handlers the commands it sends drive.                                   *)
(*                                                                               *)
(* rdcatchd is connection Self of caed; Other is any other client, which may     *)
(* stop a port it does not own.  A record deck is named after its port, and the  *)
(* recordings of a cut after the event they were made for.  Playouts, macro and  *)
(* switch events, transfers, exit codes, meters and audio formats are left out.  *)
EXTENDS Caed, FiniteSetsExt, SequencesExt

CONSTANTS Schedule,    \* the RECORDINGS table: the events when the daemon starts
          Base,        \* RDCATCHD_DYNAMIC_BASE_ID, ids of events made for an RML
          Crashes,     \* rdcatchd may end and be started again
          Overlap,     \* what may come at a bad time: see "Handlers of rdcatchd"
          MaxQueue     \* bound: nothing new while more messages than this are under way

Self == 0
Other == 1
Starts == {"hard", "gpi"}
Events == [id : Nat, deck : Ports, start : Starts, offset : BOOLEAN, gpiEnd : BOOLEAN,
           once : BOOLEAN, multi : BOOLEAN, status : {"Idle", "Waiting", "Recording"},
           window : BOOLEAN, delay : BOOLEAN]
RecordDecks == [status : {"Idle", "Waiting", "Ready", "Recording"}, id : Nat,
                aborting : BOOLEAN, pending : BOOLEAN]
Fresh == {e \in Events : e.status = "Idle" /\ ~e.window /\ ~e.delay}   \* as LoadEvent() makes them
IdleDeck == [status |-> "Idle", id |-> 0, aborting |-> FALSE, pending |-> FALSE]

ASSUME CatchAssumption ==
  /\ NConns = 2 /\ Crashes \in BOOLEAN /\ Overlap \subseteq {"messages", "windows", "edits", "rml"}
  /\ Schedule \in Seq(Fresh) /\ Base \in Nat /\ MaxQueue \in Nat
  /\ \A j, k \in DOMAIN Schedule : /\ Schedule[k].id \in 1..(Base - 1)
                                   /\ Schedule[j].id = Schedule[k].id => j = k

VARIABLES
  running,     \* whether rdcatchd runs
  events,      \* catch_events
  deck,        \* catch_record_deck_status, _id, _aborting and _pending_cartnum
  leaked,      \* window timers of events removed from the list, by event id
  tape,        \* the cut caed records to on a port
  wild,        \* a daemon has used an index or a pointer that is not valid
  to_caed, to_catch   \* the TCP stream in each direction

caedVars == vars
catchVars == <<caedVars, running, events, deck, leaked, tape, wild, to_caed, to_catch>>

Cmd(cmd, p, cut) == [cmd |-> cmd, port |-> p, cut |-> cut]
Msgs == [cmd : Commands \cup {"RD"}, port : Int, cut : Nat]

CatchTypeOK ==
  /\ running \in BOOLEAN /\ wild \in BOOLEAN
  /\ events \in Seq(Events)
  /\ \A j, k \in DOMAIN events : events[j].id = events[k].id => j = k
  /\ deck \in [Ports -> RecordDecks]
  /\ leaked \subseteq Nat
  /\ tape \in [Ports -> Nat]
  /\ to_caed \in Seq(Msgs) /\ to_catch \in Seq(Msgs)

CatchInit ==
  /\ Init
  /\ running = FALSE
  /\ events = <<>> /\ deck = [p \in Ports |-> IdleDeck]
  /\ leaked = {} /\ tape = [p \in Ports |-> 0] /\ wild = FALSE
  /\ to_caed = <<>> /\ to_catch = <<>>

--------------------------------------------------------------------------------
(* Methods of the daemon, on what they change: the events, the decks, the        *)
(* commands sent.                                                                *)

Daemon == [events |-> events, deck |-> deck, cmds |-> <<>>, wild |-> FALSE]
Become(s) == /\ events' = s.events /\ deck' = s.deck
             /\ to_caed' = to_caed \o s.cmds
             /\ wild' = s.wild

(* GetEvent()                                                                    *)
GetEvent(s, id) == SelectInSeq(s.events, LAMBDA e : e.id = id)

(* StartRecording(): refused while the deck is Ready or Recording.  The status   *)
(* of the deck changes only with caed's answer.                                  *)
(* Mutation: the deck is not tested.                                             *)
AvailableAlways(d) == TRUE
Available(d) == d.status \in {"Idle", "Waiting"}
StartRecording(s, k) ==
  LET e == s.events[k] IN
  IF ~Available(s.deck[e.deck]) THEN s
  ELSE [s EXCEPT !.events[k].status = "Recording", !.deck[e.deck].id = e.id,
                 !.cmds = @ \o <<Cmd("LR", e.deck, e.id), Cmd("RD", e.deck, e.id)>>]
Started(s, k) ==
  IF Available(s.deck[s.events[k].deck])
  THEN [StartRecording(s, k) EXCEPT !.events[k].window = FALSE] ELSE s

(* engineData(): a hard start starts, a GPI start opens its window, whatever the *)
(* deck is doing.                                                                *)
OpenWindow(s, k) ==
  LET e == s.events[k] IN
  [s EXCEPT !.events[k].window = TRUE, !.events[k].status = "Waiting",
            !.deck[e.deck].status = "Waiting", !.deck[e.deck].id = e.id]
EngineData(s, id) ==
  LET k == GetEvent(s, id) IN
  IF k = 0 THEN s ELSE IF s.events[k].start = "hard" THEN StartRecording(s, k)
  ELSE OpenWindow(s, k)

(* startTimerData(): the window closes, or the operator ends the wait.  An event *)
(* that has gone meanwhile is looked up at index -1.                             *)
CloseWindow(s, id) ==
  LET k == GetEvent(s, id) IN
  IF k = 0 THEN [s EXCEPT !.wild = TRUE]
  ELSE [s EXCEPT !.events[k].status = "Idle",
                 !.deck[s.events[k].deck].status = "Idle", !.deck[s.events[k].deck].id = 0]

(* GetNextDynamicId() and StartRmlRecording(): an event of its own, recorded     *)
(* once.  With another such event in the list the search for a free id reads     *)
(* catch_events[id].                                                             *)
IsDynamic(e) == e.id >= Base
RmlEvent(p) == [id |-> Base, deck |-> p, start |-> "hard", offset |-> FALSE, gpiEnd |-> FALSE,
                once |-> TRUE, multi |-> FALSE, status |-> "Idle", window |-> FALSE, delay |-> FALSE]
StartRmlRecording(s, p) ==
  IF \E k \in DOMAIN s.events : IsDynamic(s.events[k]) THEN [s EXCEPT !.wild = TRUE]
  ELSE StartRecording([s EXCEPT !.events = Append(@, RmlEvent(p))], Len(s.events) + 1)
(* RunRmlRecordingCache()                                                        *)
RunRmlRecordingCache(s, p) ==
  IF ~s.deck[p].pending THEN s
  ELSE [StartRmlRecording(s, p) EXCEPT !.deck[p].pending = FALSE]

(* recordUnloadedData().  The event is checked in and, recorded once, purged;    *)
(* what is done to it afterwards is done to the one that then has its index, or  *)
(* to what is left of it behind the end of the list.                             *)
Restarts(e) == e.start = "gpi" /\ e.multi
(* Mutation: the deck of an event that is gone keeps its status.                 *)
UnloadedUnknownBusy(s, p) == RunRmlRecordingCache([s EXCEPT !.deck[p].aborting = FALSE], p)
(* Mutation: a recording that waits for the deck of such an event is forgotten.  *)
UnloadedUnknownForgets(s, p) == [s EXCEPT !.deck[p].status = "Idle", !.deck[p].aborting = FALSE]
UnloadedUnknown(s, p) ==
  RunRmlRecordingCache([s EXCEPT !.deck[p].status = "Idle", !.deck[p].aborting = FALSE], p)
UnloadedKnown(s, p, k) ==
  LET purged == IF s.events[k].once THEN RemoveAt(s.events, k) ELSE s.events
      next   == IF k \in DOMAIN purged THEN purged[k] ELSE s.events[k]
      idle   == [s EXCEPT !.events = [j \in DOMAIN purged |->
                                        IF j = k THEN [purged[j] EXCEPT !.status = "Idle"] ELSE purged[j]],
                          !.deck[p].status = "Idle", !.deck[p].id = 0, !.deck[p].aborting = FALSE]
  IN  IF Restarts(next) THEN EngineData(idle, next.id) ELSE RunRmlRecordingCache(idle, p)
recordUnloadedData(s, p) ==
  LET k == GetEvent(s, s.deck[p].id) IN
  IF k = 0 THEN UnloadedUnknown(s, p) ELSE UnloadedKnown(s, p, k)

(* What DispatchCommand() of lib/rdcae.cpp signals: recordLoadedData(),          *)
(* recordingData(), recordStoppedData(), recordUnloadedData()                    *)
Answered(s, r) ==
  CASE r.cmd = "LR" -> [s EXCEPT !.deck[r.port].status = "Ready"]
    [] r.cmd = "RS" -> [s EXCEPT !.deck[r.port].status = "Recording"]
    [] r.cmd = "SR" -> [s EXCEPT !.cmds = <<Cmd("UR", r.port, 0)>>]
    [] r.cmd = "UR" -> recordUnloadedData(s, r.port)

(* SR of RDCatch, RR by RML: the operator ends a recording, or the wait for one. *)
(* Mutation: the port is unloaded at once.                                       *)
AbortCmdsUnload(p) == <<Cmd("SR", p, 0), Cmd("UR", p, 0)>>
AbortCmds(p) == <<Cmd("SR", p, 0)>>
Abort(s, p) == [s EXCEPT !.deck[p].aborting = TRUE, !.cmds = AbortCmds(p)]

--------------------------------------------------------------------------------
(* caed's side.                                                                  *)

(* No step of caed about a port writes more than one reply.                      *)
Heard == sent' # <<>> /\ Head(sent').to = Self /\ Head(sent').cmd \in {"LR", "UR", "RS", "SR"}
Echo(r) == Cmd(r.cmd, r.arg, IF r.cmd = "UR" THEN tape[r.arg] ELSE 0)
Replied == to_catch' = IF ~running THEN <<>>
                       ELSE IF Heard THEN Append(to_catch, Echo(Head(sent'))) ELSE to_catch

(* DispatchCommand() of cae.cpp on the oldest command of rdcatchd.  UR of a port *)
(* that is not loaded ends caed: alsaUnloadRecord() follows null pointers.       *)
Serve ==
  /\ ~wild /\ to_caed # <<>>
  /\ LET m == Head(to_caed)
         p == m.port
     IN  \/ /\ \/ m.cmd = "PW" /\ Password(Self, TRUE) /\ UNCHANGED tape
               \/ m.cmd = "LR" /\ LoadRecord(Self, p) /\ tape' = [tape EXCEPT ![p] = m.cut]
               \/ m.cmd = "RD" /\ (\E timed \in Timed : Record(Self, p, timed, FALSE)) /\ UNCHANGED tape
               \/ m.cmd = "SR" /\ (StopRecord(Self, p) \/ PortCommandFails(Self, "SR", p)) /\ UNCHANGED tape
            /\ Replied /\ UNCHANGED wild
         \/ /\ m.cmd = "UR" /\ UNCHANGED tape
            /\ wild' = (record_owner[p] = None)
            /\ IF wild' THEN UNCHANGED <<caedVars, to_catch>> ELSE UnloadRecord(Self, p) /\ Replied
  /\ to_caed' = Tail(to_caed)
  /\ UNCHANGED <<running, events, deck, leaked>>

(* The record timer of a port, and another client that stops it.                 *)
About(p, cmds, stream) == \E k \in DOMAIN stream : stream[k].port = p /\ stream[k].cmd \in cmds
Stopping(p) == About(p, {"SR", "UR"}, to_caed) \/ About(p, {"SR", "UR"}, to_catch)
recordTimer(p) ==
  /\ ~wild /\ ("messages" \in Overlap \/ ~Stopping(p))
  /\ alsaRecordTimerData(p) /\ Replied
  /\ UNCHANGED <<running, events, deck, leaked, tape, wild, to_caed>>
OtherStops(p) ==
  /\ ~wild /\ StopRecord(Other, p) /\ Replied
  /\ UNCHANGED <<running, events, deck, leaked, tape, wild, to_caed>>
OtherConnects ==
  /\ ~wild /\ (newConnection(Other) \/ (~auth[Other] /\ Password(Other, TRUE)))
  /\ UNCHANGED <<running, events, deck, leaked, tape, wild, to_caed, to_catch>>

--------------------------------------------------------------------------------
(* rdcatchd starts, ends, and is gone for caed.                                  *)

startDaemon ==
  /\ ~running /\ newConnection(Self)
  /\ running' = TRUE
  /\ events' = Schedule /\ deck' = [p \in Ports |-> IdleDeck] /\ leaked' = {}
  /\ to_caed' = <<Cmd("PW", None, 0)>>
  /\ UNCHANGED <<tape, wild, to_catch>>

Exit ==
  /\ ~wild /\ running /\ Crashes
  /\ running' = FALSE
  /\ events' = <<>> /\ deck' = [p \in Ports |-> IdleDeck] /\ leaked' = {}
  /\ to_catch' = <<>>
  /\ UNCHANGED <<caedVars, tape, wild, to_caed>>

connectionClosed ==
  /\ ~running /\ KillSocket(Self)
  /\ to_caed' = <<>>
  /\ UNCHANGED <<running, events, deck, leaked, tape, wild, to_catch>>

--------------------------------------------------------------------------------
(* Handlers of rdcatchd.  Nothing in the code keeps two uses of a deck apart.    *)
(* Overlap says which may meet: a new use with messages about the deck that are  *)
(* still under way, an event with the window of another on its deck, an edit     *)
(* with an event that waits, and a recording asked for by RML with a window or   *)
(* with another such recording.                                                  *)

Loop == running /\ ~wild
Input == Loop /\ Len(to_caed) + Len(to_catch) <= MaxQueue
Local(s) == Become(s) /\ UNCHANGED <<caedVars, running, tape, to_catch>>
All == {"LR", "RD", "RS", "SR", "UR"}
Quiet(p) == ~About(p, All, to_caed) /\ ~About(p, All, to_catch)
Settled(p) == "messages" \in Overlap \/ Quiet(p)
Unclaimed(p) ==
  /\ \A k \in DOMAIN events : events[k].deck = p => ~events[k].window /\ ~events[k].delay
  /\ \A n \in DOMAIN Schedule : Schedule[n].deck = p => Schedule[n].id \notin leaked

(* RDCae::readyData() hands over the oldest reply.                               *)
readyData ==
  /\ Loop /\ to_catch # <<>>
  /\ Become(Answered(Daemon, Head(to_catch)))
  /\ to_catch' = Tail(to_catch)
  /\ UNCHANGED <<caedVars, running, leaked, tape>>

(* The time engine, at the start time of an event                                *)
engineData(k) ==
  /\ Input /\ ~IsDynamic(events[k])
  /\ Settled(events[k].deck)
  /\ \/ "windows" \in Overlap
     \/ Unclaimed(events[k].deck) /\ (events[k].start = "gpi" => deck[events[k].deck].status = "Idle")
  /\ Local(EngineData(Daemon, events[k].id))
  /\ UNCHANGED leaked

(* gpiStateChangedData().  Every event has GPI lines of its own.                 *)
gpiStart(k) ==
  /\ Input /\ events[k].window
  /\ Local(IF events[k].offset
           THEN [Daemon EXCEPT !.events[k].delay = TRUE, !.events[k].window = FALSE]
           ELSE Started(Daemon, k))
  /\ UNCHANGED leaked
gpiEnd(k) ==
  /\ Input /\ events[k].gpiEnd
  /\ Settled(events[k].deck)
  /\ Local([Daemon EXCEPT !.cmds = <<Cmd("SR", events[k].deck, 0)>>])
  /\ UNCHANGED leaked

startTimerData(k) ==
  /\ Loop /\ events[k].window
  /\ Local([CloseWindow(Daemon, events[k].id) EXCEPT !.events[k].window = FALSE])
  /\ UNCHANGED leaked
leakedTimer(id) ==
  /\ Loop /\ id \in leaked
  /\ Local(CloseWindow(Daemon, id))
  /\ leaked' = leaked \ {id}
offsetTimerData(k) ==
  /\ Input /\ events[k].delay
  /\ Local([Started(Daemon, k) EXCEPT !.events[k].delay = FALSE])
  /\ UNCHANGED leaked

abort(p) ==
  /\ Input /\ deck[p].status = "Recording"
  /\ Settled(p)
  /\ Local(Abort(Daemon, p))
  /\ UNCHANGED leaked
cancel(p) ==
  /\ Loop /\ deck[p].status = "Waiting" /\ Settled(p)
  /\ Local(CloseWindow(Daemon, deck[p].id))
  /\ UNCHANGED leaked

(* RS: at once on an idle deck, later on one whose recording is being aborted    *)
OneRml(p) == \/ "rml" \in Overlap
             \/ /\ \A k \in DOMAIN events : IsDynamic(events[k]) => events[k].deck = p
                /\ \A q \in Ports : deck[q].pending => q = p
RmlRecord(p) ==
  /\ Input /\ OneRml(p)
  /\ \/ /\ deck[p].status = "Idle"
        /\ Settled(p) /\ ("rml" \in Overlap \/ Unclaimed(p))
        /\ Local(StartRmlRecording(Daemon, p))
     \/ /\ deck[p].status # "Idle" /\ deck[p].aborting /\ ~deck[p].pending
        /\ Local([Daemon EXCEPT !.deck[p].pending = TRUE])
  /\ UNCHANGED leaked

(* RemoveEvent() and UpdateEvent(), when RDCatch has edited an event.  The       *)
(* timers of the entry that goes live on.                                        *)
(* Mutation: the entry stays.                                                    *)
WithoutNothing(id) == events
Without(id) == LET k == GetEvent(Daemon, id) IN IF k = 0 THEN events ELSE RemoveAt(events, k)
Leaks(id) == {events[k].id : k \in {j \in DOMAIN events : events[j].id = id /\ events[j].window}}
Waits(n) == Leaks(Schedule[n].id) # {} \/ Schedule[n].id \in leaked
            \/ deck[Schedule[n].deck].status = "Waiting"
Editable(n) ==
  \/ "edits" \in Overlap
  \/ \A k \in DOMAIN events : ~IsDynamic(events[k]) /\ (events[k].id = Schedule[n].id => ~events[k].delay)
RemoveEvent(n) ==
  LET id == Schedule[n].id IN
  /\ Loop /\ Editable(n) /\ ("edits" \in Overlap \/ ~Waits(n))
  /\ Local([Daemon EXCEPT !.events = Without(id)])
  /\ leaked' = leaked \cup Leaks(id)
UpdateEvent(n) ==
  LET id == Schedule[n].id IN
  /\ Loop /\ Editable(n)
  /\ Local([Daemon EXCEPT !.events = Append(Without(id), Schedule[n])])
  /\ leaked' = leaked \cup Leaks(id)

(* LoadDeckList(), on RD of RDCatch: every deck that does not record is idle.    *)
LoadDeckList ==
  /\ Loop /\ \A p \in Ports : deck[p].status # "Waiting" \/ "edits" \in Overlap
  /\ Local([Daemon EXCEPT !.deck = [p \in Ports |->
              IF deck[p].status = "Recording" THEN deck[p] ELSE [deck[p] EXCEPT !.status = "Idle"]]])
  /\ UNCHANGED leaked

--------------------------------------------------------------------------------
CatchNext ==
  \/ startDaemon \/ Exit \/ connectionClosed \/ OtherConnects
  \/ Serve \/ readyData \/ LoadDeckList
  \/ \E p \in Ports : recordTimer(p) \/ OtherStops(p) \/ abort(p) \/ cancel(p) \/ RmlRecord(p)
  \/ \E k \in DOMAIN events : \/ engineData(k) \/ gpiStart(k) \/ gpiEnd(k)
                              \/ startTimerData(k) \/ offsetTimerData(k)
  \/ \E n \in DOMAIN Schedule : RemoveEvent(n) \/ UpdateEvent(n)
  \/ \E id \in leaked : leakedTimer(id)

CatchSpec == CatchInit /\ [][CatchNext]_catchVars

(* TCP delivers, neither event loop starves a message, and a record timer fires  *)
(* whatever else happens.                                                        *)
FairCatchSpec == /\ CatchSpec /\ WF_catchVars(Serve) /\ WF_catchVars(readyData)
                 /\ WF_catchVars(connectionClosed)
                 /\ \A p \in Ports : SF_catchVars(recordTimer(p))
--------------------------------------------------------------------------------
(* Neither daemon is made to use an index or a pointer that is not valid: no     *)
(* window closes for an event that is gone, and caed gets no UR for a port that  *)
(* is not loaded, although a stop is reported by the command that asks for it,   *)
(* by the record timer, which outlives the recording, or to another client.      *)
NoWildAccess == ~wild

(* What is recorded is checked in where it belongs: from the moment caed has the *)
(* port loaded until rdcatchd has handled the unload, the deck names the event   *)
(* whose cut is on the port.                                                     *)
RecordingsCredited ==
  running => \A p \in Ports :
    /\ record_owner[p] = Self /\ deck[p].status \in {"Ready", "Recording"} => deck[p].id = tape[p]
    /\ \A k \in DOMAIN to_catch : to_catch[k].cmd = "UR" /\ to_catch[k].port = p
                                   => deck[p].id = to_catch[k].cut

(* When nothing about a deck is under way, rdcatchd and caed agree: the deck is  *)
(* Recording exactly while rdcatchd owns the port, with something left that will *)
(* end it, and an event is shown as recording or waiting only on its own deck.   *)
DecksAgree ==
  running => \A p \in Ports : Quiet(p) =>
    /\ deck[p].status = "Recording" <=> record_owner[p] = Self
    /\ deck[p].status = "Recording" => recording[p] \/ record_timer[p] # "off"
    /\ deck[p].status # "Ready"
    /\ \A k \in DOMAIN events : events[k].deck = p /\ events[k].status # "Idle" =>
         deck[p].status = events[k].status /\ deck[p].id = events[k].id

(* A deck that has been loaded comes back, even if another client has stopped    *)
(* its port, of which rdcatchd is not told.                                      *)
DeckComesBack == \A p \in Ports : deck[p].status \in {"Ready", "Recording"} ~>
                                 deck[p].status \in {"Idle", "Waiting"}

(* A recording asked for while the one before is being aborted is started        *)
(* ("to permit back-to-back execution of 'RR' and 'RS' RMLs": ChangeLog), unless *)
(* that one opens its window again.                                              *)
Restarting(p) == \E k \in DOMAIN events : events[k].id = deck[p].id /\ Restarts(events[k])
PendingRuns ==
  \A p \in Ports : (deck[p].pending /\ deck[p].status = "Recording" /\ ~Restarting(p)) ~>
                  (~deck[p].pending \/ Restarting(p))
================================================================================
