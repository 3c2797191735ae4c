------------------------------- MODULE SoundPanel ------------------------------
(* Sound panels playing through caed: the buttons of lib/rdsound_panel.cpp, the  *)
(* deck each active button owns (lib/rdplay_deck.cpp), the client library both   *)
(* talk through (lib/rdcae.cpp), a TCP stream in each direction, and the server, *)
(* module Caed, whose handlers the commands in the streams drive.                *)
(*                                                                               *)
(* A client is named after the connection slot caed gave it.  Volumes, ports,    *)
(* segue and hook points, colours and logging are left out, and so are the       *)
(* replies that only move them (PP, UP, PY) or that RDCae ignores.               *)
EXTENDS Caed

CONSTANTS NButtons,    \* buttons of a panel
          Macros,      \* buttons are driven by RML (PP, PU) too, not by clicks only
          MaxQueue     \* bound: the user rests while more messages than this are under way

ASSUME PanelAssumption == NButtons \in Nat /\ Macros \in BOOLEAN /\ MaxQueue \in Nat

Buttons == Conns \X (1..NButtons)
Client(b) == b[1]
NoButton == <<None, None>>

VARIABLES
  alive,       \* the clients that run
  deck,        \* the deck of a button
  loading,     \* the button whose setCart() waits inside RDCae::loadPlay()
  delayed,     \* delayed_cmds: replies read while waiting for that of LP
  draining,    \* the clients in the loop of readyData() over those
  to_caed,     \* commands on their way to caed
  to_client    \* replies on their way to a client

caedVars == vars
clientVars == <<alive, deck, loading, delayed, draining>>
panelVars == <<caedVars, clientVars, to_caed, to_client>>

DeckStates == {"none", "Stopped", "Playing", "Paused", "Stopping"}
Decks == [state : DeckStates, handle : Handles \cup {None}, stop_called : BOOLEAN,
          pause_called : BOOLEAN, stop_timer : BOOLEAN]
NoDeck == [state |-> "none", handle |-> None, stop_called |-> FALSE,
           pause_called |-> FALSE, stop_timer |-> FALSE]
NewDeck == [NoDeck EXCEPT !.state = "Stopped"]

Cmd(cmd, arg) == [cmd |-> cmd, arg |-> arg]

PanelTypeOK ==
  /\ alive \in SUBSET Conns
  /\ deck \in [Buttons -> Decks]
  /\ loading \in [Conns -> Buttons \cup {NoButton}]
  /\ delayed \in [Conns -> Seq(Replies)]
  /\ draining \in SUBSET Conns
  /\ to_caed \in [Conns -> Seq([cmd : Commands, arg : Int])]
  /\ to_client \in [Conns -> Seq(Replies)]

PanelInit ==
  /\ Init
  /\ alive = {}
  /\ deck = [b \in Buttons |-> NoDeck]
  /\ loading = [ch \in Conns |-> NoButton]
  /\ delayed = [ch \in Conns |-> <<>>]
  /\ draining = {}
  /\ to_caed = [ch \in Conns |-> <<>>]
  /\ to_client = [ch \in Conns |-> <<>>]

--------------------------------------------------------------------------------
(* caed's side.  What a handler sends to a client joins the stream towards it;   *)
(* it is one reply, or the same one twice.                                       *)

Heard(ch) == IF \E k \in DOMAIN sent' : sent'[k].to = ch /\ sent'[k].cmd \in {"LP", "SP"}
             THEN sent' ELSE <<>>
Replied == to_client' = [ch \in Conns |-> IF ch \in alive THEN to_client[ch] \o Heard(ch)
                                                           ELSE <<>>]

(* DispatchCommand() of cae.cpp on the oldest command of a client                *)
Serve(ch) ==
  /\ to_caed[ch] # <<>>
  /\ LET cmd == Head(to_caed[ch]).cmd
         arg == Head(to_caed[ch]).arg
     IN  \/ cmd = "PW" /\ Password(ch, TRUE)
         \/ cmd = "LP" /\ (LoadPlayback(ch, arg) \/ LoadPlaybackFails(ch, arg))
         \/ cmd \in {"UP", "PP", "PY", "SP"} /\ HandleCommandFails(ch, cmd, arg)
         \/ /\ arg \in Handles
            /\ \/ cmd = "UP" /\ UnloadPlayback(ch, arg)
               \/ cmd = "PP" /\ \E pos \in Positions : PlaybackPosition(ch, arg, pos)
               \/ cmd = "PY" /\ \E timed \in Timed : Play(ch, arg, timed)
               \/ cmd = "PY" /\ PlayFails(ch, arg, FALSE)
               \/ cmd = "SP" /\ (StopPlayback(ch, arg) \/ StopPlaybackFails(ch, arg))
  /\ to_caed' = [to_caed EXCEPT ![ch] = Tail(@)]
  /\ Replied
  /\ UNCHANGED clientVars

(* The timers and threads of caed, of which only the replies reach the clients   *)
Alone(A) == A /\ Replied /\ UNCHANGED <<clientVars, to_caed>>
CaedRuns ==
  \/ \E i \in Ifs : Alone(alsaStopTimerData(i)) \/ Alone(AlsaPlayCallback(i))
  \/ Alone(updateMeters)
  \/ Alone(AlsaClock)

--------------------------------------------------------------------------------
(* A client comes and goes.                                                      *)

(* RDCae::connectHost()                                                          *)
connectHost(ch) ==
  /\ ch \notin alive
  /\ newConnection(ch)
  /\ alive' = alive \cup {ch}
  /\ to_caed' = [to_caed EXCEPT ![ch] = <<Cmd("PW", None)>>]
  /\ UNCHANGED <<deck, loading, delayed, draining, to_client>>

(* The process ends, at any point; what it had written may still arrive.         *)
Exit(ch) ==
  /\ ch \in alive
  /\ alive' = alive \ {ch}
  /\ deck' = [b \in Buttons |-> IF Client(b) = ch THEN NoDeck ELSE deck[b]]
  /\ loading' = [loading EXCEPT ![ch] = NoButton]
  /\ delayed' = [delayed EXCEPT ![ch] = <<>>]
  /\ draining' = draining \ {ch}
  /\ to_client' = [to_client EXCEPT ![ch] = <<>>]
  /\ UNCHANGED <<caedVars, to_caed>>

(* caed notices; commands it has not read by then are lost                       *)
connectionClosed(ch) ==
  /\ ch \notin alive
  /\ KillSocket(ch)
  /\ to_caed' = [to_caed EXCEPT ![ch] = <<>>]
  /\ UNCHANGED <<clientVars, to_client>>

--------------------------------------------------------------------------------
(* Methods of a deck: the deck afterwards, and the commands it sends.            *)

Send(ch, cmds) == to_caed' = [to_caed EXCEPT ![ch] = @ \o cmds]

(* RDPlayDeck::play().  Nothing happens without a handle.                        *)
Played(d) == IF d.handle = None THEN d
             ELSE [d EXCEPT !.state = "Playing", !.stop_called = FALSE, !.pause_called = FALSE]
PlayCmds(d) == IF d.handle = None THEN <<>> ELSE <<Cmd("PP", d.handle), Cmd("PY", d.handle)>>

(* RDPlayDeck::stop(), for a deck that plays or is stopping                      *)
StoppedBy(d) == IF d.pause_called THEN [d EXCEPT !.state = "Stopped"]
                ELSE [d EXCEPT !.state = "Stopping", !.stop_called = TRUE]
(* Mutation: nothing is sent once a fade has marked the deck stop_called.        *)
StopCmdsOnce(d) == IF d.pause_called \/ d.stop_called THEN <<>> ELSE <<Cmd("SP", d.handle)>>
StopCmds(d) == IF d.pause_called THEN <<>> ELSE <<Cmd("SP", d.handle)>>

(* RDPlayDeck::~RDPlayDeck()                                                     *)
DeleteCmds(d) == IF d.state = "Stopped" THEN <<>>
                 ELSE <<Cmd("SP", d.handle), Cmd("UP", d.handle)>>

--------------------------------------------------------------------------------
(* The user, by a click or by an RML, when the client's event loop is free.      *)

Idle(ch) == ch \in alive /\ loading[ch] = NoButton /\ ch \notin draining
UnderWay(ch) == Len(to_caed[ch]) + Len(to_client[ch]) + Len(delayed[ch])
User(b) == Idle(Client(b)) /\ UnderWay(Client(b)) <= MaxQueue

(* PlayButton() of an inactive button: PlayAudio() as far as the LP that         *)
(* setCart() sends.  A cart without a playable cut ends it before that.          *)
PlayAudio(b) ==
  /\ User(b) /\ deck[b].state = "none"
  /\ deck' = [deck EXCEPT ![b] = NewDeck]
  /\ loading' = [loading EXCEPT ![Client(b)] = b]
  /\ \E c \in Cards : Send(Client(b), <<Cmd("LP", c)>>)
  /\ UNCHANGED <<caedVars, alive, delayed, draining, to_client>>

(* loadPlay() returns with the answer to LP, a refusal included, and the rest of *)
(* PlayAudio() starts the deck.                                                  *)
PlayAudioLoaded(ch) ==
  /\ ch \in alive /\ loading[ch] # NoButton
  /\ to_client[ch] # <<>> /\ Head(to_client[ch]).cmd = "LP"
  /\ LET d == [deck[loading[ch]] EXCEPT !.handle = Head(to_client[ch]).arg]
     IN  /\ deck' = [deck EXCEPT ![loading[ch]] = Played(d)]
         /\ Send(ch, PlayCmds(d))
  /\ loading' = [loading EXCEPT ![ch] = NoButton]
  /\ to_client' = [to_client EXCEPT ![ch] = Tail(@)]
  /\ UNCHANGED <<caedVars, alive, delayed, draining>>

(* While loadPlay() waits, any other reply is put aside.                         *)
Defer(ch) ==
  /\ ch \in alive /\ loading[ch] # NoButton
  /\ to_client[ch] # <<>> /\ Head(to_client[ch]).cmd # "LP"
  /\ delayed' = [delayed EXCEPT ![ch] = Append(@, Head(to_client[ch]))]
  /\ to_client' = [to_client EXCEPT ![ch] = Tail(@)]
  /\ UNCHANGED <<caedVars, alive, deck, loading, draining, to_caed>>

(* PlayButton() of an active one.  A click plays a button that shows Paused and  *)
(* pauses any other; the RMLs PP and PU do not look.                             *)
PlayButton(b) ==
  /\ User(b) /\ deck[b].state \in (IF Macros THEN DeckStates \ {"none"} ELSE {"Paused"})
  /\ deck' = [deck EXCEPT ![b] = Played(@)]
  /\ Send(Client(b), PlayCmds(deck[b]))
  /\ UNCHANGED <<caedVars, alive, loading, delayed, draining, to_client>>

PauseButton(b) ==
  /\ User(b) /\ deck[b].state \in DeckStates \ (IF Macros THEN {"none"} ELSE {"none", "Paused"})
  /\ deck' = [deck EXCEPT ![b].pause_called = TRUE, ![b].state = "Paused"]
  /\ Send(Client(b), <<Cmd("SP", deck[b].handle)>>)
  /\ UNCHANGED <<caedVars, alive, loading, delayed, draining, to_client>>

(* StopButton(): a deck that plays is stopped, at once or after a fade; another  *)
(* is cleared, which ends at once a deck that is not playing, and with it the    *)
(* playout of one that is paused.  channelStop() and hookEndData() do the same.  *)
StopButton(b, fade) ==
  LET d == deck[b]
      ch == Client(b)
  IN  /\ User(b) /\ d.state # "none"
      /\ \/ /\ d.state = "Playing" /\ fade /\ ~d.pause_called
            /\ deck' = [deck EXCEPT ![b].state = "Stopping", ![b].stop_called = TRUE,
                                    ![b].stop_timer = TRUE]
            /\ UNCHANGED to_caed
         \/ /\ d.state = "Playing" /\ (~fade \/ d.pause_called)
            /\ deck' = [deck EXCEPT ![b] = StoppedBy(d)]
            /\ Send(ch, StopCmds(d))
         \/ /\ d.state = "Stopping"
            /\ deck' = [deck EXCEPT ![b] = [StoppedBy(d) EXCEPT !.stop_timer = FALSE]]
            /\ Send(ch, StopCmds(d))
         \/ /\ d.state = "Paused"
            /\ deck' = [deck EXCEPT ![b] = NoDeck]
            /\ Send(ch, <<Cmd("UP", d.handle)>> \o DeleteCmds(d))
         \/ /\ d.state = "Stopped"
            /\ deck' = [deck EXCEPT ![b] = NoDeck]
            /\ Send(ch, DeleteCmds(d))
      /\ UNCHANGED <<caedVars, alive, loading, delayed, draining, to_client>>

--------------------------------------------------------------------------------
(* The client's event loop.                                                      *)

(* play_stop_timer ends a fade: stop()                                           *)
StopTimer(b) ==
  LET d == [deck[b] EXCEPT !.stop_timer = FALSE]
      ch == Client(b)
  IN  /\ Idle(ch) /\ deck[b].stop_timer
      /\ \/ /\ d.state \in {"Playing", "Stopping"}
            /\ deck' = [deck EXCEPT ![b] = StoppedBy(d)]
            /\ Send(ch, StopCmds(d))
         \/ /\ d.state \notin {"Playing", "Stopping"}
            /\ deck' = [deck EXCEPT ![b] = d]
            /\ UNCHANGED to_caed
      /\ UNCHANGED <<caedVars, alive, loading, delayed, draining, to_client>>

(* RDPlayDeck::playStoppedData(): a pause asked for is a pause, any other stop   *)
(* ends the playout, and the panel deletes the deck.                             *)
Stops(b, r) == Client(b) = r.to /\ deck[b].handle = r.arg /\ deck[b].state # "none"

(* Mutation: the handle is not reset.                                            *)
AfterStopKeepsHandle(d) == IF d.pause_called THEN [d EXCEPT !.state = "Paused", !.stop_timer = FALSE]
                           ELSE [d EXCEPT !.state = "Stopped"]
(* Mutation: the state signalled to the panel becomes the state of the deck.     *)
AfterStopFinished(d) == IF d.pause_called THEN [d EXCEPT !.state = "Paused", !.stop_timer = FALSE]
                        ELSE [NoDeck EXCEPT !.state = "Finished"]
AfterStop(d) == IF d.pause_called THEN [d EXCEPT !.state = "Paused", !.stop_timer = FALSE]
                ELSE NoDeck

(* Mutation: only a cut that finished by itself is unloaded.                     *)
AfterStopCmdsIfFinished(d) ==
  IF d.pause_called \/ d.stop_called THEN <<>> ELSE <<Cmd("UP", d.handle)>>
AfterStopCmds(d) == IF d.pause_called THEN <<>> ELSE <<Cmd("UP", d.handle)>>

playStoppedData(b) ==
  /\ deck' = [deck EXCEPT ![b] = AfterStop(@)]
  /\ Send(Client(b), AfterStopCmds(deck[b]))

(* RDCae::DispatchCommand() on a stop.  No deck takes it if its own was cleared  *)
(* meanwhile.  (An LP reply would be answered with UP here, but LP is always     *)
(* waited for: StreamsReturned.)                                                 *)
DispatchCommand(r) ==
  \/ \E b \in Buttons : Stops(b, r) /\ playStoppedData(b)
  \/ (\A b \in Buttons : ~Stops(b, r)) /\ UNCHANGED <<deck, to_caed>>

(* RDCae::readyData(), every CAE_POLL_INTERVAL: the replies put aside, in one    *)
(* go, then those in the stream                                                  *)
Drain(ch) ==
  /\ ch \in alive /\ loading[ch] = NoButton /\ delayed[ch] # <<>>
  /\ DispatchCommand(Head(delayed[ch]))
  /\ delayed' = [delayed EXCEPT ![ch] = Tail(@)]
  /\ draining' = IF Tail(delayed[ch]) # <<>> THEN draining \cup {ch} ELSE draining \ {ch}
  /\ UNCHANGED <<caedVars, alive, loading, to_client>>

readyData(ch) ==
  /\ Idle(ch) /\ delayed[ch] = <<>> /\ to_client[ch] # <<>>
  /\ DispatchCommand(Head(to_client[ch]))
  /\ to_client' = [to_client EXCEPT ![ch] = Tail(@)]
  /\ UNCHANGED <<caedVars, alive, loading, delayed, draining>>

--------------------------------------------------------------------------------
ClientStep(ch) == PlayAudioLoaded(ch) \/ Defer(ch) \/ Drain(ch) \/ readyData(ch)

PanelNext ==
  \/ CaedRuns
  \/ \E ch \in Conns : \/ Serve(ch) \/ ClientStep(ch)
                       \/ connectHost(ch) \/ Exit(ch) \/ connectionClosed(ch)
  \/ \E b \in Buttons :
       \/ PlayAudio(b) \/ PlayButton(b) \/ PauseButton(b) \/ StopTimer(b)
       \/ \E fade \in BOOLEAN : StopButton(b, fade)

PanelSpec == PanelInit /\ [][PanelNext]_panelVars

(* On top of caed's own fairness: TCP delivers, and neither event loop starves   *)
(* an event it could handle, although another may come first.  Users owe nothing. *)
PanelFairness ==
  /\ \A i \in Ifs : /\ SF_panelVars(Alone(RtCheck(i)))
                    /\ WF_panelVars(Alone(RtRead(i))) /\ WF_panelVars(Alone(RtEof(i)))
  /\ WF_panelVars(Alone(updateMeters)) /\ WF_panelVars(Alone(AlsaClock))
  /\ \A ch \in Conns : SF_panelVars(Serve(ch)) /\ SF_panelVars(ClientStep(ch))
  /\ \A b \in Buttons : SF_panelVars(StopTimer(b))

PanelFairSpec == PanelSpec /\ PanelFairness

--------------------------------------------------------------------------------
HeldBy(ch) == {deck[b].handle : b \in {c \in Buttons : Client(c) = ch}} \ {None}
Announced(ch) == {to_client[ch][k].arg : k \in {j \in DOMAIN to_client[ch] :
                                                  to_client[ch][j].cmd = "LP"}} \ {None}
Returning(ch) == {to_caed[ch][k].arg : k \in {j \in DOMAIN to_caed[ch] :
                                                to_caed[ch][j].cmd = "UP"}}
LiveOf(ch) == {h \in Handles : Live(h) /\ play_handle[h].owner = ch}

(* No stream is lost to a running client: a handle caed holds for it is held by  *)
(* one of its decks, is in the answer its pending load waits for, or has its     *)
(* unload on the way.                                                            *)
StreamsReturned ==
  \A ch \in alive :
    /\ LiveOf(ch) \subseteq HeldBy(ch) \cup Announced(ch) \cup Returning(ch)
    /\ Announced(ch) # {} => loading[ch] # NoButton

(* No deck outlives its stream: the handle of a deck is live at caed and the     *)
(* client's, no other deck has it, and no unload of it is on the way.            *)
DecksHoldStreams ==
  \A ch \in alive :
    /\ HeldBy(ch) \subseteq LiveOf(ch) \ Returning(ch)
    /\ \A b, c \in Buttons :
         Client(b) = ch /\ Client(c) = ch /\ deck[b].handle = deck[c].handle =>
           b = c \/ deck[b].handle = None

(* When nothing is under way between a client and caed, both agree: a deck that  *)
(* shows Playing plays, one that shows Paused does not, and one that is Stopping *)
(* plays out its fade.                                                           *)
AtRest(ch) == /\ ch \in alive /\ loading[ch] = NoButton
              /\ to_caed[ch] = <<>> /\ to_client[ch] = <<>> /\ delayed[ch] = <<>>
PlaysAtCaed(d) == d.handle \in Handles /\ Live(d.handle) /\ playing[play_handle[d.handle].iface]
AgreeAtRest ==
  \A b \in Buttons : AtRest(Client(b)) =>
    /\ deck[b].state = "Playing" => PlaysAtCaed(deck[b])
    /\ deck[b].state = "Stopping" => PlaysAtCaed(deck[b]) /\ deck[b].stop_timer
    /\ deck[b].state \in {"Paused", "Stopped"} => ~PlaysAtCaed(deck[b])

(* A button does not stay lit: unless the user keeps restarting it, a deck that  *)
(* plays or is stopping reaches the end of its cut or its fade, and the panel    *)
(* learns of it.                                                                 *)
ButtonsSettle ==
  <>[][~\E b \in Buttons : PlayButton(b)]_panelVars =>
    \A b \in Buttons : deck[b].state \in {"Playing", "Stopping"} ~>
                        deck[b].state \notin {"Playing", "Stopping"}

(* The wait of loadPlay(), in which the whole client stands still, ends: caed    *)
(* answers every LP, refused or not, and the answer is never put aside.          *)
LoadsAnswered == \A ch \in Conns : loading[ch] # NoButton ~> loading[ch] = NoButton
================================================================================
