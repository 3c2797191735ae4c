---------------------------------- MODULE Caed ----------------------------------
(* The core audio engine daemon: the command handlers of cae/cae.cpp over the    *)
(* ALSA driver of cae/cae_alsa.cpp.  The main thread runs one handler at a time  *)
(* (a client command, a Qt timer, the metering tick); the play thread of a card  *)
(* runs beside it and shares the playing/eof/stopping flags and the ring buffers *)
(* with it, without a lock.                                                      *)
(*                                                                               *)
(* A (card, stream) pair is one "interface", numbered card * NStreams + stream   *)
(* as the driver's own timers number it.  Audio is counted in chunks: a file     *)
(* holds FileLen of them and a ring buffer at most RingCap.                      *)
EXTENDS Integers, Sequences, FiniteSets

CONSTANTS NConns,      \* CAE_MAX_CONNECTIONS: slots of the socket table
          NCards,      \* RD_MAX_CARDS
          NStreams,    \* RD_MAX_STREAMS: play streams of a card
          NPorts,      \* capture ports, all cards together
          NHandles,    \* size of the play handle table (256)
          FileLen,     \* chunks of audio in a file
          RingCap,     \* chunks a ring buffer holds
          Positions,   \* positions, in chunks, that clients ask for with PP
          Timed        \* which lengths clients give PY and RD: TRUE, more than 0; FALSE, 0

ASSUME SizesAssumption ==
  /\ NConns \in Nat /\ NCards \in Nat /\ NStreams \in Nat /\ NPorts \in Nat
  /\ NHandles \in Nat /\ FileLen \in Nat /\ RingCap \in Nat \ {0}
  /\ Positions \subseteq Nat /\ Timed \subseteq BOOLEAN

(* 8 cards of 16 streams, 256 handles: there are more handles than interfaces.   *)
ASSUME HandlesAssumption == NHandles > NCards * NStreams

Conns   == 0..(NConns - 1)
Cards   == 0..(NCards - 1)
Ifs     == 0..(NCards * NStreams - 1)
Ports   == 0..(NPorts - 1)
Handles == 0..(NHandles - 1)
None    == -1
CardOf(i) == i \div NStreams

VARIABLES
  socket,            \* set of open connection slots (socket[ch] != NULL)
  auth,              \* auth[ch]
  play_handle,       \* handle table: interface and owning connection of a handle
  next_play_handle,
  play_owner,        \* play_owner[card][stream]
  ring,              \* alsa_play_ring: chunks buffered, None when not allocated
  file_pos,          \* read position in alsa_play_wave
  playing, stopping, eof,   \* alsa_playing, alsa_stopping, alsa_eof
  stop_timer,        \* alsa_stop_timer
  record_owner,      \* record_owner[card][port]
  ready, recording,  \* alsa_ready, alsa_recording
  record_timer,      \* alsa_record_timer
  rt,                \* the play thread of a card: [pc, iface]
  tick,              \* next interface AlsaClock visits, None between two ticks
  sent               \* replies the last step wrote: a sequence of [to, cmd, arg, ok]

connVars   == <<socket, auth>>
tableVars  == <<play_handle, next_play_handle, play_owner>>
streamVars == <<ring, file_pos, playing, stopping, eof, stop_timer>>
recVars    == <<record_owner, ready, recording, record_timer>>
vars == <<connVars, tableVars, streamVars, recVars, rt, tick, sent>>

Entries == [iface : Ifs \cup {None}, owner : Conns \cup {None}]
FreeEntry == [iface |-> None, owner |-> None]

(* A timer is off, armed for the playout (recording) now on its interface, or    *)
(* "stale": still running although the one that armed it has ended.  The code    *)
(* cannot tell the last two apart; the distinction is there for the properties.  *)
Timers == {"off", "armed", "stale"}
Outlive(t) == IF t = "off" THEN "off" ELSE "stale"

(* Replies.  The client library acts on a "-" echo of PW and LP only, so the     *)
(* other refusals are not told apart ("NO").                                     *)
Commands == {"PW", "LP", "UP", "PP", "PY", "SP", "LR", "UR", "RS", "SR", "NO"}
Replies == [to : Conns, cmd : Commands, arg : Int, ok : BOOLEAN]
Reply(ch, cmd, arg, ok) == [to |-> ch, cmd |-> cmd, arg |-> arg, ok |-> ok]
Refusal(ch) == Reply(ch, "NO", None, FALSE)

TypeOK ==
  /\ socket \in SUBSET Conns
  /\ auth \in [Conns -> BOOLEAN]
  /\ play_handle \in [Handles -> Entries]
  /\ next_play_handle \in Handles
  /\ play_owner \in [Ifs -> Conns \cup {None}]
  /\ ring \in [Ifs -> 0..RingCap \cup {None}]
  /\ file_pos \in [Ifs -> 0..FileLen]
  /\ playing \in [Ifs -> BOOLEAN]
  /\ stopping \in [Ifs -> BOOLEAN]
  /\ eof \in [Ifs -> BOOLEAN]
  /\ stop_timer \in [Ifs -> Timers]
  /\ record_owner \in [Ports -> Conns \cup {None}]
  /\ ready \in [Ports -> BOOLEAN]
  /\ recording \in [Ports -> BOOLEAN]
  /\ record_timer \in [Ports -> Timers]
  /\ rt \in [Cards -> [pc : {"scan", "read", "eof"}, iface : Ifs \cup {None}]]
  /\ tick \in Ifs \cup {None}
  /\ sent \in Seq(Replies)

Init ==
  /\ socket = {}
  /\ auth = [ch \in Conns |-> FALSE]
  /\ play_handle = [h \in Handles |-> FreeEntry]
  /\ next_play_handle = 0
  /\ play_owner = [i \in Ifs |-> None]
  /\ ring = [i \in Ifs |-> None]
  /\ file_pos = [i \in Ifs |-> 0]
  /\ playing = [i \in Ifs |-> FALSE]
  /\ stopping = [i \in Ifs |-> FALSE]
  /\ eof = [i \in Ifs |-> FALSE]
  /\ stop_timer = [i \in Ifs |-> "off"]
  /\ record_owner = [p \in Ports |-> None]
  /\ ready = [p \in Ports |-> FALSE]
  /\ recording = [p \in Ports |-> FALSE]
  /\ record_timer = [p \in Ports |-> "off"]
  /\ rt = [c \in Cards |-> [pc |-> "scan", iface |-> None]]
  /\ tick = None
  /\ sent = <<>>

--------------------------------------------------------------------------------
(* The handle table.                                                             *)

Live(h) == play_handle[h].iface # None

(* GetNextHandle(): the first free entry at or after next_play_handle, cyclically. *)
(* The code loops until it finds one: without a free entry LP never returns.     *)
Distance(h) == (h - next_play_handle) % NHandles
IsNextHandle(h, table) ==
  /\ table[h].iface = None
  /\ \A g \in Handles : table[g].iface = None => Distance(h) <= Distance(g)

(* GetHandle(card,stream): the lowest entry that names the interface             *)
IsHandleOf(h, i) ==
  /\ play_handle[h].iface = i
  /\ \A g \in Handles : play_handle[g].iface = i => h <= g

HandleOf(i) == CHOOSE h \in Handles : IsHandleOf(h, i)

(* Mutation: the index does not wrap around.                                   *)
AfterHandleUnmasked(h) == h + 1
AfterHandle(h) == (h + 1) % NHandles

(* statePlayUpdate(): a state change goes to the owner of the interface, under   *)
(* the handle that names it; nothing is sent when no handle does.                *)
statePlayUpdate(i, cmd) ==
  IF (\E h \in Handles : IsHandleOf(h, i)) /\ play_owner[i] # None
    THEN <<Reply(play_owner[i], cmd, HandleOf(i), TRUE)>>
    ELSE <<>>

stateRecordUpdate(p, cmd) ==
  IF record_owner[p] # None THEN <<Reply(record_owner[p], cmd, p, TRUE)>> ELSE <<>>

(* GetAlsaOutputStream(): the lowest stream of the card without a ring buffer    *)
IsOutputStream(i, c) ==
  /\ CardOf(i) = c /\ ring[i] = None
  /\ \A j \in Ifs : CardOf(j) = c /\ ring[j] = None => i <= j

(* FillAlsaOutputStream(): read the file into the free part of the ring.  A read *)
(* that comes back short is the end of the file; it also stops the stop timer.   *)
(* Mutation: a read that comes back short is not the end of the file.          *)
ShortReadNever(level, pos) == FileLen - pos < 0
ShortRead(level, pos) == FileLen - pos < RingCap - level
FillCount(level, pos) == IF ShortRead(level, pos) THEN FileLen - pos ELSE RingCap - level
TimerAfterFill(timer, level, pos) == IF ShortRead(level, pos) THEN "off" ELSE timer
FillAlsaOutputStream(i, level, pos, atEof) ==
  /\ ring' = [ring EXCEPT ![i] = level + FillCount(level, pos)]
  /\ file_pos' = [file_pos EXCEPT ![i] = pos + FillCount(level, pos)]
  /\ eof' = [eof EXCEPT ![i] = atEof \/ ShortRead(level, pos)]

--------------------------------------------------------------------------------
(* Connections.  MainThread: no metering tick is half way through.               *)

MainThread == tick = None
Command(ch) == MainThread /\ ch \in socket
Privileged(ch) == Command(ch) /\ auth[ch]

newConnection(ch) ==
  /\ MainThread /\ ch \notin socket
  /\ \A d \in Conns : d < ch => d \in socket
  /\ socket' = socket \cup {ch}
  /\ sent' = <<>>
  /\ UNCHANGED <<auth, tableVars, streamVars, recVars, rt, tick>>

Password(ch, ok) ==
  /\ Command(ch)
  /\ auth' = [auth EXCEPT ![ch] = ok]
  /\ sent' = <<Reply(ch, "PW", None, ok)>>
  /\ UNCHANGED <<socket, tableVars, streamVars, recVars, rt, tick>>

Unauthorized(ch) ==
  /\ Command(ch) /\ ~auth[ch]
  /\ sent' = <<Refusal(ch)>>
  /\ UNCHANGED <<connVars, tableVars, streamVars, recVars, rt, tick>>

(* Mutation: what the connection owns is left loaded.                          *)
KillSocketKeepsOwned(ch) ==
  /\ Command(ch)
  /\ socket' = socket \ {ch}
  /\ auth' = [auth EXCEPT ![ch] = FALSE]
  /\ sent' = <<>>
  /\ UNCHANGED <<tableVars, streamVars, recVars, rt, tick>>

(* KillSocket(), on DC or when the peer goes away: everything the connection     *)
(* owns is unloaded.  The stop and record timers are not touched.                *)
KillSocket(ch) ==
  LET played == {i \in Ifs : play_owner[i] = ch}
      loaded == {i \in played : ring[i] # None}      \* alsaUnloadPlayback() succeeds
      recorded == {p \in Ports : record_owner[p] = ch}
  IN  /\ Command(ch)
      /\ socket' = socket \ {ch}
      /\ auth' = [auth EXCEPT ![ch] = FALSE]
      /\ record_owner' = [p \in Ports |-> IF p \in recorded THEN None ELSE record_owner[p]]
      /\ ready' = [p \in Ports |-> ready[p] /\ p \notin recorded]
      /\ recording' = [p \in Ports |-> recording[p] /\ p \notin recorded]
      /\ record_timer' = [p \in Ports |-> IF p \in recorded THEN Outlive(record_timer[p])
                                                           ELSE record_timer[p]]
      /\ play_owner' = [i \in Ifs |-> IF i \in played THEN None ELSE play_owner[i]]
      /\ playing' = [i \in Ifs |-> playing[i] /\ i \notin loaded]
      /\ ring' = [i \in Ifs |-> IF i \in loaded THEN None ELSE ring[i]]
      /\ stop_timer' = [i \in Ifs |-> IF i \in loaded THEN Outlive(stop_timer[i])
                                                     ELSE stop_timer[i]]
      /\ play_handle' = [h \in Handles |-> IF play_handle[h].owner = ch
                                             THEN FreeEntry ELSE play_handle[h]]
      /\ sent' = <<>>
      /\ UNCHANGED <<next_play_handle, file_pos, stopping, eof, rt, tick>>

--------------------------------------------------------------------------------
(* Playback commands.                                                            *)

(* Mutation: the handle is allocated before the driver is asked.               *)
LoadPlaybackFailsKeepsHandle(ch, c) ==
  /\ Privileged(ch)
  /\ \E h \in Handles, i \in Ifs :
       /\ IsNextHandle(h, play_handle) /\ CardOf(i) = c
       /\ play_handle' = [play_handle EXCEPT ![h] = [iface |-> i, owner |-> ch]]
  /\ sent' = <<Reply(ch, "LP", None, FALSE)>>
  /\ UNCHANGED <<connVars, next_play_handle, play_owner, streamVars, recVars, rt, tick>>

(* Mutation: a refusal is not answered.                                          *)
LoadPlaybackFailsSilent(ch, c) ==
  /\ Privileged(ch)
  /\ sent' = <<>>
  /\ UNCHANGED <<connVars, tableVars, streamVars, recVars, rt, tick>>

(* LP fails when the card has no free stream or the file does not open (the      *)
(* stream it took is given back).                                                *)
LoadPlaybackFails(ch, c) ==
  /\ Privileged(ch)
  /\ sent' = <<Reply(ch, "LP", None, FALSE)>>
  /\ UNCHANGED <<connVars, tableVars, streamVars, recVars, rt, tick>>

(* alsaLoadPlayback() on the stream it took, and the rest of the LP handler: an  *)
(* entry that still names the interface is purged before a handle is allocated.  *)
Purged(i) == [g \in Handles |-> IF IsHandleOf(g, i) THEN FreeEntry ELSE play_handle[g]]
LoadOn(ch, i, h) ==
  /\ Privileged(ch)
  /\ IsNextHandle(h, Purged(i))
  /\ play_handle' = [Purged(i) EXCEPT ![h] = [iface |-> i, owner |-> ch]]
  /\ next_play_handle' = AfterHandle(h)
  /\ play_owner' = [play_owner EXCEPT ![i] = ch]
  /\ stopping' = [stopping EXCEPT ![i] = FALSE]
  /\ FillAlsaOutputStream(i, 0, 0, FALSE)
  /\ stop_timer' = [stop_timer EXCEPT ![i] = TimerAfterFill(@, 0, 0)]
  /\ sent' = <<Reply(ch, "LP", h, TRUE)>>
  /\ UNCHANGED <<connVars, playing, recVars, rt, tick>>

LoadPlayback(ch, c) ==
  \E i \in Ifs, h \in Handles : IsOutputStream(i, c) /\ LoadOn(ch, i, h)

(* UP, PP, PY and SP name a handle.  They fail on one that is not live, or whose *)
(* interface another connection owns.                                            *)
HandleCommandFails(ch, cmd, h) ==
  /\ Privileged(ch)
  /\ \/ h \notin Handles
     \/ h \in Handles /\ ~Live(h)
     \/ h \in Handles /\ Live(h) /\ play_owner[play_handle[h].iface] \notin
          (IF cmd = "UP" THEN {ch, None} ELSE {ch})
  /\ sent' = <<Refusal(ch)>>
  /\ UNCHANGED <<connVars, tableVars, streamVars, recVars, rt, tick>>

(* Mutation: the handle table is not cleared.                                  *)
UnloadPlaybackKeepsHandle(ch, h) ==
  LET i == play_handle[h].iface
      loaded == ring[i] # None
  IN  /\ Privileged(ch) /\ Live(h)
      /\ play_owner[i] \in {ch, None}
      /\ play_owner' = [play_owner EXCEPT ![i] = IF loaded THEN None ELSE @]
      /\ playing' = [playing EXCEPT ![i] = @ /\ ~loaded]
      /\ ring' = [ring EXCEPT ![i] = None]
      /\ stop_timer' = [stop_timer EXCEPT ![i] = IF loaded THEN Outlive(@) ELSE @]
      /\ sent' = IF loaded THEN <<Reply(ch, "UP", h, TRUE)>> ELSE <<Refusal(ch)>>
      /\ UNCHANGED <<connVars, play_handle, next_play_handle, file_pos, stopping, eof, recVars, rt, tick>>

(* Mutation: alsa_playing is not cleared.                                      *)
UnloadPlaybackKeepsPlaying(ch, h) ==
  LET i == play_handle[h].iface
      loaded == ring[i] # None
  IN  /\ Privileged(ch) /\ Live(h)
      /\ play_owner[i] \in {ch, None}
      /\ play_handle' = [play_handle EXCEPT ![h] = FreeEntry]
      /\ play_owner' = [play_owner EXCEPT ![i] = IF loaded THEN None ELSE @]
      /\ ring' = [ring EXCEPT ![i] = None]
      /\ stop_timer' = [stop_timer EXCEPT ![i] = IF loaded THEN Outlive(@) ELSE @]
      /\ sent' = IF loaded THEN <<Reply(ch, "UP", h, TRUE)>> ELSE <<Refusal(ch)>>
      /\ UNCHANGED <<connVars, next_play_handle, file_pos, playing, stopping, eof,
                     recVars, rt, tick>>

(* UP: the handle is freed even when the driver has nothing to unload.           *)
UnloadPlayback(ch, h) ==
  LET i == play_handle[h].iface
      loaded == ring[i] # None
  IN  /\ Privileged(ch) /\ Live(h)
      /\ play_owner[i] \in {ch, None}
      /\ play_handle' = [play_handle EXCEPT ![h] = FreeEntry]
      /\ play_owner' = [play_owner EXCEPT ![i] = IF loaded THEN None ELSE @]
      /\ playing' = [playing EXCEPT ![i] = @ /\ ~loaded]
      /\ ring' = [ring EXCEPT ![i] = None]
      /\ stop_timer' = [stop_timer EXCEPT ![i] = IF loaded THEN Outlive(@) ELSE @]
      /\ sent' = IF loaded THEN <<Reply(ch, "UP", h, TRUE)>> ELSE <<Refusal(ch)>>
      /\ UNCHANGED <<connVars, next_play_handle, file_pos, stopping, eof, recVars, rt, tick>>

(* PP: move the read position and refill the ring; a position past the end of    *)
(* the file fails.  On a playing stream the stop timer is rearmed.               *)
PlaybackPosition(ch, h, pos) ==
  LET i == play_handle[h].iface IN
  /\ Privileged(ch) /\ Live(h) /\ play_owner[i] = ch
  /\ pos <= FileLen
  /\ FillAlsaOutputStream(i, 0, pos, FALSE)
  /\ stop_timer' = [stop_timer EXCEPT ![i] = IF playing[i] THEN "armed"
                                             ELSE TimerAfterFill(@, 0, pos)]
  /\ sent' = <<Reply(ch, "PP", h, TRUE)>>
  /\ UNCHANGED <<connVars, tableVars, playing, stopping, recVars, rt, tick>>

PlaybackPositionFails(ch, h, pos) ==
  /\ Privileged(ch) /\ Live(h) /\ play_owner[play_handle[h].iface] = ch
  /\ pos > FileLen
  /\ sent' = <<Refusal(ch)>>
  /\ UNCHANGED <<connVars, tableVars, streamVars, recVars, rt, tick>>

(* PY with a length ("timed") arms the stop timer, without one leaves it alone.  *)
(* The PY reply is the one statePlayUpdate() sends.                              *)
Play(ch, h, timed) ==
  LET i == play_handle[h].iface IN
  /\ Privileged(ch) /\ Live(h) /\ play_owner[i] = ch
  /\ ring[i] # None /\ ~playing[i]
  /\ playing' = [playing EXCEPT ![i] = TRUE]
  /\ stop_timer' = [stop_timer EXCEPT ![i] = IF timed THEN "armed" ELSE @]
  /\ sent' = statePlayUpdate(i, "PY")
  /\ UNCHANGED <<connVars, tableVars, ring, file_pos, stopping, eof, recVars, rt, tick>>

(* PY fails on a stream that is already playing, and for a speed other than      *)
(* RD_TIMESCALE_DIVISOR (badSpeed).                                              *)
PlayFails(ch, h, badSpeed) ==
  LET i == play_handle[h].iface IN
  /\ Privileged(ch) /\ Live(h) /\ play_owner[i] = ch
  /\ ring[i] = None \/ playing[i] \/ badSpeed
  /\ sent' = <<Refusal(ch)>>
  /\ UNCHANGED <<connVars, tableVars, streamVars, recVars, rt, tick>>

(* alsaStopPlayback()                                                            *)
Stoppable(i) == ring[i] # None /\ playing[i]
alsaStopPlayback(i) ==
  /\ playing' = [playing EXCEPT ![i] = FALSE]
  /\ ring' = [ring EXCEPT ![i] = 0]
  /\ stop_timer' = [stop_timer EXCEPT ![i] = "off"]

(* Mutation: the owner is not tested.                                          *)
StopPlaybackOfAnyone(ch, h) ==
  LET i == play_handle[h].iface IN
  /\ Privileged(ch) /\ Live(h)
  /\ Stoppable(i) /\ alsaStopPlayback(i)
  /\ sent' = statePlayUpdate(i, "SP")
  /\ UNCHANGED <<connVars, tableVars, file_pos, stopping, eof, recVars, rt, tick>>

StopPlayback(ch, h) ==
  LET i == play_handle[h].iface IN
  /\ Privileged(ch) /\ Live(h) /\ play_owner[i] = ch
  /\ Stoppable(i) /\ alsaStopPlayback(i)
  /\ sent' = statePlayUpdate(i, "SP")
  /\ UNCHANGED <<connVars, tableVars, file_pos, stopping, eof, recVars, rt, tick>>

StopPlaybackFails(ch, h) ==
  LET i == play_handle[h].iface IN
  /\ Privileged(ch) /\ Live(h) /\ play_owner[i] = ch
  /\ ~Stoppable(i)
  /\ sent' = <<Refusal(ch)>>
  /\ UNCHANGED <<connVars, tableVars, streamVars, recVars, rt, tick>>

(* alsaStopTimerData(): stop the stream if it plays, and report the stop once    *)
(* more, whether it played or not.                                               *)
alsaStopTimerData(i) ==
  /\ MainThread /\ stop_timer[i] # "off"
  /\ \/ Stoppable(i) /\ alsaStopPlayback(i)
        /\ sent' = statePlayUpdate(i, "SP") \o statePlayUpdate(i, "SP")
     \/ ~Stoppable(i) /\ stop_timer' = [stop_timer EXCEPT ![i] = "off"]
        /\ UNCHANGED <<playing, ring>>
        /\ sent' = statePlayUpdate(i, "SP")
  /\ UNCHANGED <<connVars, tableVars, file_pos, stopping, eof, recVars, rt, tick>>

--------------------------------------------------------------------------------
(* The metering tick and the play thread.                                        *)

(* updateMeters() calls AlsaClock(), which visits the interfaces in turn while   *)
(* the play threads run.  A tick with nothing to do is a stuttering step.        *)
updateMeters ==
  /\ MainThread /\ \E i \in Ifs : stopping[i] \/ playing[i]
  /\ tick' = 0 /\ sent' = <<>>
  /\ UNCHANGED <<connVars, tableVars, streamVars, recVars, rt>>

AfterTick(i) == IF i + 1 \in Ifs THEN i + 1 ELSE None

(* Mutation: the stop is not reported.                                         *)
AlsaClockStopSilent ==
  /\ tick # None /\ stopping[tick]
  /\ stopping' = [stopping EXCEPT ![tick] = FALSE]
  /\ eof' = [eof EXCEPT ![tick] = FALSE]
  /\ playing' = [playing EXCEPT ![tick] = FALSE]
  /\ stop_timer' = [stop_timer EXCEPT ![tick] = Outlive(@)]
  /\ sent' = <<>>
  /\ tick' = AfterTick(tick)
  /\ UNCHANGED <<connVars, tableVars, ring, file_pos, recVars, rt>>

(* AlsaClock(), one interface: a stream the play thread found drained is stopped *)
(* and reported; one that plays on is refilled.                                  *)
AlsaClockStop ==
  /\ tick # None /\ stopping[tick]
  /\ stopping' = [stopping EXCEPT ![tick] = FALSE]
  /\ eof' = [eof EXCEPT ![tick] = FALSE]
  /\ playing' = [playing EXCEPT ![tick] = FALSE]
  /\ stop_timer' = [stop_timer EXCEPT ![tick] = Outlive(@)]
  /\ sent' = statePlayUpdate(tick, "SP")
  /\ tick' = AfterTick(tick)
  /\ UNCHANGED <<connVars, tableVars, ring, file_pos, recVars, rt>>

AlsaClockFill ==
  /\ tick # None /\ ~stopping[tick] /\ playing[tick]
  /\ FillAlsaOutputStream(tick, ring[tick], file_pos[tick], eof[tick])
  /\ stop_timer' = [stop_timer EXCEPT ![tick] = TimerAfterFill(@, ring[tick], file_pos[tick])]
  /\ tick' = AfterTick(tick) /\ sent' = <<>>
  /\ UNCHANGED <<connVars, tableVars, playing, stopping, recVars, rt>>

AlsaClockSkip ==
  /\ tick # None /\ ~stopping[tick] /\ ~playing[tick]
  /\ tick' = AfterTick(tick) /\ sent' = <<>>
  /\ UNCHANGED <<connVars, tableVars, streamVars, recVars, rt>>

AlsaClock == AlsaClockStop \/ AlsaClockFill \/ AlsaClockSkip

(* AlsaPlay2Callback(): for a stream that plays, read the ring, and when nothing *)
(* was read and the file is at its end ask for the stop.  The three accesses are *)
(* separate steps.  A ring freed since the first of them is read after its       *)
(* deletion, with any result.  This is the loop for cards opened in S16_LE.      *)
RtCheck(i) ==
  LET c == CardOf(i) IN
  /\ rt[c].pc = "scan" /\ playing[i]
  /\ rt' = [rt EXCEPT ![c] = [pc |-> "read", iface |-> i]]
  /\ sent' = <<>>
  /\ UNCHANGED <<connVars, tableVars, streamVars, recVars, tick>>

RtRead(i) ==
  LET c == CardOf(i) IN
  /\ rt[c] = [pc |-> "read", iface |-> i]
  /\ \/ ring[i] > 0 /\ ring' = [ring EXCEPT ![i] = @ - 1]
        /\ rt' = [rt EXCEPT ![c] = [pc |-> "scan", iface |-> None]]
     \/ ring[i] = 0 /\ UNCHANGED ring
        /\ rt' = [rt EXCEPT ![c] = [pc |-> "eof", iface |-> i]]
     \/ ring[i] = None /\ UNCHANGED ring
        /\ rt' \in {[rt EXCEPT ![c] = [pc |-> "scan", iface |-> None]],
                    [rt EXCEPT ![c] = [pc |-> "eof", iface |-> i]]}
  /\ sent' = <<>>
  /\ UNCHANGED <<connVars, tableVars, file_pos, playing, stopping, eof, stop_timer,
                 recVars, tick>>

RtEof(i) ==
  LET c == CardOf(i) IN
  /\ rt[c] = [pc |-> "eof", iface |-> i]
  /\ stopping' = [stopping EXCEPT ![i] = @ \/ eof[i]]
  /\ rt' = [rt EXCEPT ![c] = [pc |-> "scan", iface |-> None]]
  /\ sent' = <<>>
  /\ UNCHANGED <<connVars, tableVars, ring, file_pos, playing, eof, stop_timer, recVars, tick>>

AlsaPlayCallback(i) == RtCheck(i) \/ RtRead(i) \/ RtEof(i)

--------------------------------------------------------------------------------
(* Capture commands.                                                             *)

LoadRecord(ch, p) ==
  /\ Privileged(ch) /\ record_owner[p] = None
  /\ record_owner' = [record_owner EXCEPT ![p] = ch]
  /\ ready' = [ready EXCEPT ![p] = TRUE]
  /\ sent' = <<Reply(ch, "LR", p, TRUE)>>
  /\ UNCHANGED <<connVars, tableVars, streamVars, recording, record_timer, rt, tick>>

(* The port is taken, or the format is refused or the file cannot be created.    *)
LoadRecordFails(ch, p) ==
  /\ Privileged(ch)
  /\ sent' = <<Refusal(ch)>>
  /\ UNCHANGED <<connVars, tableVars, streamVars, recVars, rt, tick>>

(* Mutation: alsa_recording is not cleared.                                    *)
UnloadRecordKeepsRecording(ch, p) ==
  /\ Privileged(ch) /\ record_owner[p] \in {ch, None}
  /\ ready[p]
  /\ record_owner' = [record_owner EXCEPT ![p] = None]
  /\ ready' = [ready EXCEPT ![p] = FALSE]
  /\ record_timer' = [record_timer EXCEPT ![p] = Outlive(@)]
  /\ sent' = <<Reply(ch, "UR", p, TRUE)>>
  /\ UNCHANGED <<connVars, tableVars, streamVars, recording, rt, tick>>

(* UR is accepted for a port nobody owns too; the driver then follows null       *)
(* pointers, so the model asks of its clients that they unload loaded ports only. *)
UnloadRecord(ch, p) ==
  /\ Privileged(ch) /\ record_owner[p] \in {ch, None}
  /\ ready[p]
  /\ record_owner' = [record_owner EXCEPT ![p] = None]
  /\ ready' = [ready EXCEPT ![p] = FALSE]
  /\ recording' = [recording EXCEPT ![p] = FALSE]
  /\ record_timer' = [record_timer EXCEPT ![p] = Outlive(@)]
  /\ sent' = <<Reply(ch, "UR", p, TRUE)>>
  /\ UNCHANGED <<connVars, tableVars, streamVars, rt, tick>>

(* RD.  With a VOX level set for the port the driver neither arms the timer nor  *)
(* reports the start.                                                            *)
Record(ch, p, timed, vox) ==
  /\ Privileged(ch) /\ record_owner[p] = ch /\ ready[p]
  /\ recording' = [recording EXCEPT ![p] = TRUE]
  /\ record_timer' = [record_timer EXCEPT ![p] = IF timed /\ ~vox THEN "armed" ELSE @]
  /\ sent' = IF vox THEN <<>> ELSE stateRecordUpdate(p, "RS")
  /\ UNCHANGED <<connVars, tableVars, streamVars, record_owner, ready, rt, tick>>

(* Mutation: the record timer is stopped.                                      *)
StopRecordStopsTimer(ch, p) ==
  /\ Privileged(ch) /\ recording[p]
  /\ recording' = [recording EXCEPT ![p] = FALSE]
  /\ record_timer' = [record_timer EXCEPT ![p] = "off"]
  /\ sent' = <<Reply(ch, "SR", p, TRUE)>>
  /\ UNCHANGED <<connVars, tableVars, streamVars, record_owner, ready, rt, tick>>

(* SR does not ask who owns the port, and leaves the record timer running.       *)
StopRecord(ch, p) ==
  /\ Privileged(ch) /\ recording[p]
  /\ recording' = [recording EXCEPT ![p] = FALSE]
  /\ record_timer' = [record_timer EXCEPT ![p] = Outlive(@)]
  /\ sent' = <<Reply(ch, "SR", p, TRUE)>>
  /\ UNCHANGED <<connVars, tableVars, streamVars, record_owner, ready, rt, tick>>

PortCommandFails(ch, cmd, p) ==
  /\ Privileged(ch)
  /\ \/ cmd = "UR" /\ record_owner[p] \notin {ch, None}
     \/ cmd = "RD" /\ (record_owner[p] # ch \/ ~ready[p])
     \/ cmd = "SR" /\ ~recording[p]
  /\ sent' = <<Refusal(ch)>>
  /\ UNCHANGED <<connVars, tableVars, streamVars, recVars, rt, tick>>

(* alsaRecordTimerData(): the stop is reported even if nothing was recording.    *)
alsaRecordTimerData(p) ==
  /\ MainThread /\ record_timer[p] # "off"
  /\ record_timer' = [record_timer EXCEPT ![p] = "off"]
  /\ recording' = [recording EXCEPT ![p] = FALSE]
  /\ sent' = stateRecordUpdate(p, "SR")
  /\ UNCHANGED <<connVars, tableVars, streamVars, record_owner, ready, rt, tick>>

--------------------------------------------------------------------------------
ConnectionStep(ch) ==
  \/ newConnection(ch)
  \/ KillSocket(ch)
  \/ \E ok \in BOOLEAN : Password(ch, ok)
  \/ Unauthorized(ch)

PlayCommand(ch) ==
  \/ \E c \in Cards : LoadPlayback(ch, c) \/ LoadPlaybackFails(ch, c)
  \/ \E cmd \in {"UP", "PP", "PY", "SP"}, h \in Handles \cup {None} :
       HandleCommandFails(ch, cmd, h)
  \/ \E h \in Handles :
       \/ UnloadPlayback(ch, h)
       \/ \E pos \in Positions : PlaybackPosition(ch, h, pos) \/ PlaybackPositionFails(ch, h, pos)
       \/ \E timed \in Timed : Play(ch, h, timed)
       \/ \E badSpeed \in BOOLEAN : PlayFails(ch, h, badSpeed)
       \/ StopPlayback(ch, h)
       \/ StopPlaybackFails(ch, h)

RecordCommand(ch) ==
  \E p \in Ports :
    \/ LoadRecord(ch, p)
    \/ LoadRecordFails(ch, p)
    \/ UnloadRecord(ch, p)
    \/ \E timed \in Timed, vox \in BOOLEAN : Record(ch, p, timed, vox)
    \/ StopRecord(ch, p)
    \/ \E cmd \in {"UR", "RD", "SR"} : PortCommandFails(ch, cmd, p)

Next ==
  \/ \E ch \in Conns : ConnectionStep(ch) \/ PlayCommand(ch) \/ RecordCommand(ch)
  \/ \E i \in Ifs : alsaStopTimerData(i) \/ AlsaPlayCallback(i)
  \/ \E p \in Ports : alsaRecordTimerData(p)
  \/ updateMeters \/ AlsaClock

Spec == Init /\ [][Next]_vars

(* The play thread of a card keeps cycling over its streams, and Qt keeps        *)
(* delivering the metering tick.  Nothing is assumed of clients or of timers.    *)
Fairness ==
  /\ \A i \in Ifs : SF_vars(RtCheck(i)) /\ WF_vars(RtRead(i)) /\ WF_vars(RtEof(i))
  /\ WF_vars(updateMeters) /\ WF_vars(AlsaClock)

FairSpec == Spec /\ Fairness

--------------------------------------------------------------------------------
(* A stream is taken from the card's pool exactly while one handle names it and  *)
(* somebody owns it: no sequence of loads, failed loads, unloads and dropped     *)
(* connections leaks a stream, frees one that is in use or gives it to two       *)
(* handles.  The purge of a stale entry in the LP handler has nothing to purge.  *)
StreamsAccounted ==
  /\ \A i \in Ifs :
       /\ ring[i] # None <=> \E h \in Handles : play_handle[h].iface = i
       /\ ring[i] # None <=> play_owner[i] # None
  /\ \A g, h \in Handles :
       Live(g) /\ play_handle[g].iface = play_handle[h].iface => g = h

(* The owner a handle records, the owner of the interface it names and an open   *)
(* connection are one and the same.                                              *)
HandleOwners ==
  \A h \in Handles : Live(h) =>
    /\ play_owner[play_handle[h].iface] = play_handle[h].owner
    /\ play_handle[h].owner \in socket

(* GetNextHandle() finds a free entry, so its loop ends, however the table was   *)
(* used before.                                                                  *)
HandleAvailable == \E h \in Handles : ~Live(h)

(* Only a loaded stream plays: AlsaClock() refills through the ring and the file *)
(* of every stream that plays, without testing them.                             *)
PlayingIsLoaded == \A i \in Ifs : playing[i] => ring[i] # None

(* A capture port is owned exactly while the driver holds a file and a ring for  *)
(* it, by an open connection, and only such a port records.                      *)
PortsAccounted ==
  \A p \in Ports :
    /\ ready[p] <=> record_owner[p] # None
    /\ recording[p] => ready[p]
    /\ record_owner[p] # None => record_owner[p] \in socket

(* EchoCommand() follows socket[ch] without testing it: every reply, the ones    *)
(* timers and the tick cause included, goes to a connection that is still open.  *)
RepliesReachOpenSockets == \A k \in DOMAIN sent : sent[k].to \in socket

Untouched(i) ==
  /\ play_owner'[i] = play_owner[i]
  /\ ring'[i] = ring[i] /\ playing'[i] = playing[i] /\ stopping'[i] = stopping[i]
  /\ eof'[i] = eof[i] /\ file_pos'[i] = file_pos[i]
  /\ stop_timer'[i] = stop_timer[i]

(* What a connection asks for never touches a stream another connection owns.    *)
PlaybackIsolated ==
  [][\A ch \in Conns : ConnectionStep(ch) \/ PlayCommand(ch) \/ RecordCommand(ch) =>
       \A i \in Ifs : play_owner[i] \notin {ch, None} => Untouched(i)]_vars

(* A playout that stops while it stays loaded is reported to its owner, under    *)
(* its handle, in the very step that stops it: by SP, by the stop timer or by    *)
(* the tick.  The client has no other way to learn of it.                        *)
StopsAreReported ==
  [][\A i \in Ifs : playing[i] /\ ~playing'[i] /\ ring'[i] # None =>
       \E h \in Handles : /\ play_handle[h] = [iface |-> i, owner |-> play_owner[i]]
                          /\ \E k \in DOMAIN sent' :
                               sent'[k] = Reply(play_owner[i], "SP", h, TRUE)]_vars

(* caed implements the pool of playouts its clients rely on: a handle belongs to *)
(* the connection that loaded it until that connection unloads it or goes away,  *)
(* nobody else starts it, and no more are given out than there are streams.      *)
PoolOwner == [h \in Handles |-> IF Live(h) THEN play_handle[h].owner ELSE None]
PoolRunning == {h \in Handles : Live(h) /\ playing[play_handle[h].iface]}
Pool == INSTANCE PlayoutPool WITH
          Clients <- Conns, Nobody <- None, Capacity <- NCards * NStreams,
          owner <- PoolOwner, running <- PoolRunning
ImplementsPool == Pool!Spec

(* A playout ends: unless its client keeps repositioning it for ever, a stream   *)
(* that plays stops by itself when its file has been played out.                 *)
Repositioned == \E ch \in Conns, h \in Handles, pos \in Positions :
                  PlaybackPosition(ch, h, pos)
PlayoutEnds ==
  <>[][~Repositioned]_vars => \A i \in Ifs : playing[i] ~> ~playing[i]

(* Nothing but its own end stops a playout that nobody asked to stop: the stop   *)
(* timer ends only the playout that armed it, and AlsaClock() only one whose     *)
(* file has been read to its end ("0 = play until told to stop or end-of-file is *)
(* reached": docs/cae.sxw, PLAY).                                                *)
StopsAreDue ==
  [][/\ \A i \in Ifs : alsaStopTimerData(i) /\ playing[i] => stop_timer[i] = "armed"
     /\ AlsaClockStop /\ playing[tick] => eof[tick]]_vars
================================================================================
