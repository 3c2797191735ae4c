------------------------------ MODULE CaedProofs -------------------------------
(* Proofs about Caed for every size of its tables.                               *)
EXTENDS Caed, FiniteSetTheorems, TLAPS

(* What the proofs use of the constants.                                         *)
LEMMA Sizes ==
  /\ NCards * NStreams \in Nat
  /\ NHandles \in Nat \ {0}
  /\ None \notin Ifs /\ None \notin Conns /\ None \notin Handles
  /\ Ifs \subseteq Nat /\ Handles \subseteq Nat
  BY SizesAssumption, HandlesAssumption, SMT DEF None, Ifs, Conns, Handles

LEMMA AfterHandleType == \A h \in Handles : AfterHandle(h) \in Handles
  BY Sizes, SMT DEF Handles, AfterHandle

(* FillAlsaOutputStream() never overfills the ring nor reads past the file.      *)
LEMMA FillBounds ==
  ASSUME NEW level \in 0..RingCap, NEW pos \in 0..FileLen
  PROVE  /\ level + FillCount(level, pos) \in 0..RingCap
         /\ pos + FillCount(level, pos) \in 0..FileLen
         /\ ShortRead(level, pos) \in BOOLEAN
  BY SizesAssumption, SMT DEF FillCount, ShortRead

LEMMA SeqFacts ==
  ASSUME NEW S
  PROVE  /\ <<>> \in Seq(S)
         /\ \A r \in S : <<r>> \in Seq(S)
         /\ \A s, t \in Seq(S) : s \o t \in Seq(S)
  OBVIOUS

LEMMA ReplyType ==
  ASSUME NEW ch \in Conns, NEW cmd \in Commands, NEW arg \in Int, NEW ok \in BOOLEAN
  PROVE  /\ Reply(ch, cmd, arg, ok) \in Replies
         /\ <<Reply(ch, cmd, arg, ok)>> \in Seq(Replies)
<1>1. Reply(ch, cmd, arg, ok) \in Replies
  BY DEF Reply, Replies
<1> QED BY <1>1, SeqFacts, Zenon

LEMMA RefusalType ==
  ASSUME NEW ch \in Conns
  PROVE  /\ <<Refusal(ch)>> \in Seq(Replies)
         /\ <<Reply(ch, "LP", None, FALSE)>> \in Seq(Replies)
<1>1. None \in Int /\ "NO" \in Commands /\ "LP" \in Commands
  BY DEF None, Commands
<1> QED BY <1>1, ReplyType DEF Refusal

LEMMA EchoType ==
  ASSUME NEW ch \in Conns, NEW a \in Handles \cup Ports, NEW cmd \in {"LP", "UP", "PP", "LR", "UR", "SR"}
  PROVE  <<Reply(ch, cmd, a, TRUE)>> \in Seq(Replies)
<1>1. a \in Int /\ cmd \in Commands
  BY DEF Handles, Ports, Commands
<1> QED BY <1>1, ReplyType

(* A state report is a sequence of replies, whatever it reports.                 *)
LEMMA StateReports ==
  ASSUME TypeOK
  PROVE  /\ \A i \in Ifs : statePlayUpdate(i, "SP") \in Seq(Replies)
         /\ \A i \in Ifs : statePlayUpdate(i, "PY") \in Seq(Replies)
         /\ \A p \in Ports : stateRecordUpdate(p, "RS") \in Seq(Replies)
         /\ \A p \in Ports : stateRecordUpdate(p, "SR") \in Seq(Replies)
<1>1. ASSUME NEW i \in Ifs, NEW cmd \in Commands
      PROVE  statePlayUpdate(i, cmd) \in Seq(Replies)
  <2>1. CASE (\E h \in Handles : IsHandleOf(h, i)) /\ play_owner[i] # None
    <3>1. HandleOf(i) \in Int
      BY <2>1 DEF HandleOf, Handles
    <3>2. play_owner[i] \in Conns
      BY <2>1 DEF TypeOK
    <3> QED BY <2>1, <3>1, <3>2, ReplyType, Zenon DEF statePlayUpdate
  <2>2. CASE ~((\E h \in Handles : IsHandleOf(h, i)) /\ play_owner[i] # None)
    BY <2>2, SeqFacts, Zenon DEF statePlayUpdate
  <2> QED BY <2>1, <2>2
<1>2. ASSUME NEW p \in Ports, NEW cmd \in Commands
      PROVE  stateRecordUpdate(p, cmd) \in Seq(Replies)
  <2>1. CASE record_owner[p] # None
    <3>1. record_owner[p] \in Conns /\ p \in Int
      BY <2>1 DEF TypeOK, Ports
    <3> QED BY <2>1, <3>1, ReplyType, Zenon DEF stateRecordUpdate
  <2>2. CASE record_owner[p] = None
    BY <2>2, SeqFacts, Zenon DEF stateRecordUpdate
  <2> QED BY <2>1, <2>2
<1> QED BY <1>1, <1>2 DEF Commands

--------------------------------------------------------------------------------
(* Type correctness.  TypeOK is not inductive: AlsaClock() refills the ring of   *)
(* every stream that plays, and only PlayingIsLoaded says that it has one.       *)
TypeInv == TypeOK /\ PlayingIsLoaded

LEMMA TypeInit == Init => TypeInv
  BY Sizes, SizesAssumption, SeqFacts
  DEF Init, TypeInv, TypeOK, PlayingIsLoaded, Entries, FreeEntry, Timers, None,
      Handles, Ifs, Conns

LEMMA TypeNext == TypeInv /\ [Next]_vars => TypeInv'
<1> SUFFICES ASSUME TypeInv, [Next]_vars PROVE TypeInv'
  OBVIOUS
<1> USE DEF TypeInv, TypeOK, PlayingIsLoaded, connVars, tableVars, streamVars, recVars, Timers
<1>1. ASSUME NEW ch \in Conns, newConnection(ch) PROVE TypeInv'
  BY <1>1, SeqFacts DEF newConnection
<1>2. ASSUME NEW ch \in Conns, KillSocket(ch) PROVE TypeInv'
  BY <1>2, SeqFacts DEF KillSocket, Outlive, Entries, FreeEntry
<1>3. ASSUME NEW ch \in Conns, NEW ok \in BOOLEAN, Password(ch, ok) PROVE TypeInv'
  BY <1>3, ReplyType DEF Password, Commands, None
<1>4. ASSUME NEW ch \in Conns, Unauthorized(ch)
      PROVE  TypeInv'
  BY <1>4, RefusalType DEF Unauthorized
<1>5. ASSUME NEW ch \in Conns, NEW c \in Cards, LoadPlayback(ch, c)
      PROVE  TypeInv'
  <2>1. PICK i \in Ifs, h \in Handles : LoadOn(ch, i, h)
    BY <1>5 DEF LoadPlayback
  <2>2. sent' \in Seq(Replies)
    BY <2>1, EchoType, Zenon DEF LoadOn
  <2>3. play_handle' \in [Handles -> Entries]
    BY <2>1 DEF LoadOn, Purged, Entries, FreeEntry
  <2>4. next_play_handle' \in Handles
    BY <2>1, AfterHandleType DEF LoadOn
  <2>5. /\ ring' = [ring EXCEPT ![i] = 0 + FillCount(0, 0)] /\ ring'[i] \in 0..RingCap
        /\ file_pos' \in [Ifs -> 0..FileLen]
        /\ eof' \in [Ifs -> BOOLEAN]
        /\ stop_timer' \in [Ifs -> Timers]
    <3>1. 0 \in 0..RingCap /\ 0 \in 0..FileLen
      BY SizesAssumption
    <3>2. /\ 0 + FillCount(0, 0) \in 0..RingCap /\ 0 + FillCount(0, 0) \in 0..FileLen
          /\ ShortRead(0, 0) \in BOOLEAN
      BY <3>1, FillBounds, Zenon
    <3> QED BY <2>1, <3>2 DEF LoadOn, FillAlsaOutputStream, TimerAfterFill
  <2>6. /\ ring' \in [Ifs -> 0..RingCap \cup {None}]
        /\ \A j \in Ifs : playing[j] => ring'[j] # None
    BY <2>5, SizesAssumption DEF None
  <2> QED BY <2>1, <2>2, <2>3, <2>4, <2>5, <2>6 DEF LoadOn
<1>6. ASSUME NEW ch \in Conns, NEW c \in Cards, LoadPlaybackFails(ch, c)
      PROVE  TypeInv'
  BY <1>6, RefusalType DEF LoadPlaybackFails
<1>7. ASSUME NEW ch \in Conns, NEW cmd, NEW h, HandleCommandFails(ch, cmd, h)
      PROVE  TypeInv'
  BY <1>7, RefusalType DEF HandleCommandFails
<1>8. ASSUME NEW ch \in Conns, NEW h \in Handles, UnloadPlayback(ch, h)
      PROVE  TypeInv'
  <2>1. sent' \in Seq(Replies)
    BY <1>8, EchoType, RefusalType, Zenon DEF UnloadPlayback
  <2> QED BY <1>8, <2>1 DEF UnloadPlayback, Outlive, Entries, FreeEntry, Live
<1>9. ASSUME NEW ch \in Conns, NEW h \in Handles, NEW pos \in Positions,
             PlaybackPosition(ch, h, pos)
      PROVE  TypeInv'
  <2> DEFINE i == play_handle[h].iface
  <2>1. sent' \in Seq(Replies)
    BY <1>9, EchoType, Zenon DEF PlaybackPosition
  <2>2. i \in Ifs /\ pos \in 0..FileLen
    BY <1>9, SizesAssumption DEF PlaybackPosition, Live, Entries
  <2>3. /\ ring' = [ring EXCEPT ![i] = 0 + FillCount(0, pos)] /\ ring'[i] \in 0..RingCap
        /\ file_pos' \in [Ifs -> 0..FileLen]
        /\ eof' \in [Ifs -> BOOLEAN]
        /\ stop_timer' \in [Ifs -> Timers]
    <3>1. 0 \in 0..RingCap
      BY SizesAssumption
    <3>2. /\ 0 + FillCount(0, pos) \in 0..RingCap /\ pos + FillCount(0, pos) \in 0..FileLen
          /\ ShortRead(0, pos) \in BOOLEAN
      BY <2>2, <3>1, FillBounds, Zenon
    <3> QED BY <1>9, <2>2, <3>2 DEF PlaybackPosition, FillAlsaOutputStream, TimerAfterFill
  <2>4. /\ ring' \in [Ifs -> 0..RingCap \cup {None}]
        /\ \A j \in Ifs : playing[j] => ring'[j] # None
    BY <2>2, <2>3, SizesAssumption DEF None
  <2> QED BY <1>9, <2>1, <2>3, <2>4 DEF PlaybackPosition
<1>10. ASSUME NEW ch \in Conns, NEW h \in Handles, NEW pos \in Positions,
              PlaybackPositionFails(ch, h, pos)
      PROVE  TypeInv'
  BY <1>10, RefusalType DEF PlaybackPositionFails
<1>11. ASSUME NEW ch \in Conns, NEW h \in Handles, NEW timed \in Timed,
             Play(ch, h, timed) PROVE TypeInv'
  BY <1>11, StateReports DEF Play, Live, Entries
<1>12. ASSUME NEW ch \in Conns, NEW h \in Handles, NEW badSpeed \in BOOLEAN,
              PlayFails(ch, h, badSpeed)
      PROVE  TypeInv'
  BY <1>12, RefusalType DEF PlayFails
<1>13. ASSUME NEW ch \in Conns, NEW h \in Handles, StopPlayback(ch, h)
       PROVE  TypeInv'
  <2> DEFINE i == play_handle[h].iface
  <2>1. i \in Ifs
    BY <1>13 DEF StopPlayback, Live, Entries
  <2>2. sent' \in Seq(Replies)
    BY <1>13, <2>1, StateReports DEF StopPlayback
  <2> QED BY <1>13, <2>1, <2>2, SizesAssumption DEF StopPlayback, alsaStopPlayback, None
<1>14. ASSUME NEW ch \in Conns, NEW h \in Handles, StopPlaybackFails(ch, h)
      PROVE  TypeInv'
  BY <1>14, RefusalType DEF StopPlaybackFails
<1>15. ASSUME NEW i \in Ifs, alsaStopTimerData(i)
       PROVE  TypeInv'
  <2> DEFINE report == statePlayUpdate(i, "SP")
  <2>1. report \in Seq(Replies) /\ report \o report \in Seq(Replies)
    BY StateReports, SeqFacts
  <2> HIDE DEF report
  <2>2. sent' \in Seq(Replies)
    BY <1>15, <2>1 DEF alsaStopTimerData, report
  <2>3. CASE Stoppable(i) /\ alsaStopPlayback(i)
    BY <1>15, <2>2, <2>3, SizesAssumption DEF alsaStopTimerData, alsaStopPlayback, None
  <2>4. CASE /\ stop_timer' = [stop_timer EXCEPT ![i] = "off"]
             /\ UNCHANGED <<playing, ring>>
    BY <1>15, <2>2, <2>4 DEF alsaStopTimerData
  <2> QED BY <1>15, <2>3, <2>4 DEF alsaStopTimerData
<1>16. ASSUME NEW i \in Ifs, RtCheck(i) PROVE TypeInv'
  BY <1>16, SeqFacts DEF RtCheck
<1>17. ASSUME NEW i \in Ifs, RtRead(i)
       PROVE  TypeInv'
  <2>1. sent' \in Seq(Replies)
    BY <1>17, SeqFacts DEF RtRead
  <2>2. rt' \in [Cards -> [pc : {"scan", "read", "eof"}, iface : Ifs \cup {None}]]
    <3>1. \/ rt' = [rt EXCEPT ![CardOf(i)] = [pc |-> "scan", iface |-> None]]
          \/ rt' = [rt EXCEPT ![CardOf(i)] = [pc |-> "eof", iface |-> i]]
      BY <1>17, Zenon DEF RtRead
    <3>2. CASE rt' = [rt EXCEPT ![CardOf(i)] = [pc |-> "scan", iface |-> None]]
      BY <3>2
    <3>3. CASE rt' = [rt EXCEPT ![CardOf(i)] = [pc |-> "eof", iface |-> i]]
      BY <3>3
    <3> QED BY <3>1, <3>2, <3>3
  <2>3. \/ ring' = ring
        \/ ring[i] > 0 /\ ring' = [ring EXCEPT ![i] = ring[i] - 1]
    BY <1>17 DEF RtRead
  <2>4. ring' \in [Ifs -> 0..RingCap \cup {None}] /\ \A j \in Ifs : playing[j] => ring'[j] # None
    <3>1. CASE ring' = ring
      BY <3>1
    <3>2. CASE ring[i] > 0 /\ ring' = [ring EXCEPT ![i] = ring[i] - 1]
      <4>1. ring[i] - 1 \in 0..RingCap
        BY <3>2, SizesAssumption DEF None
      <4> QED BY <3>2, <4>1 DEF None
    <3> QED BY <2>3, <3>1, <3>2
  <2> QED BY <1>17, <2>1, <2>2, <2>4 DEF RtRead
<1>18. ASSUME NEW i \in Ifs, RtEof(i) PROVE TypeInv'
  BY <1>18, SeqFacts DEF RtEof
<1>19. CASE updateMeters
  BY <1>19, SeqFacts, Sizes DEF updateMeters, Ifs
<1>20. CASE AlsaClockStop
  BY <1>20, StateReports DEF AlsaClockStop, AfterTick, Outlive
<1>21. CASE AlsaClockFill
  <2>1. tick \in Ifs /\ ring[tick] \in 0..RingCap /\ file_pos[tick] \in 0..FileLen
    BY <1>21 DEF AlsaClockFill
  <2>2. /\ ring' = [ring EXCEPT ![tick] = ring[tick] + FillCount(ring[tick], file_pos[tick])]
        /\ ring'[tick] \in 0..RingCap
        /\ file_pos' \in [Ifs -> 0..FileLen]
        /\ eof' \in [Ifs -> BOOLEAN]
        /\ stop_timer' \in [Ifs -> Timers]
    BY <1>21, <2>1, FillBounds DEF AlsaClockFill, FillAlsaOutputStream, TimerAfterFill
  <2>3. /\ ring' \in [Ifs -> 0..RingCap \cup {None}]
        /\ \A j \in Ifs : playing[j] => ring'[j] # None
    BY <2>1, <2>2, SizesAssumption DEF None
  <2>4. tick' \in Ifs \cup {None} /\ sent' \in Seq(Replies)
    BY <1>21, SeqFacts DEF AlsaClockFill, AfterTick
  <2> QED BY <1>21, <2>2, <2>3, <2>4 DEF AlsaClockFill
<1>22. CASE AlsaClockSkip
  BY <1>22, SeqFacts DEF AlsaClockSkip, AfterTick
<1>23. ASSUME NEW ch \in Conns, NEW p \in Ports, LoadRecord(ch, p)
       PROVE  TypeInv'
  <2>1. sent' \in Seq(Replies)
    BY <1>23, EchoType, Zenon DEF LoadRecord
  <2> QED BY <1>23, <2>1 DEF LoadRecord
<1>24. ASSUME NEW ch \in Conns, NEW p \in Ports, LoadRecordFails(ch, p)
      PROVE  TypeInv'
  BY <1>24, RefusalType DEF LoadRecordFails
<1>25. ASSUME NEW ch \in Conns, NEW p \in Ports, UnloadRecord(ch, p)
       PROVE  TypeInv'
  <2>1. sent' \in Seq(Replies)
    BY <1>25, EchoType, Zenon DEF UnloadRecord
  <2> QED BY <1>25, <2>1 DEF UnloadRecord, Outlive
<1>26. ASSUME NEW ch \in Conns, NEW p \in Ports, NEW timed \in Timed, NEW vox \in BOOLEAN,
              Record(ch, p, timed, vox) PROVE TypeInv'
  BY <1>26, StateReports, SeqFacts DEF Record
<1>27. ASSUME NEW ch \in Conns, NEW p \in Ports, StopRecord(ch, p)
       PROVE  TypeInv'
  <2>1. sent' \in Seq(Replies)
    BY <1>27, EchoType, Zenon DEF StopRecord
  <2> QED BY <1>27, <2>1 DEF StopRecord, Outlive
<1>28. ASSUME NEW ch \in Conns, NEW p \in Ports, NEW cmd, PortCommandFails(ch, cmd, p)
      PROVE  TypeInv'
  BY <1>28, RefusalType DEF PortCommandFails
<1>29. ASSUME NEW p \in Ports, alsaRecordTimerData(p) PROVE TypeInv'
  BY <1>29, StateReports DEF alsaRecordTimerData
<1>30. CASE UNCHANGED vars
  BY <1>30 DEF vars
<1> QED
  BY <1>1, <1>2, <1>3, <1>4, <1>5, <1>6, <1>7, <1>8, <1>9, <1>10, <1>11, <1>12, <1>13, <1>14,
     <1>15, <1>16, <1>17, <1>18, <1>19, <1>20, <1>21, <1>22, <1>23, <1>24, <1>25, <1>26, <1>27,
     <1>28, <1>29, <1>30
  DEF Next, ConnectionStep, PlayCommand, RecordCommand, AlsaPlayCallback, AlsaClock

(* Every reachable state of caed is well typed: the tables are indexed within    *)
(* their bounds, rings are never overfilled, files never read past their end.    *)
THEOREM TypeCorrect == Spec => []TypeOK
<1>1. Spec => []TypeInv
  BY TypeInit, TypeNext, PTL DEF Spec
<1> QED BY <1>1, PTL DEF TypeInv

(* AlsaClock() and the play commands follow ring buffers only where there is one. *)
THEOREM PlayingLoaded == Spec => []PlayingIsLoaded
<1>1. Spec => []TypeInv
  BY TypeInit, TypeNext, PTL DEF Spec
<1> QED BY <1>1, PTL DEF TypeInv

--------------------------------------------------------------------------------
(* The handle table, the pool of streams and the owners agree.                   *)
TableInv == StreamsAccounted /\ HandleOwners

LEMMA TableInit == Init => TableInv
  BY Sizes DEF Init, TableInv, StreamsAccounted, HandleOwners, Live, FreeEntry, None

(* A step that leaves the table alone, closes no connection and neither          *)
(* allocates nor frees a ring keeps the agreement.                               *)
LEMMA TableKept ==
  ASSUME TypeOK, TypeOK', TableInv, UNCHANGED tableVars, socket \subseteq socket',
         \A i \in Ifs : ring'[i] = None <=> ring[i] = None
  PROVE  TableInv'
<1>1. StreamsAccounted'
  BY DEF TableInv, StreamsAccounted, tableVars, Live
<1>2. HandleOwners'
  BY DEF TableInv, HandleOwners, tableVars, Live
<1> QED BY <1>1, <1>2 DEF TableInv

LEMMA TableLoad ==
  ASSUME TypeInv, TypeInv', TableInv, NEW ch \in Conns, NEW c \in Cards, LoadPlayback(ch, c)
  PROVE  TableInv'
<1>1. PICK i \in Ifs, h \in Handles : IsOutputStream(i, c) /\ LoadOn(ch, i, h)
  BY DEF LoadPlayback
<1>2. ring[i] = None /\ play_owner[i] = None /\ \A g \in Handles : play_handle[g].iface # i
  BY <1>1 DEF IsOutputStream, TableInv, StreamsAccounted
<1>3. Purged(i) = play_handle
  BY <1>2 DEF Purged, IsHandleOf, TypeInv, TypeOK
<1>4. /\ play_handle' = [play_handle EXCEPT ![h] = [iface |-> i, owner |-> ch]]
      /\ ~Live(h) /\ ch \in socket /\ socket' = socket
      /\ play_owner' = [play_owner EXCEPT ![i] = ch]
  BY <1>1, <1>3 DEF LoadOn, IsNextHandle, Privileged, Command, Live, connVars
<1>5. ring'[i] # None /\ \A j \in Ifs : j # i => ring'[j] = ring[j]
  <2>1. 0 \in 0..RingCap /\ 0 \in 0..FileLen
    BY SizesAssumption
  <2>2. 0 + FillCount(0, 0) \in 0..RingCap
    BY <2>1, FillBounds, Zenon
  <2> QED BY <1>1, <2>2 DEF LoadOn, FillAlsaOutputStream, TypeInv, TypeOK, None
<1>6. StreamsAccounted'
  BY <1>2, <1>4, <1>5, Sizes DEF TableInv, StreamsAccounted, Live, TypeInv, TypeOK, Entries
<1>7. HandleOwners'
  BY <1>2, <1>4, Sizes DEF TableInv, HandleOwners, Live, TypeInv, TypeOK, Entries
<1> QED BY <1>6, <1>7 DEF TableInv

LEMMA TableUnload ==
  ASSUME TypeInv, TypeInv', TableInv, NEW ch \in Conns, NEW h \in Handles, UnloadPlayback(ch, h)
  PROVE  TableInv'
<1> DEFINE i == play_handle[h].iface
<1>1. i \in Ifs /\ ring[i] # None
  BY DEF UnloadPlayback, Live, TypeInv, TypeOK, Entries, TableInv, StreamsAccounted
<1>2. /\ play_handle' = [play_handle EXCEPT ![h] = FreeEntry]
      /\ play_owner' = [play_owner EXCEPT ![i] = None]
      /\ ring' = [ring EXCEPT ![i] = None]
      /\ socket' = socket
  BY <1>1 DEF UnloadPlayback, connVars
<1>3. StreamsAccounted'
  BY <1>1, <1>2, Sizes DEF TableInv, StreamsAccounted, Live, TypeInv, TypeOK, Entries, FreeEntry
<1>4. HandleOwners'
  BY <1>1, <1>2, Sizes DEF TableInv, StreamsAccounted, HandleOwners, Live, TypeInv, TypeOK, Entries, FreeEntry
<1> QED BY <1>3, <1>4 DEF TableInv

LEMMA TableKill ==
  ASSUME TypeInv, TypeInv', TableInv, NEW ch \in Conns, KillSocket(ch)
  PROVE  TableInv'
<1>1. \A h \in Handles : Live(h) =>
        /\ play_handle[h].iface \in Ifs
        /\ play_handle[h].owner = play_owner[play_handle[h].iface]
        /\ ring[play_handle[h].iface] # None
  BY DEF TableInv, StreamsAccounted, HandleOwners, Live, TypeInv, TypeOK, Entries
<1>2. /\ \A h \in Handles : play_handle'[h] = IF play_handle[h].owner = ch THEN FreeEntry
                                                                         ELSE play_handle[h]
      /\ \A i \in Ifs : play_owner'[i] = IF play_owner[i] = ch THEN None ELSE play_owner[i]
      /\ \A i \in Ifs : ring'[i] = IF play_owner[i] = ch THEN None ELSE ring[i]
      /\ socket' = socket \ {ch}
  BY DEF KillSocket
<1>3. \A h \in Handles : Live(h)' =>
        Live(h) /\ play_handle[h].owner # ch /\ play_handle'[h] = play_handle[h]
  BY <1>2 DEF Live, FreeEntry
<1>4. \A h \in Handles : Live(h) /\ play_handle[h].owner # ch => play_handle'[h] = play_handle[h]
  BY <1>2
<1>5. StreamsAccounted'
  <2>1. ASSUME NEW i \in Ifs
        PROVE  (ring'[i] # None <=> \E h \in Handles : play_handle'[h].iface = i)
               /\ (ring'[i] # None <=> play_owner'[i] # None)
    <3>1. i # None
      BY Sizes
    <3>2. ring[i] # None <=> \E h \in Handles : play_handle[h].iface = i
      BY DEF TableInv, StreamsAccounted
    <3>3. ring[i] # None <=> play_owner[i] # None
      BY DEF TableInv, StreamsAccounted
    <3>4. (\E h \in Handles : play_handle'[h].iface = i) =>
             (\E h \in Handles : play_handle[h].iface = i) /\ play_owner[i] # ch
      BY <1>1, <1>3, <3>1 DEF Live
    <3>5. (\E h \in Handles : play_handle[h].iface = i) /\ play_owner[i] # ch =>
             \E h \in Handles : play_handle'[h].iface = i
      BY <1>1, <1>4, <3>1 DEF Live
    <3> QED BY <1>2, <3>2, <3>3, <3>4, <3>5
  <2>2. ASSUME NEW g \in Handles, NEW h \in Handles,
               Live(g)', play_handle'[g].iface = play_handle'[h].iface
        PROVE  g = h
    <3>1. Live(h)'
      BY <2>2 DEF Live
    <3>2. Live(g) /\ play_handle[g].iface = play_handle[h].iface
      BY <1>3, <2>2, <3>1
    <3> QED BY <3>2 DEF TableInv, StreamsAccounted
  <2> QED BY <2>1, <2>2 DEF StreamsAccounted
<1>6. HandleOwners'
  <2> SUFFICES ASSUME NEW h \in Handles, Live(h)'
               PROVE  /\ play_owner'[play_handle'[h].iface] = play_handle'[h].owner
                      /\ play_handle'[h].owner \in socket'
    BY DEF HandleOwners
  <2>1. Live(h) /\ play_handle[h].owner # ch /\ play_handle'[h] = play_handle[h]
    BY <1>3
  <2>2. play_handle[h].owner \in socket
    BY <2>1 DEF TableInv, HandleOwners
  <2> QED BY <1>1, <1>2, <2>1, <2>2
<1> QED BY <1>5, <1>6 DEF TableInv

LEMMA TableNext == TypeInv /\ TableInv /\ [Next]_vars => TableInv'
<1> SUFFICES ASSUME TypeInv, TableInv, [Next]_vars PROVE TableInv'
  OBVIOUS
<1>0. TypeInv'
  BY TypeNext
<1>1. ASSUME UNCHANGED <<tableVars, ring>>, socket \subseteq socket' PROVE TableInv'
  BY <1>0, <1>1, TableKept DEF TypeInv
<1>2. ASSUME NEW i \in Ifs, ring[i] # None, ring' = [ring EXCEPT ![i] = ring'[i]],
             UNCHANGED <<tableVars, socket>>, playing'[i] \/ ring'[i] # None
      PROVE  TableInv'
  <2>1. ring'[i] # None
    BY <1>0, <1>2 DEF TypeInv, PlayingIsLoaded
  <2> QED BY <1>0, <1>2, <2>1, TableKept DEF TypeInv, TypeOK
<1>12. ASSUME NEW i \in Ifs, Stoppable(i), alsaStopPlayback(i), UNCHANGED <<tableVars, socket>>
       PROVE  TableInv'
  <2>1. ring' = [ring EXCEPT ![i] = 0] /\ ring'[i] = 0 /\ ring[i] # None
    BY <1>12 DEF Stoppable, alsaStopPlayback, TypeInv, TypeOK
  <2>2. ring'[i] # None
    BY <2>1 DEF None
  <2> QED BY <1>2, <1>12, <2>1, <2>2
<1> USE DEF connVars, streamVars
<1>3. ASSUME NEW ch \in Conns, ConnectionStep(ch) PROVE TableInv'
  <2>1. CASE KillSocket(ch)
    BY <1>0, <2>1, TableKill
  <2>2. CASE newConnection(ch)
    BY <1>1, <2>2 DEF newConnection
  <2>3. ASSUME NEW ok \in BOOLEAN, Password(ch, ok) PROVE TableInv'
    BY <1>1, <2>3 DEF Password
  <2>4. CASE Unauthorized(ch)
    BY <1>1, <2>4 DEF Unauthorized
  <2> QED BY <1>3, <2>1, <2>2, <2>3, <2>4 DEF ConnectionStep
<1>4. ASSUME NEW ch \in Conns, PlayCommand(ch) PROVE TableInv'
  <2>1. ASSUME NEW c \in Cards, LoadPlayback(ch, c) PROVE TableInv'
    BY <1>0, <2>1, TableLoad
  <2>2. ASSUME NEW c \in Cards, LoadPlaybackFails(ch, c) PROVE TableInv'
    BY <1>1, <2>2 DEF LoadPlaybackFails
  <2>3. ASSUME NEW cmd, NEW h, HandleCommandFails(ch, cmd, h) PROVE TableInv'
    BY <1>1, <2>3 DEF HandleCommandFails
  <2>4. ASSUME NEW h \in Handles, UnloadPlayback(ch, h) PROVE TableInv'
    BY <1>0, <2>4, TableUnload
  <2>5. ASSUME NEW h \in Handles, Live(h) PROVE play_handle[h].iface \in Ifs
    BY <2>5 DEF Live, TypeInv, TypeOK, Entries
  <2>6. ASSUME NEW h \in Handles, NEW pos \in Positions, PlaybackPosition(ch, h, pos)
        PROVE  TableInv'
    <3> DEFINE i == play_handle[h].iface
    <3>1. i \in Ifs /\ ring[i] # None
      BY <2>5, <2>6 DEF PlaybackPosition, TableInv, StreamsAccounted
    <3>2. 0 + FillCount(0, pos) \in 0..RingCap
      <4>1. 0 \in 0..RingCap /\ pos \in 0..FileLen
        BY <2>6, SizesAssumption DEF PlaybackPosition
      <4> QED BY <4>1, FillBounds, Zenon
    <3>3. ring' = [ring EXCEPT ![i] = 0 + FillCount(0, pos)]
      BY <2>6 DEF PlaybackPosition, FillAlsaOutputStream
    <3>4. ring'[i] # None
      BY <3>1, <3>2, <3>3, SizesAssumption DEF TypeInv, TypeOK, None
    <3> QED BY <1>2, <2>6, <3>1, <3>3, <3>4 DEF PlaybackPosition, TypeInv, TypeOK
  <2>7. ASSUME NEW h \in Handles, NEW pos \in Positions, PlaybackPositionFails(ch, h, pos)
        PROVE  TableInv'
    BY <1>1, <2>7 DEF PlaybackPositionFails
  <2>8. ASSUME NEW h \in Handles, NEW timed \in Timed, Play(ch, h, timed) PROVE TableInv'
    BY <1>1, <2>8 DEF Play
  <2>9. ASSUME NEW h \in Handles, NEW badSpeed \in BOOLEAN, PlayFails(ch, h, badSpeed)
        PROVE  TableInv'
    BY <1>1, <2>9 DEF PlayFails
  <2>10. ASSUME NEW h \in Handles, StopPlayback(ch, h) PROVE TableInv'
    BY <1>12, <2>5, <2>10 DEF StopPlayback
  <2>11. ASSUME NEW h \in Handles, StopPlaybackFails(ch, h) PROVE TableInv'
    BY <1>1, <2>11 DEF StopPlaybackFails
  <2> QED BY <1>4, <2>1, <2>2, <2>3, <2>4, <2>6, <2>7, <2>8, <2>9, <2>10, <2>11 DEF PlayCommand
<1>5. ASSUME NEW ch \in Conns, RecordCommand(ch) PROVE TableInv'
  <2>1. UNCHANGED <<tableVars, ring, socket>>
    BY <1>5 DEF RecordCommand, LoadRecord, LoadRecordFails, UnloadRecord, Record, StopRecord,
                PortCommandFails
  <2> QED BY <1>1, <2>1
<1>6. ASSUME NEW i \in Ifs, alsaStopTimerData(i) PROVE TableInv'
  <2>1. CASE Stoppable(i) /\ alsaStopPlayback(i)
    BY <1>12, <1>6, <2>1 DEF alsaStopTimerData
  <2>2. CASE UNCHANGED ring
    BY <1>1, <1>6, <2>2 DEF alsaStopTimerData
  <2> QED BY <1>6, <2>1, <2>2 DEF alsaStopTimerData
<1>7. ASSUME NEW i \in Ifs, AlsaPlayCallback(i) PROVE TableInv'
  <2>1. CASE RtCheck(i) \/ RtEof(i)
    BY <1>1, <2>1 DEF RtCheck, RtEof
  <2>2. CASE RtRead(i) /\ UNCHANGED ring
    BY <1>1, <2>2 DEF RtRead
  <2>3. CASE RtRead(i) /\ ring[i] > 0 /\ ring' = [ring EXCEPT ![i] = ring[i] - 1]
    <3>1. ring[i] \in Int /\ ring'[i] = ring[i] - 1
      BY <2>3, SizesAssumption DEF TypeInv, TypeOK, None
    <3>2. ring[i] # None /\ ring'[i] # None
      BY <2>3, <3>1 DEF None
    <3> QED BY <1>2, <2>3, <3>1, <3>2 DEF RtRead
  <2> QED BY <1>7, <2>1, <2>2, <2>3 DEF AlsaPlayCallback, RtRead
<1>8. ASSUME NEW p \in Ports, alsaRecordTimerData(p) PROVE TableInv'
  BY <1>1, <1>8 DEF alsaRecordTimerData
<1>9. CASE updateMeters
  BY <1>1, <1>9 DEF updateMeters
<1>10. CASE AlsaClock
  <2>1. CASE AlsaClockStop \/ AlsaClockSkip
    BY <1>1, <2>1 DEF AlsaClockStop, AlsaClockSkip
  <2>2. CASE AlsaClockFill
    <3>1. tick \in Ifs /\ playing[tick] /\ playing' = playing /\ ring[tick] # None
      BY <2>2 DEF AlsaClockFill, TypeInv, TypeOK, PlayingIsLoaded
    <3>2. ring' = [ring EXCEPT ![tick] = ring'[tick]]
      BY <2>2, <3>1 DEF AlsaClockFill, FillAlsaOutputStream, TypeInv, TypeOK
    <3> QED BY <1>2, <2>2, <3>1, <3>2 DEF AlsaClockFill
  <2> QED BY <1>10, <2>1, <2>2 DEF AlsaClock
<1>11. CASE UNCHANGED vars
  BY <1>1, <1>11 DEF vars
<1> QED
  BY <1>3, <1>4, <1>5, <1>6, <1>7, <1>8, <1>9, <1>10, <1>11 DEF Next

LEMMA TableAlways == Spec => [](TypeInv /\ TableInv)
<1>1. Init => TypeInv /\ TableInv
  BY TypeInit, TableInit
<1>2. TypeInv /\ TableInv /\ [Next]_vars => (TypeInv /\ TableInv)'
  BY TypeNext, TableNext
<1> QED BY <1>1, <1>2, PTL DEF Spec

(* No history of loads, failed loads, unloads and dropped connections leaks a    *)
(* stream, frees one that is in use, or lets two handles name the same one.      *)
THEOREM StreamsNeverLeak == Spec => []StreamsAccounted
  BY TableAlways, PTL DEF TableInv

(* A live handle, the interface it names and an open connection agree on who     *)
(* owns the playout, for as long as the handle lives.                            *)
THEOREM HandlesHaveOwners == Spec => []HandleOwners
  BY TableAlways, PTL DEF TableInv

LEMMA TableSizes ==
  /\ IsFiniteSet(Handles) /\ Cardinality(Handles) = NHandles
  /\ IsFiniteSet(Ifs) /\ Cardinality(Ifs) = NCards * NStreams
<1>1. /\ 0 \in Int /\ NHandles - 1 \in Int /\ NCards * NStreams - 1 \in Int
      /\ ~(0 > NHandles - 1)
  BY Sizes
<1>2. /\ IsFiniteSet(Handles) /\ Cardinality(Handles) = (NHandles - 1) - 0 + 1
      /\ IsFiniteSet(Ifs)
      /\ Cardinality(Ifs) = IF 0 > NCards * NStreams - 1 THEN 0
                            ELSE (NCards * NStreams - 1) - 0 + 1
  BY <1>1, FS_Interval, Zenon DEF Handles, Ifs
<1> QED BY <1>2, Sizes

(* GetNextHandle() always finds a free entry: live handles name distinct         *)
(* interfaces, and there are more handles than interfaces.                       *)
THEOREM HandleAlwaysAvailable == Spec => []HandleAvailable
<1>1. TypeInv /\ TableInv => HandleAvailable
  <2> SUFFICES ASSUME TypeInv, TableInv, ~HandleAvailable PROVE FALSE
    OBVIOUS
  <2> DEFINE f == [h \in Handles |-> play_handle[h].iface]
  <2>1. f \in [Handles -> Ifs]
    BY DEF HandleAvailable, Live, TypeInv, TypeOK, Entries
  <2>2. \A g, h \in Handles : f[g] = f[h] => g = h
    BY DEF HandleAvailable, Live, TableInv, StreamsAccounted
  <2>4. Cardinality(Handles) > Cardinality(Ifs)
    BY TableSizes, HandlesAssumption
  <2>5. \E g, h \in Handles : g # h /\ f[g] = f[h]
    <3> HIDE DEF f
    <3> QED BY <2>1, <2>4, TableSizes, FS_PigeonHole
  <2> QED BY <2>2, <2>5
<1> QED BY <1>1, TableAlways, PTL

--------------------------------------------------------------------------------
(* Capture ports.                                                                *)
LEMMA PortsInit == Init => PortsAccounted
  BY Sizes DEF Init, PortsAccounted

LEMMA PortsNext == TypeInv /\ PortsAccounted /\ [Next]_vars => PortsAccounted'
<1> SUFFICES ASSUME TypeInv, PortsAccounted, [Next]_vars PROVE PortsAccounted'
  OBVIOUS
<1> USE DEF PortsAccounted, TypeInv, TypeOK, connVars, recVars
<1>1. ASSUME UNCHANGED recVars, socket \subseteq socket' PROVE PortsAccounted'
  BY <1>1
<1>2. ASSUME NEW ch \in Conns, ConnectionStep(ch) PROVE PortsAccounted'
  <2>1. CASE KillSocket(ch)
    BY <2>1 DEF KillSocket
  <2>2. CASE ~KillSocket(ch)
    BY <1>1, <1>2, <2>2 DEF ConnectionStep, newConnection, Password, Unauthorized
  <2> QED BY <2>1, <2>2
<1>3. ASSUME NEW ch \in Conns, PlayCommand(ch) PROVE PortsAccounted'
  BY <1>1, <1>3 DEF PlayCommand, LoadPlayback, LoadOn, LoadPlaybackFails, HandleCommandFails,
     UnloadPlayback, PlaybackPosition, PlaybackPositionFails, Play, PlayFails, StopPlayback,
     StopPlaybackFails
<1>4. ASSUME NEW ch \in Conns, NEW p \in Ports, LoadRecord(ch, p) PROVE PortsAccounted'
  BY <1>4, Sizes DEF LoadRecord, Privileged, Command
<1>5. ASSUME NEW ch \in Conns, NEW p \in Ports, UnloadRecord(ch, p) PROVE PortsAccounted'
  BY <1>5 DEF UnloadRecord
<1>6. ASSUME NEW ch \in Conns, NEW p \in Ports, NEW timed \in Timed, NEW vox \in BOOLEAN,
             Record(ch, p, timed, vox)
      PROVE  PortsAccounted'
  BY <1>6 DEF Record
<1>7. ASSUME NEW ch \in Conns, NEW p \in Ports, StopRecord(ch, p) PROVE PortsAccounted'
  BY <1>7 DEF StopRecord
<1>8. ASSUME NEW ch \in Conns, NEW p \in Ports, NEW cmd,
             LoadRecordFails(ch, p) \/ PortCommandFails(ch, cmd, p)
      PROVE  PortsAccounted'
  BY <1>1, <1>8 DEF LoadRecordFails, PortCommandFails
<1>9. ASSUME NEW p \in Ports, alsaRecordTimerData(p) PROVE PortsAccounted'
  BY <1>9 DEF alsaRecordTimerData
<1>10. ASSUME NEW i \in Ifs, alsaStopTimerData(i) \/ AlsaPlayCallback(i) PROVE PortsAccounted'
  BY <1>1, <1>10 DEF alsaStopTimerData, AlsaPlayCallback, RtCheck, RtRead, RtEof
<1>11. CASE updateMeters \/ AlsaClock
  BY <1>1, <1>11 DEF updateMeters, AlsaClock, AlsaClockStop, AlsaClockFill, AlsaClockSkip
<1>12. CASE UNCHANGED vars
  BY <1>1, <1>12 DEF vars
<1> QED
  BY <1>2, <1>3, <1>4, <1>5, <1>6, <1>7, <1>8, <1>9, <1>10, <1>11, <1>12 DEF Next, RecordCommand

LEMMA AllAlways == Spec => [](TypeInv /\ TableInv /\ PortsAccounted)
<1>1. Init => PortsAccounted
  BY PortsInit
<1>2. TypeInv /\ PortsAccounted /\ [Next]_vars => PortsAccounted'
  BY PortsNext
<1> QED BY <1>1, <1>2, TableAlways, PTL DEF Spec

(* A capture port is held, by an open connection, exactly while the driver has a *)
(* file and a ring for it, and nothing else records.                             *)
THEOREM PortsNeverLeak == Spec => []PortsAccounted
  BY AllAlways, PTL

--------------------------------------------------------------------------------
(* Replies.                                                                      *)

(* The reports of a driver go to open connections.                               *)
LEMMA ReportsReach ==
  ASSUME TypeInv, TableInv, PortsAccounted
  PROVE  /\ \A i \in Ifs, cmd \in Commands : \A k \in DOMAIN statePlayUpdate(i, cmd) :
              statePlayUpdate(i, cmd)[k].to \in socket
         /\ \A p \in Ports, cmd \in Commands : \A k \in DOMAIN stateRecordUpdate(p, cmd) :
              stateRecordUpdate(p, cmd)[k].to \in socket
<1>1. ASSUME NEW i \in Ifs, play_owner[i] # None PROVE play_owner[i] \in socket
  <2>1. PICK h \in Handles : play_handle[h].iface = i
    BY <1>1 DEF TableInv, StreamsAccounted
  <2> QED BY <2>1, Sizes DEF TableInv, HandleOwners, Live
<1>2. ASSUME NEW i \in Ifs, NEW cmd \in Commands, NEW k \in DOMAIN statePlayUpdate(i, cmd)
      PROVE  statePlayUpdate(i, cmd)[k].to \in socket
  <2>1. play_owner[i] # None
        /\ statePlayUpdate(i, cmd) = <<Reply(play_owner[i], cmd, HandleOf(i), TRUE)>>
    <3>1. statePlayUpdate(i, cmd) # <<>>
      BY <1>2
    <3> QED BY <3>1 DEF statePlayUpdate
  <2> QED BY <1>1, <1>2, <2>1 DEF Reply
<1>3. ASSUME NEW p \in Ports, NEW cmd \in Commands, NEW k \in DOMAIN stateRecordUpdate(p, cmd)
      PROVE  stateRecordUpdate(p, cmd)[k].to \in socket
  <2>1. record_owner[p] # None
        /\ stateRecordUpdate(p, cmd) = <<Reply(record_owner[p], cmd, p, TRUE)>>
    <3>1. stateRecordUpdate(p, cmd) # <<>>
      BY <1>3
    <3> QED BY <3>1 DEF stateRecordUpdate
  <2> QED BY <1>3, <2>1 DEF Reply, PortsAccounted
<1> QED BY <1>2, <1>3

LEMMA RepliesNext ==
  TypeInv /\ TableInv /\ PortsAccounted /\ RepliesReachOpenSockets /\ [Next]_vars
    => RepliesReachOpenSockets'
<1> SUFFICES ASSUME TypeInv, TableInv, PortsAccounted, RepliesReachOpenSockets, [Next]_vars
             PROVE  RepliesReachOpenSockets'
  OBVIOUS
<1> USE DEF RepliesReachOpenSockets, connVars
<1>1. ASSUME sent' = <<>> PROVE RepliesReachOpenSockets'
  BY <1>1
<1>2. ASSUME NEW ch \in socket, NEW cmd, NEW arg, NEW ok, socket' = socket,
             sent' = <<Reply(ch, cmd, arg, ok)>>
      PROVE  RepliesReachOpenSockets'
  BY <1>2 DEF Reply
<1>3. ASSUME NEW i \in Ifs, NEW cmd \in Commands, socket' = socket, sent' = statePlayUpdate(i, cmd)
      PROVE  RepliesReachOpenSockets'
  BY <1>3, ReportsReach
<1>4. ASSUME NEW p \in Ports, NEW cmd \in Commands, socket' = socket,
             sent' = stateRecordUpdate(p, cmd)
      PROVE  RepliesReachOpenSockets'
  BY <1>4, ReportsReach
<1>5. "SP" \in Commands /\ "PY" \in Commands /\ "SR" \in Commands /\ "RS" \in Commands
  BY DEF Commands
<1>6. ASSUME NEW ch \in Conns, ConnectionStep(ch) PROVE RepliesReachOpenSockets'
  BY <1>1, <1>2, <1>6 DEF ConnectionStep, newConnection, KillSocket, Password, Unauthorized,
     Refusal, Command
<1>7. ASSUME NEW ch \in Conns, PlayCommand(ch) PROVE RepliesReachOpenSockets'
  <2>1. ch \in socket /\ socket' = socket
    BY <1>7 DEF PlayCommand, LoadPlayback, LoadOn, LoadPlaybackFails, HandleCommandFails,
       UnloadPlayback, PlaybackPosition, PlaybackPositionFails, Play, PlayFails, StopPlayback,
       StopPlaybackFails, Privileged, Command
  <2>2. ASSUME NEW h \in Handles, Live(h) PROVE play_handle[h].iface \in Ifs
    BY <2>2 DEF Live, TypeInv, TypeOK, Entries
  <2>3. ASSUME NEW h \in Handles, NEW timed \in Timed, Play(ch, h, timed) \/ StopPlayback(ch, h)
        PROVE  RepliesReachOpenSockets'
    BY <1>3, <1>5, <2>1, <2>2, <2>3 DEF Play, StopPlayback
  <2>4. ASSUME NEW h \in Handles, StopPlayback(ch, h) PROVE RepliesReachOpenSockets'
    BY <1>3, <1>5, <2>1, <2>2, <2>4 DEF StopPlayback
  <2>5. CASE \E cmd, arg, ok : sent' = <<Reply(ch, cmd, arg, ok)>>
    BY <1>2, <2>1, <2>5
  <2> QED BY <1>7, <2>3, <2>4, <2>5 DEF PlayCommand, LoadPlayback, LoadOn, LoadPlaybackFails,
        HandleCommandFails, UnloadPlayback, PlaybackPosition, PlaybackPositionFails, PlayFails,
        StopPlaybackFails, Refusal
<1>8. ASSUME NEW ch \in Conns, RecordCommand(ch) PROVE RepliesReachOpenSockets'
  <2>1. ch \in socket /\ socket' = socket
    BY <1>8 DEF RecordCommand, LoadRecord, LoadRecordFails, UnloadRecord, Record, StopRecord,
       PortCommandFails, Privileged, Command
  <2>2. ASSUME NEW p \in Ports, NEW timed \in Timed, NEW vox \in BOOLEAN,
               Record(ch, p, timed, vox)
        PROVE  RepliesReachOpenSockets'
    BY <1>1, <1>4, <1>5, <2>1, <2>2 DEF Record
  <2>3. CASE \E cmd, arg, ok : sent' = <<Reply(ch, cmd, arg, ok)>>
    BY <1>2, <2>1, <2>3
  <2> QED BY <1>8, <2>2, <2>3 DEF RecordCommand, LoadRecord, LoadRecordFails, UnloadRecord,
        StopRecord, PortCommandFails, Refusal
<1>9. ASSUME NEW i \in Ifs, alsaStopTimerData(i) PROVE RepliesReachOpenSockets'
  <2> DEFINE report == statePlayUpdate(i, "SP")
  <2>1. report \in Seq(Replies) /\ \A k \in DOMAIN report : report[k].to \in socket
    BY <1>5, StateReports, ReportsReach DEF TypeInv
  <2>2. sent' = report \/ sent' = report \o report
    BY <1>9 DEF alsaStopTimerData
  <2>3. socket' = socket
    BY <1>9 DEF alsaStopTimerData
  <2> HIDE DEF report
  <2>4. CASE sent' = report
    BY <2>1, <2>3, <2>4
  <2>5. CASE sent' = report \o report
    <3> SUFFICES ASSUME NEW k \in DOMAIN sent' PROVE sent'[k].to \in socket
      BY <2>3
    <3>1. /\ k \in 1..(Len(report) + Len(report))
          /\ sent'[k] = IF k <= Len(report) THEN report[k] ELSE report[k - Len(report)]
      BY <2>1, <2>5
    <3>2. \/ sent'[k] = report[k] /\ k \in DOMAIN report
          \/ sent'[k] = report[k - Len(report)] /\ k - Len(report) \in DOMAIN report
      BY <2>1, <3>1
    <3> QED BY <2>1, <3>2
  <2> QED BY <2>2, <2>4, <2>5
<1>10. ASSUME NEW i \in Ifs, AlsaPlayCallback(i) PROVE RepliesReachOpenSockets'
  BY <1>1, <1>10 DEF AlsaPlayCallback, RtCheck, RtRead, RtEof
<1>11. ASSUME NEW p \in Ports, alsaRecordTimerData(p) PROVE RepliesReachOpenSockets'
  BY <1>4, <1>5, <1>11 DEF alsaRecordTimerData
<1>12. CASE updateMeters \/ AlsaClockFill \/ AlsaClockSkip
  BY <1>1, <1>12 DEF updateMeters, AlsaClockFill, AlsaClockSkip
<1>13. CASE AlsaClockStop
  BY <1>3, <1>5, <1>13 DEF AlsaClockStop, TypeInv, TypeOK
<1>14. CASE UNCHANGED vars
  BY <1>14 DEF vars
<1> QED
  BY <1>6, <1>7, <1>8, <1>9, <1>10, <1>11, <1>12, <1>13, <1>14 DEF Next, AlsaClock

(* EchoCommand() never follows the socket of a connection that is gone, also     *)
(* when a timer or the metering tick is what makes it speak.                     *)
THEOREM RepliesReach == Spec => []RepliesReachOpenSockets
<1>1. Init => RepliesReachOpenSockets
  BY DEF Init, RepliesReachOpenSockets
<1> QED BY <1>1, RepliesNext, AllAlways, PTL DEF Spec

--------------------------------------------------------------------------------
(* Stops.                                                                        *)

(* statePlayUpdate() finds the handle and the owner of every loaded stream.      *)
LEMMA LoadedIsReported ==
  ASSUME TypeInv, TableInv, NEW i \in Ifs, ring[i] # None, NEW cmd
  PROVE  \E h \in Handles :
           /\ play_handle[h] = [iface |-> i, owner |-> play_owner[i]]
           /\ statePlayUpdate(i, cmd) = <<Reply(play_owner[i], cmd, h, TRUE)>>
<1>1. play_owner[i] # None /\ \E h \in Handles : play_handle[h].iface = i
  BY DEF TableInv, StreamsAccounted
<1>2. PICK h \in Handles : play_handle[h].iface = i
  BY <1>1
<1>3. \A g \in Handles : play_handle[g].iface = i => g = h
  BY <1>2, Sizes DEF TableInv, StreamsAccounted, Live
<1>4. IsHandleOf(h, i)
  BY <1>2, <1>3, Sizes DEF IsHandleOf
<1>5. HandleOf(i) = h
  BY <1>3, <1>4 DEF HandleOf, IsHandleOf
<1>6. play_handle[h] = [iface |-> i, owner |-> play_owner[i]]
  <2>1. play_handle[h].owner = play_owner[i] /\ play_handle[h] \in Entries
    BY <1>2, Sizes DEF TableInv, HandleOwners, Live, TypeInv, TypeOK
  <2> QED BY <1>2, <2>1 DEF Entries
<1>7. statePlayUpdate(i, cmd) = <<Reply(play_owner[i], cmd, h, TRUE)>>
  BY <1>1, <1>4, <1>5 DEF statePlayUpdate
<1> QED BY <1>6, <1>7

LEMMA StopsNext ==
  ASSUME TypeInv, TableInv, [Next]_vars, NEW i \in Ifs,
         playing[i], ~playing'[i], ring'[i] # None
  PROVE  \E h \in Handles : /\ play_handle[h] = [iface |-> i, owner |-> play_owner[i]]
                            /\ \E k \in DOMAIN sent' :
                                 sent'[k] = Reply(play_owner[i], "SP", h, TRUE)
<1>1. ring[i] # None
  BY DEF TypeInv, PlayingIsLoaded
<1>2. PICK h \in Handles :
        /\ play_handle[h] = [iface |-> i, owner |-> play_owner[i]]
        /\ statePlayUpdate(i, "SP") = <<Reply(play_owner[i], "SP", h, TRUE)>>
  BY <1>1, LoadedIsReported
<1> DEFINE r == Reply(play_owner[i], "SP", h, TRUE)
<1>3. sent' = <<r>> \/ sent' = <<r>> \o <<r>>
  <2>1. \/ sent' = statePlayUpdate(i, "SP")
        \/ sent' = statePlayUpdate(i, "SP") \o statePlayUpdate(i, "SP")
    <3> USE DEF TypeInv, TypeOK, streamVars
    <3>1. ASSUME NEW ch \in Conns, ConnectionStep(ch) PROVE FALSE
      BY <3>1 DEF ConnectionStep, newConnection, KillSocket, Password, Unauthorized
    <3>2. ASSUME NEW ch \in Conns, NEW c \in Cards,
                 LoadPlayback(ch, c) \/ LoadPlaybackFails(ch, c)
          PROVE  FALSE
      BY <3>2 DEF LoadPlayback, LoadOn, LoadPlaybackFails
    <3>3. ASSUME NEW ch \in Conns, NEW cmd, NEW h0, HandleCommandFails(ch, cmd, h0) PROVE FALSE
      BY <3>3 DEF HandleCommandFails
    <3>4. ASSUME NEW ch \in Conns, NEW g \in Handles, UnloadPlayback(ch, g) PROVE FALSE
      BY <3>4 DEF UnloadPlayback, Live, Entries
    <3>5. ASSUME NEW ch \in Conns, NEW g \in Handles, NEW pos \in Positions,
                 PlaybackPosition(ch, g, pos) \/ PlaybackPositionFails(ch, g, pos)
          PROVE  FALSE
      BY <3>5 DEF PlaybackPosition, PlaybackPositionFails
    <3>6. ASSUME NEW ch \in Conns, NEW g \in Handles, NEW timed \in Timed, Play(ch, g, timed)
          PROVE  FALSE
      BY <3>6 DEF Play, Live, Entries
    <3>7. ASSUME NEW ch \in Conns, NEW g \in Handles, NEW badSpeed \in BOOLEAN,
                 PlayFails(ch, g, badSpeed) \/ StopPlaybackFails(ch, g)
          PROVE  FALSE
      BY <3>7 DEF PlayFails, StopPlaybackFails
    <3>8. ASSUME NEW ch \in Conns, NEW g \in Handles, StopPlayback(ch, g)
          PROVE  sent' = statePlayUpdate(i, "SP")
      BY <3>8 DEF StopPlayback, alsaStopPlayback, Live, Entries
    <3>9. ASSUME NEW ch \in Conns, RecordCommand(ch) PROVE FALSE
      BY <3>9 DEF RecordCommand, LoadRecord, LoadRecordFails, UnloadRecord, Record, StopRecord,
                  PortCommandFails
    <3>10. ASSUME NEW j \in Ifs, alsaStopTimerData(j)
           PROVE  sent' = statePlayUpdate(i, "SP") \o statePlayUpdate(i, "SP")
      BY <3>10 DEF alsaStopTimerData, alsaStopPlayback
    <3>11. ASSUME NEW j \in Ifs, AlsaPlayCallback(j) PROVE FALSE
      BY <3>11 DEF AlsaPlayCallback, RtCheck, RtRead, RtEof
    <3>12. ASSUME NEW p \in Ports, alsaRecordTimerData(p) PROVE FALSE
      BY <3>12 DEF alsaRecordTimerData
    <3>13. CASE AlsaClockStop
      BY <3>13 DEF AlsaClockStop
    <3>14. CASE updateMeters \/ AlsaClockFill \/ AlsaClockSkip \/ UNCHANGED vars
      BY <3>14 DEF updateMeters, AlsaClockFill, AlsaClockSkip, vars
    <3> QED BY <3>1, <3>2, <3>3, <3>4, <3>5, <3>6, <3>7, <3>8, <3>9, <3>10, <3>11, <3>12, <3>13,
               <3>14 DEF Next, PlayCommand, AlsaClock
  <2> QED BY <1>2, <2>1
<1>4. 1 \in DOMAIN sent' /\ sent'[1] = r
  <2> HIDE DEF r
  <2>1. CASE sent' = <<r>>
    BY <2>1
  <2>2. CASE sent' = <<r>> \o <<r>>
    BY <2>2
  <2> QED BY <1>3, <2>1, <2>2
<1> QED BY <1>2, <1>4

(* No playout stops behind its owner's back: whatever stops a loaded stream says *)
(* so to the connection that owns it, under the handle it knows.                 *)
THEOREM StopsReported == Spec => StopsAreReported
<1>1. TypeInv /\ TableInv /\ [Next]_vars =>
        [\A i \in Ifs : playing[i] /\ ~playing'[i] /\ ring'[i] # None =>
           \E h \in Handles : /\ play_handle[h] = [iface |-> i, owner |-> play_owner[i]]
                              /\ \E k \in DOMAIN sent' :
                                   sent'[k] = Reply(play_owner[i], "SP", h, TRUE)]_vars
  BY StopsNext
<1> QED BY <1>1, TableAlways, PTL DEF Spec, StopsAreReported

--------------------------------------------------------------------------------
(* Isolation.                                                                    *)
LEMMA IsolationNext ==
  ASSUME TypeInv, TableInv, NEW ch \in Conns,
         ConnectionStep(ch) \/ PlayCommand(ch) \/ RecordCommand(ch),
         NEW i \in Ifs, play_owner[i] \notin {ch, None}
  PROVE  Untouched(i)
<1> USE DEF TypeInv, TypeOK, tableVars, streamVars, Untouched
<1>1. CASE ConnectionStep(ch)
  <2>1. CASE KillSocket(ch)
    <3>1. /\ play_owner'[i] = play_owner[i]
          /\ ring'[i] = ring[i]
          /\ stop_timer'[i] = stop_timer[i]
      BY <2>1 DEF KillSocket
    <3>2. playing'[i] = (playing[i] /\ TRUE)
      BY <2>1 DEF KillSocket
    <3>3. playing[i] \in BOOLEAN
      OBVIOUS
    <3> QED BY <2>1, <3>1, <3>2, <3>3 DEF KillSocket
  <2>2. CASE ~KillSocket(ch)
    BY <1>1, <2>2 DEF ConnectionStep, newConnection, Password, Unauthorized
  <2> QED BY <2>1, <2>2
<1>2. CASE RecordCommand(ch)
  BY <1>2 DEF RecordCommand, LoadRecord, LoadRecordFails, UnloadRecord, Record, StopRecord,
     PortCommandFails
<1>3. ASSUME NEW c \in Cards, LoadPlayback(ch, c) PROVE Untouched(i)
  <2>1. PICK j \in Ifs, h \in Handles : IsOutputStream(j, c) /\ LoadOn(ch, j, h)
    BY <1>3 DEF LoadPlayback
  <2>2. j # i
    BY <2>1 DEF IsOutputStream, TableInv, StreamsAccounted
  <2> QED BY <2>1, <2>2 DEF LoadOn, FillAlsaOutputStream
<1>4. ASSUME NEW c \in Cards, LoadPlaybackFails(ch, c) PROVE Untouched(i)
  BY <1>4 DEF LoadPlaybackFails
<1>5. ASSUME NEW cmd, NEW h, HandleCommandFails(ch, cmd, h) PROVE Untouched(i)
  BY <1>5 DEF HandleCommandFails
<1>6. ASSUME NEW h \in Handles, UnloadPlayback(ch, h) PROVE Untouched(i)
  BY <1>6 DEF UnloadPlayback
<1>7. ASSUME NEW h \in Handles, NEW pos \in Positions, PlaybackPosition(ch, h, pos)
      PROVE  Untouched(i)
  <2>1. play_handle[h].iface # i
    BY <1>7 DEF PlaybackPosition
  <2> QED BY <1>7, <2>1 DEF PlaybackPosition, FillAlsaOutputStream
<1>8. ASSUME NEW h \in Handles, NEW pos \in Positions, PlaybackPositionFails(ch, h, pos)
      PROVE  Untouched(i)
  BY <1>8 DEF PlaybackPositionFails
<1>9. ASSUME NEW h \in Handles, NEW timed \in Timed, Play(ch, h, timed) PROVE Untouched(i)
  BY <1>9 DEF Play
<1>10. ASSUME NEW h \in Handles, NEW badSpeed \in BOOLEAN, PlayFails(ch, h, badSpeed)
       PROVE  Untouched(i)
  BY <1>10 DEF PlayFails
<1>11. ASSUME NEW h \in Handles, StopPlayback(ch, h) \/ StopPlaybackFails(ch, h)
       PROVE  Untouched(i)
  BY <1>11 DEF StopPlayback, StopPlaybackFails, alsaStopPlayback
<1> QED
  BY <1>1, <1>2, <1>3, <1>4, <1>5, <1>6, <1>7, <1>8, <1>9, <1>10, <1>11 DEF PlayCommand

(* Whatever commands a connection sends, and however it ends, the playouts of    *)
(* the other connections go on as if it were not there.                          *)
THEOREM ConnectionsIsolated == Spec => PlaybackIsolated
<1>1. TypeInv /\ TableInv =>
        [\A ch \in Conns : ConnectionStep(ch) \/ PlayCommand(ch) \/ RecordCommand(ch) =>
           \A i \in Ifs : play_owner[i] \notin {ch, None} => Untouched(i)]_vars
  BY IsolationNext
<1> QED BY <1>1, TableAlways, PTL DEF PlaybackIsolated

--------------------------------------------------------------------------------
(* caed implements PlayoutPool.                                                  *)
PoolStep == [Pool!Next]_(Pool!vars)

LEMMA PoolStutter ==
  ASSUME UNCHANGED <<play_handle, playing>>
  PROVE  PoolStep
<1>1. PoolOwner' = PoolOwner
  BY DEF PoolOwner, Live
<1>2. PoolRunning' = PoolRunning
  BY DEF PoolRunning, Live
<1> QED BY <1>1, <1>2 DEF PoolStep, Pool!vars

(* A stream that stops, or was stopped already.                                  *)
LEMMA PoolHalt ==
  ASSUME TypeInv, TableInv, NEW i \in Ifs, play_handle' = play_handle,
         playing' = [playing EXCEPT ![i] = FALSE]
  PROVE  PoolStep
<1>1. PoolOwner' = PoolOwner
  BY DEF PoolOwner, Live
<1>2. CASE ~playing[i]
  <2>1. playing' = playing
    BY <1>2 DEF TypeInv, TypeOK
  <2> QED BY <2>1, PoolStutter
<1>3. CASE playing[i]
  <2>1. PICK h \in Handles : play_handle[h].iface = i
    BY <1>3 DEF TypeInv, PlayingIsLoaded, TableInv, StreamsAccounted
  <2>2. Live(h) /\ h \in PoolRunning
    BY <1>3, <2>1, Sizes DEF PoolRunning, Live
  <2>3. \A g \in Handles : Live(g) /\ g # h => play_handle[g].iface # i /\ play_handle[g].iface \in Ifs
    BY <2>1 DEF TableInv, StreamsAccounted, Live, TypeInv, TypeOK, Entries
  <2>4. PoolRunning' = PoolRunning \ {h}
    <3>1. ASSUME NEW g \in Handles PROVE g \in PoolRunning' <=> g \in PoolRunning /\ g # h
      <4>1. CASE g = h
        BY <2>1, <4>1 DEF PoolRunning, TypeInv, TypeOK
      <4>2. CASE g # h
        BY <2>3, <4>2 DEF PoolRunning, Live, TypeInv, TypeOK
      <4> QED BY <4>1, <4>2
    <3> QED BY <3>1 DEF PoolRunning
  <2>5. Pool!Halt(h)
    BY <1>1, <2>2, <2>4 DEF Pool!Halt
  <2> QED BY <2>5 DEF PoolStep, Pool!Next
<1> QED BY <1>2, <1>3

LEMMA PoolPlay ==
  ASSUME TypeInv, TableInv, NEW ch \in Conns, NEW h \in Handles, NEW timed, Play(ch, h, timed)
  PROVE  PoolStep
<1> DEFINE i == play_handle[h].iface
<1>1. /\ Live(h) /\ i \in Ifs /\ ~playing[i] /\ play_owner[i] = ch
      /\ play_handle' = play_handle /\ playing' = [playing EXCEPT ![i] = TRUE]
  BY DEF Play, Live, TypeInv, TypeOK, Entries, tableVars
<1>2. PoolOwner' = PoolOwner /\ PoolOwner[h] = ch
  BY <1>1 DEF PoolOwner, Live, TableInv, HandleOwners
<1>3. \A g \in Handles : Live(g) /\ g # h => play_handle[g].iface # i /\ play_handle[g].iface \in Ifs
  BY <1>1 DEF TableInv, StreamsAccounted, Live, TypeInv, TypeOK, Entries
<1>4. PoolRunning' = PoolRunning \cup {h} /\ h \notin PoolRunning
  <2>1. h \in PoolRunning' /\ h \notin PoolRunning
    BY <1>1 DEF PoolRunning, Live, TypeInv, TypeOK
  <2>2. ASSUME NEW g \in Handles, g # h PROVE g \in PoolRunning' <=> g \in PoolRunning
    BY <1>1, <1>3, <2>2 DEF PoolRunning, Live, TypeInv, TypeOK
  <2> QED BY <2>1, <2>2 DEF PoolRunning
<1>5. Pool!Start(ch, h)
  BY <1>2, <1>4 DEF Pool!Start
<1> QED BY <1>5 DEF PoolStep, Pool!Next

(* While a stream is free, fewer handles are held than there are streams.        *)
LEMMA PoolHasRoom ==
  ASSUME TypeInv, TableInv, NEW i \in Ifs, ring[i] = None
  PROVE  Cardinality(Pool!Held) < NCards * NStreams
<1> DEFINE H == Pool!Held
           T == Ifs \ {i}
           f == [h \in H |-> play_handle[h].iface]
<1>1. \A h \in H : h \in Handles /\ Live(h)
  BY DEF Pool!Held, PoolOwner
<1>2. f \in [H -> T]
  BY <1>1 DEF Live, TypeInv, TypeOK, Entries, TableInv, StreamsAccounted
<1>3. \A g, h \in H : f[g] = f[h] => g = h
  BY <1>1 DEF TableInv, StreamsAccounted
<1>4. H \in SUBSET Handles
  BY <1>1
<1> HIDE DEF H, f
<1>5. IsFiniteSet(H) /\ Cardinality(H) \in Nat
  BY <1>4, TableSizes, FS_Subset, FS_CardinalityType
<1>6. IsFiniteSet(T) /\ Cardinality(T) = NCards * NStreams - 1
  BY TableSizes, FS_RemoveElement
<1>7. ~(Cardinality(T) < Cardinality(H))
  <2> SUFFICES ASSUME Cardinality(T) < Cardinality(H) PROVE FALSE
    OBVIOUS
  <2>1. \E g, h \in H : g # h /\ f[g] = f[h]
    <3> HIDE DEF T
    <3> QED BY <1>2, <1>5, <1>6, FS_PigeonHole
  <2> QED BY <1>3, <2>1
<1> QED BY <1>5, <1>6, <1>7, Sizes DEF H

LEMMA PoolLoad ==
  ASSUME TypeInv, TableInv, NEW ch \in Conns, NEW c \in Cards, LoadPlayback(ch, c)
  PROVE  PoolStep
<1>1. PICK i \in Ifs, h \in Handles : IsOutputStream(i, c) /\ LoadOn(ch, i, h)
  BY DEF LoadPlayback
<1>2. ring[i] = None /\ ~playing[i] /\ \A g \in Handles : play_handle[g].iface # i
  BY <1>1 DEF IsOutputStream, TableInv, StreamsAccounted, TypeInv, PlayingIsLoaded
<1>3. Purged(i) = play_handle
  BY <1>2 DEF Purged, IsHandleOf, TypeInv, TypeOK
<1>4. /\ play_handle' = [play_handle EXCEPT ![h] = [iface |-> i, owner |-> ch]]
      /\ ~Live(h) /\ playing' = playing
  BY <1>1, <1>3 DEF LoadOn, IsNextHandle, Live
<1>5. PoolOwner[h] = None /\ PoolOwner' = [PoolOwner EXCEPT ![h] = ch]
  BY <1>4, Sizes DEF PoolOwner, Live, TypeInv, TypeOK
<1>6. PoolRunning' = PoolRunning
  <2>1. h \notin PoolRunning /\ h \notin PoolRunning'
    BY <1>2, <1>4 DEF PoolRunning, TypeInv, TypeOK
  <2>2. ASSUME NEW g \in Handles, g # h PROVE g \in PoolRunning' <=> g \in PoolRunning
    BY <1>4, <2>2 DEF PoolRunning, Live, TypeInv, TypeOK
  <2> QED BY <2>1, <2>2 DEF PoolRunning
<1>7. Cardinality(Pool!Held) < NCards * NStreams
  BY <1>2, PoolHasRoom
<1>8. Pool!Acquire(ch, h)
  BY <1>5, <1>6, <1>7 DEF Pool!Acquire, Pool!Cardinality, Cardinality
<1> QED BY <1>8 DEF PoolStep, Pool!Next

LEMMA PoolUnload ==
  ASSUME TypeInv, TableInv, NEW ch \in Conns, NEW h \in Handles, UnloadPlayback(ch, h)
  PROVE  PoolStep
<1> DEFINE i == play_handle[h].iface
<1>1. Live(h) /\ i \in Ifs /\ ring[i] # None /\ play_owner[i] = ch
  BY DEF UnloadPlayback, Live, TypeInv, TypeOK, Entries, TableInv, StreamsAccounted
<1>2. /\ play_handle' = [play_handle EXCEPT ![h] = FreeEntry]
      /\ \A j \in Ifs : j # i => playing'[j] = playing[j]
  BY <1>1 DEF UnloadPlayback, TypeInv, TypeOK
<1>3. PoolOwner[h] = ch /\ PoolOwner' = [PoolOwner EXCEPT ![h] = None]
  BY <1>1, <1>2 DEF PoolOwner, Live, FreeEntry, TypeInv, TypeOK, TableInv, HandleOwners
<1>4. \A g \in Handles : Live(g) /\ g # h => play_handle[g].iface # i /\ play_handle[g].iface \in Ifs
  BY <1>1 DEF TableInv, StreamsAccounted, Live, TypeInv, TypeOK, Entries
<1>5. PoolRunning' = PoolRunning \ {h}
  <2>1. h \notin PoolRunning'
    BY <1>2 DEF PoolRunning, Live, FreeEntry, TypeInv, TypeOK
  <2>2. ASSUME NEW g \in Handles, g # h PROVE g \in PoolRunning' <=> g \in PoolRunning
    BY <1>2, <1>4, <2>2 DEF PoolRunning, Live, TypeInv, TypeOK
  <2> QED BY <2>1, <2>2 DEF PoolRunning
<1>6. Pool!Release(ch, h)
  BY <1>3, <1>5 DEF Pool!Release
<1> QED BY <1>6 DEF PoolStep, Pool!Next

LEMMA PoolKill ==
  ASSUME TypeInv, TableInv, NEW ch \in Conns, KillSocket(ch)
  PROVE  PoolStep
<1>1. \A h \in Handles : Live(h) =>
        /\ play_handle[h].iface \in Ifs
        /\ play_handle[h].owner = play_owner[play_handle[h].iface]
        /\ ring[play_handle[h].iface] # None
  BY DEF TableInv, StreamsAccounted, HandleOwners, Live, TypeInv, TypeOK, Entries
<1>2. /\ \A h \in Handles : play_handle'[h] = IF play_handle[h].owner = ch THEN FreeEntry
                                                                         ELSE play_handle[h]
      /\ \A i \in Ifs : play_owner[i] # ch => playing'[i] = playing[i]
  <2>1. \A i \in Ifs : play_owner[i] # ch => playing'[i] = (playing[i] /\ TRUE)
    BY DEF KillSocket
  <2>2. \A i \in Ifs : playing[i] \in BOOLEAN
    BY DEF TypeInv, TypeOK
  <2> QED BY <2>1, <2>2 DEF KillSocket
<1>3. ASSUME NEW h \in Handles
      PROVE  Live(h)' <=> Live(h) /\ play_handle[h].owner # ch
  BY <1>2 DEF Live, FreeEntry
<1>4. PoolOwner' = [h \in Handles |-> IF PoolOwner[h] = ch THEN None ELSE PoolOwner[h]]
  BY <1>2, <1>3, Sizes DEF PoolOwner
<1>5. PoolRunning' = {h \in PoolRunning : PoolOwner[h] # ch}
  <2>1. ASSUME NEW h \in Handles
        PROVE  h \in PoolRunning' <=> h \in PoolRunning /\ PoolOwner[h] # ch
    <3>1. CASE Live(h) /\ play_handle[h].owner # ch
      <4>1. play_handle'[h] = play_handle[h] /\ Live(h)' /\ PoolOwner[h] # ch
        BY <1>2, <1>3, <3>1 DEF PoolOwner
      <4>2. playing'[play_handle[h].iface] = playing[play_handle[h].iface]
        BY <1>1, <1>2, <3>1
      <4> QED BY <3>1, <4>1, <4>2 DEF PoolRunning
    <3>2. CASE ~(Live(h) /\ play_handle[h].owner # ch)
      BY <1>3, <3>2 DEF PoolRunning, PoolOwner
    <3> QED BY <3>1, <3>2
  <2> QED BY <2>1 DEF PoolRunning
<1>6. Pool!Drop(ch)
  BY <1>4, <1>5 DEF Pool!Drop
<1> QED BY <1>6 DEF PoolStep, Pool!Next

LEMMA PoolNext == TypeInv /\ TableInv /\ [Next]_vars => PoolStep
<1> SUFFICES ASSUME TypeInv, TableInv, [Next]_vars PROVE PoolStep
  OBVIOUS
<1> USE DEF tableVars, streamVars
<1>1. ASSUME NEW ch \in Conns, ConnectionStep(ch) PROVE PoolStep
  <2>1. CASE KillSocket(ch)
    BY <2>1, PoolKill
  <2>2. CASE ~KillSocket(ch)
    BY <1>1, <2>2, PoolStutter DEF ConnectionStep, newConnection, Password, Unauthorized
  <2> QED BY <2>1, <2>2
<1>2. ASSUME NEW ch \in Conns, PlayCommand(ch) PROVE PoolStep
  <2>1. ASSUME NEW c \in Cards, LoadPlayback(ch, c) PROVE PoolStep
    BY <2>1, PoolLoad
  <2>2. ASSUME NEW h \in Handles, UnloadPlayback(ch, h) PROVE PoolStep
    BY <2>2, PoolUnload
  <2>3. ASSUME NEW h \in Handles, NEW timed \in Timed, Play(ch, h, timed) PROVE PoolStep
    BY <2>3, PoolPlay
  <2>4. ASSUME NEW h \in Handles, StopPlayback(ch, h) PROVE PoolStep
    BY <2>4, PoolHalt DEF StopPlayback, alsaStopPlayback, Live, TypeInv, TypeOK, Entries
  <2>5. CASE UNCHANGED <<play_handle, playing>>
    BY <2>5, PoolStutter
  <2> QED BY <1>2, <2>1, <2>2, <2>3, <2>4, <2>5 DEF PlayCommand, LoadPlaybackFails,
        HandleCommandFails, PlaybackPosition, PlaybackPositionFails, PlayFails, StopPlaybackFails
<1>3. ASSUME NEW ch \in Conns, RecordCommand(ch) PROVE PoolStep
  BY <1>3, PoolStutter DEF RecordCommand, LoadRecord, LoadRecordFails, UnloadRecord, Record,
     StopRecord, PortCommandFails
<1>4. ASSUME NEW i \in Ifs, alsaStopTimerData(i) PROVE PoolStep
  BY <1>4, PoolStutter, PoolHalt DEF alsaStopTimerData, alsaStopPlayback
<1>5. ASSUME NEW i \in Ifs, AlsaPlayCallback(i) PROVE PoolStep
  BY <1>5, PoolStutter DEF AlsaPlayCallback, RtCheck, RtRead, RtEof
<1>6. ASSUME NEW p \in Ports, alsaRecordTimerData(p) PROVE PoolStep
  BY <1>6, PoolStutter DEF alsaRecordTimerData
<1>7. CASE updateMeters \/ AlsaClockFill \/ AlsaClockSkip \/ UNCHANGED vars
  BY <1>7, PoolStutter DEF updateMeters, AlsaClockFill, AlsaClockSkip, vars
<1>8. CASE AlsaClockStop
  BY <1>8, PoolHalt DEF AlsaClockStop, TypeInv, TypeOK
<1> QED BY <1>1, <1>2, <1>3, <1>4, <1>5, <1>6, <1>7, <1>8 DEF Next, AlsaClock

(* caed is a correct pool of playouts: the handle table, the cards' streams, the *)
(* drivers' flags and the threads together behave as PlayoutPool, for every      *)
(* number of connections, cards, streams and handles.                            *)
THEOREM PoolImplemented == Spec => ImplementsPool
<1>1. Init => Pool!Init
  BY DEF Init, Pool!Init, PoolOwner, PoolRunning, Live, FreeEntry
<1>2. TypeInv /\ TableInv /\ [Next]_vars => [Pool!Next]_(Pool!vars)
  BY PoolNext DEF PoolStep
<1> QED BY <1>1, <1>2, TableAlways, PTL DEF Spec, ImplementsPool, Pool!Spec
================================================================================
