------------------------------ MODULE CatchProofs -------------------------------
(* Proofs about Catch for any schedule, any number of decks and ports, and any   *)
(* number of messages under way.                                                 *)
EXTENDS Catch, CaedProofs, StreamLemmas

--------------------------------------------------------------------------------
(* The methods of rdcatchd, field by field.                                      *)

Orders == [cmd : {"LR", "RD", "SR", "UR"}, port : Ports, cut : Nat]
Daemons == [events : Seq(Events), deck : [Ports -> RecordDecks], cmds : Seq(Orders), wild : BOOLEAN]
Unique(ev) == \A j, k \in DOMAIN ev : ev[j].id = ev[k].id => j = k

LEMMA CmdType ==
  ASSUME NEW c \in {"LR", "RD", "SR", "UR"}, NEW p \in Ports, NEW n \in Nat
  PROVE  Cmd(c, p, n) \in Orders
BY DEF Cmd, Orders

LEMMA DaemonFields ==
  ASSUME NEW s \in Daemons
  PROVE  /\ s.events \in Seq(Events) /\ s.deck \in [Ports -> RecordDecks]
         /\ s.cmds \in Seq(Orders) /\ s.wild \in BOOLEAN
         /\ \A k \in DOMAIN s.events : s.events[k] \in Events
         /\ \A p \in Ports : s.deck[p] \in RecordDecks
<1>1. s.events \in Seq(Events) /\ s.deck \in [Ports -> RecordDecks]
  BY DEF Daemons
<1>2. \A k \in DOMAIN s.events : s.events[k] \in Events
  BY <1>1, ElementOfSeq, LenProperties
<1> QED BY <1>1, <1>2 DEF Daemons

(* Changing an entry of the list                                                 *)
LEMMA SetEntry ==
  ASSUME NEW ev \in Seq(Events), NEW k \in DOMAIN ev, NEW e \in Events
  PROVE  /\ [ev EXCEPT ![k] = e] \in Seq(Events)
         /\ DOMAIN [ev EXCEPT ![k] = e] = DOMAIN ev
         /\ Len([ev EXCEPT ![k] = e]) = Len(ev)
         /\ [ev EXCEPT ![k] = e][k] = e
         /\ \A j \in DOMAIN ev : j # k => [ev EXCEPT ![k] = e][j] = ev[j]
BY ExceptSeq

(* What becomes of an event and of a deck                                        *)
Recorded(e) == [e EXCEPT !.status = "Recording"]
Taken(e) == [e EXCEPT !.status = "Recording", !.window = FALSE]
Opened(e) == [e EXCEPT !.window = TRUE, !.status = "Waiting"]
Closed(e) == [e EXCEPT !.status = "Idle"]
For(d, id) == [d EXCEPT !.id = id]
WaitsFor(d, id) == [d EXCEPT !.status = "Waiting", !.id = id]
Freed(d) == [d EXCEPT !.status = "Idle", !.id = 0]

LEMMA StartRecordingIs ==
  ASSUME NEW s \in Daemons, NEW k \in DOMAIN s.events, NEW e, e = s.events[k], NEW p, p = e.deck,
         NEW r, r = StartRecording(s, k)
  PROVE  IF Available(s.deck[p])
         THEN /\ r.events = [s.events EXCEPT ![k] = Recorded(e)]
              /\ r.deck = [s.deck EXCEPT ![p] = For(s.deck[p], e.id)]
              /\ r.cmds = s.cmds \o <<Cmd("LR", p, e.id), Cmd("RD", p, e.id)>>
              /\ r.wild = s.wild
         ELSE r = s
BY DEF StartRecording, Daemons, Recorded, For

LEMMA OpenWindowIs ==
  ASSUME NEW s \in Daemons, NEW k \in DOMAIN s.events, NEW e, e = s.events[k], NEW p, p = e.deck,
         NEW r, r = OpenWindow(s, k)
  PROVE  /\ r.events = [s.events EXCEPT ![k] = Opened(e)]
         /\ r.deck = [s.deck EXCEPT ![p] = WaitsFor(s.deck[p], e.id)]
         /\ r.cmds = s.cmds
         /\ r.wild = s.wild
BY DEF OpenWindow, Daemons, Opened, WaitsFor
(* GetEvent(): ids are unique, so it finds the event that has the id, if one has. *)
LEMMA GetEventIs ==
  ASSUME NEW s \in Daemons, Unique(s.events), NEW id
  PROVE  /\ GetEvent(s, id) \in DOMAIN s.events \cup {0} /\ 0 \notin DOMAIN s.events
         /\ GetEvent(s, id) = 0 => \A k \in DOMAIN s.events : s.events[k].id # id
         /\ GetEvent(s, id) # 0 => GetEvent(s, id) \in DOMAIN s.events /\ s.events[GetEvent(s, id)].id = id
<1> DEFINE I == {i \in 1..Len(s.events) : s.events[i].id = id}
<1>1. DOMAIN s.events = 1..Len(s.events) /\ Len(s.events) \in Nat
  BY DaemonFields, LenProperties
<1>2. GetEvent(s, id) = IF I # {} THEN Min(I) ELSE 0
  BY DEF GetEvent, SelectInSeq
<1>3. I # {} => Min(I) \in I
  <2>0. \A n, m \in I : n = m /\ n \in Nat
    BY <1>1 DEF Unique
  <2>1. \A n, m \in I : n <= m
    BY <2>0
  <2> QED BY <2>1 DEF Min
<1> QED BY <1>1, <1>2, <1>3

LEMMA StartedIs ==
  ASSUME NEW s \in Daemons, NEW k \in DOMAIN s.events, NEW e, e = s.events[k], NEW p, p = e.deck,
         NEW r, r = Started(s, k)
  PROVE  IF Available(s.deck[p])
         THEN /\ r.events = [s.events EXCEPT ![k] = Taken(e)]
              /\ r.deck = [s.deck EXCEPT ![p] = For(s.deck[p], e.id)]
              /\ r.cmds = s.cmds \o <<Cmd("LR", p, e.id), Cmd("RD", p, e.id)>>
              /\ r.wild = s.wild
         ELSE r = s
BY DEF Started, StartRecording, Daemons, Taken, For

LEMMA CloseWindowIs ==
  ASSUME NEW s \in Daemons, Unique(s.events), NEW id, NEW k, k = GetEvent(s, id),
         NEW r, r = CloseWindow(s, id)
  PROVE  /\ k = 0 => /\ r.events = s.events /\ r.deck = s.deck /\ r.cmds = s.cmds /\ r.wild
         /\ k # 0 => /\ r.events = [s.events EXCEPT ![k] = Closed(s.events[k])]
                     /\ r.deck = [s.deck EXCEPT ![s.events[k].deck] = Freed(s.deck[s.events[k].deck])]
                     /\ r.cmds = s.cmds /\ r.wild = s.wild
<1>1. k # 0 => k \in DOMAIN s.events
  BY GetEventIs
<1>2. CASE k = 0
  BY <1>2 DEF CloseWindow, Daemons
<1>3. CASE k # 0
  BY <1>1, <1>3, DaemonFields DEF CloseWindow, Daemons, Events, Closed, Freed
<1> QED BY <1>2, <1>3

LEMMA EngineDataIs ==
  ASSUME NEW s \in Daemons, NEW id, NEW k, k = GetEvent(s, id)
  PROVE  EngineData(s, id) = IF k = 0 THEN s
                             ELSE IF s.events[k].start = "hard" THEN StartRecording(s, k) ELSE OpenWindow(s, k)
BY DEF EngineData

LEMMA RmlEventType == \A p \in Ports : RmlEvent(p) \in Events
BY CatchAssumption DEF RmlEvent, Events, Starts

(* A recording by RML: the event is added and, its deck being free, started.     *)
RmlStarted(p) == Recorded(RmlEvent(p))
LEMMA StartRmlIs ==
  ASSUME NEW s \in Daemons, NEW p \in Ports, NEW r, r = StartRmlRecording(s, p)
  PROVE  IF \E k \in DOMAIN s.events : IsDynamic(s.events[k])
         THEN r.events = s.events /\ r.deck = s.deck /\ r.cmds = s.cmds /\ r.wild
         ELSE IF Available(s.deck[p])
         THEN /\ r.events = Append(s.events, RmlStarted(p))
              /\ r.deck = [s.deck EXCEPT ![p] = For(s.deck[p], Base)]
              /\ r.cmds = s.cmds \o <<Cmd("LR", p, Base), Cmd("RD", p, Base)>>
              /\ r.wild = s.wild
         ELSE /\ r.events = Append(s.events, RmlEvent(p)) /\ r.deck = s.deck
              /\ r.cmds = s.cmds /\ r.wild = s.wild
<1>1. CASE \E k \in DOMAIN s.events : IsDynamic(s.events[k])
  BY <1>1 DEF StartRmlRecording, Daemons
<1>2. CASE ~\E k \in DOMAIN s.events : IsDynamic(s.events[k])
  <2> DEFINE n == Len(s.events) + 1
             ev == Append(s.events, RmlEvent(p))
             t == [s EXCEPT !.events = ev]
  <2>1. r = StartRecording(t, n)
    BY <1>2 DEF StartRmlRecording
  <2>2. /\ ev \in Seq(Events) /\ n \in DOMAIN ev /\ ev[n] = RmlEvent(p) /\ Len(s.events) \in Nat
    BY DaemonFields, RmlEventType, AppendFacts
  <2>3. t \in Daemons /\ t.events = ev /\ t.deck = s.deck /\ t.cmds = s.cmds /\ t.wild = s.wild
    BY <2>2 DEF Daemons
  <2>4. RmlEvent(p).deck = p /\ RmlEvent(p).id = Base
    BY DEF RmlEvent
  <2>5. [ev EXCEPT ![n] = RmlStarted(p)] = Append(s.events, RmlStarted(p))
    <3>1. RmlStarted(p) \in Events
      BY RmlEventType DEF RmlStarted, Recorded, Events
    <3>2. s.events \in Seq(Events) /\ n \in 1..Len(ev) /\ Len(ev) = n
      BY <2>2, DaemonFields, AppendFacts, RmlEventType, LenProperties
    <3> DEFINE u == [ev EXCEPT ![n] = RmlStarted(p)]
               v == Append(s.events, RmlStarted(p))
    <3> HIDE DEF ev, n
    <3>3. /\ u \in Seq(Events) /\ Len(u) = Len(ev)
          /\ \A j \in 1..Len(ev) : u[j] = IF j = n THEN RmlStarted(p) ELSE ev[j]
      BY <2>2, <3>1, <3>2, ExceptSeq
    <3>4. /\ v \in Seq(Events) /\ Len(v) = n
          /\ \A j \in 1..Len(s.events) : v[j] = s.events[j] /\ ev[j] = s.events[j]
          /\ v[n] = RmlStarted(p)
      BY <3>1, <3>2, RmlEventType, AppendProperties DEF ev, n
    <3>5. \A j \in 1..Len(ev) : j = n \/ j \in 1..Len(s.events)
      BY <2>2, <3>2 DEF n
    <3> HIDE DEF u, v
    <3>6. \A j \in 1..Len(u) : u[j] = v[j]
      BY <3>2, <3>3, <3>4, <3>5
    <3>7. u = v
      BY <3>2, <3>3, <3>4, <3>6, SeqEqual
    <3> QED BY <3>7 DEF u, v
  <2>6. n \in DOMAIN t.events /\ RmlEvent(p) = t.events[n] /\ p = RmlEvent(p).deck /\ t \in Daemons
    BY <2>2, <2>3, <2>4
  <2> HIDE DEF ev, n, t
  <2>7. IF Available(t.deck[p])
         THEN /\ r.events = [t.events EXCEPT ![n] = Recorded(RmlEvent(p))]
              /\ r.deck = [t.deck EXCEPT ![p] = For(t.deck[p], RmlEvent(p).id)]
              /\ r.cmds = t.cmds \o <<Cmd("LR", p, RmlEvent(p).id), Cmd("RD", p, RmlEvent(p).id)>>
              /\ r.wild = t.wild
         ELSE r = t
    BY <2>1, <2>6, ZenonT(60) DEF StartRecording, Daemons, Recorded, For
  <2>8. IF Available(s.deck[p])
         THEN /\ r.events = [ev EXCEPT ![n] = RmlStarted(p)]
              /\ r.deck = [s.deck EXCEPT ![p] = For(s.deck[p], Base)]
              /\ r.cmds = s.cmds \o <<Cmd("LR", p, Base), Cmd("RD", p, Base)>>
              /\ r.wild = s.wild
         ELSE r = t
    BY <2>3, <2>4, <2>7 DEF RmlStarted
  <2> QED BY <1>2, <2>3, <2>5, <2>8 DEF ev, n
<1> QED BY <1>1, <1>2

LEMMA RunCacheIs ==
  ASSUME NEW s \in Daemons, NEW p \in Ports, NEW q, q = StartRmlRecording(s, p),
         NEW r, r = RunRmlRecordingCache(s, p)
  PROVE  /\ ~s.deck[p].pending => r = s
         /\ s.deck[p].pending => /\ r.events = q.events /\ r.cmds = q.cmds /\ r.wild = q.wild
                                 /\ r.deck = [q.deck EXCEPT ![p] = [q.deck[p] EXCEPT !.pending = FALSE]]
BY DEF RunRmlRecordingCache

LEMMA RemoveAtFacts ==
  ASSUME NEW S, NEW q \in Seq(S), NEW k \in DOMAIN q
  PROVE  /\ RemoveAt(q, k) \in Seq(S) /\ Len(RemoveAt(q, k)) = Len(q) - 1 /\ Len(q) \in Nat
         /\ DOMAIN RemoveAt(q, k) = 1..(Len(q) - 1) /\ DOMAIN q = 1..Len(q)
         /\ \A j \in 1..(Len(q) - 1) : RemoveAt(q, k)[j] = IF j < k THEN q[j] ELSE q[j + 1]
<1>1. Len(q) \in Nat /\ DOMAIN q = 1..Len(q) /\ k \in 1..Len(q)
  BY LenProperties
<1> DEFINE a == SubSeq(q, 1, k - 1)
           b == SubSeq(q, k + 1, Len(q))
<1>2. \A i \in 1..(k - 1) : q[i] \in S
  BY <1>1, ElementOfSeq
<1>3. \A i \in (k + 1)..Len(q) : q[i] \in S
  BY <1>1, ElementOfSeq
<1>4. /\ a \in Seq(S) /\ Len(a) = k - 1 /\ \A i \in 1..(k - 1) : a[i] = q[i]
      /\ b \in Seq(S) /\ Len(b) = Len(q) - k /\ \A i \in 1..(Len(q) - k) : b[i] = q[k + i]
  BY <1>1, <1>2, <1>3, SubSeqProperties, SMTT(30)
<1>5. RemoveAt(q, k) = a \o b
  BY DEF RemoveAt
<1> DEFINE c == a \o b
<1> HIDE DEF a, b
<1>6. /\ c \in Seq(S) /\ Len(c) = Len(a) + Len(b)
      /\ \A i \in 1..(Len(a) + Len(b)) : c[i] = IF i <= Len(a) THEN a[i] ELSE b[i - Len(a)]
  BY <1>4, ConcatProperties
<1> HIDE DEF c
<1>7. /\ Len(c) = Len(q) - 1
      /\ \A j \in 1..(Len(q) - 1) : j < k => c[j] = q[j]
      /\ \A j \in 1..(Len(q) - 1) : ~(j < k) => c[j] = q[j + 1]
  <2>1. Len(c) = Len(q) - 1 /\ Len(a) + Len(b) = Len(q) - 1
    BY <1>1, <1>4, <1>6
  <2>2. \A j \in 1..(Len(q) - 1) : j < k => j \in 1..(Len(a) + Len(b)) /\ j <= Len(a) /\ j \in 1..(k - 1)
    BY <1>1, <1>4
  <2>3. \A j \in 1..(Len(q) - 1) : ~(j < k) => /\ j \in 1..(Len(a) + Len(b)) /\ ~(j <= Len(a))
                                               /\ j - Len(a) \in 1..(Len(q) - k) /\ k + (j - Len(a)) = j + 1
    BY <1>1, <1>4
  <2> QED BY <1>4, <1>6, <2>1, <2>2, <2>3
<1>8. DOMAIN c = 1..(Len(q) - 1)
  BY <1>6, <1>7, LenProperties
<1> QED BY <1>1, <1>5, <1>6, <1>7, <1>8 DEF c

(* recordUnloadedData() for an event it knows: the list without the event, if it *)
(* is one to record once, and the entry that then has its index.                 *)
Remaining(ev, k) == IF ev[k].once THEN RemoveAt(ev, k) ELSE ev
NextOf(ev, k) == IF k \in DOMAIN Remaining(ev, k) THEN Remaining(ev, k)[k] ELSE ev[k]
Idled(ev, k) == [j \in DOMAIN Remaining(ev, k) |->
                   IF j = k THEN [Remaining(ev, k)[j] EXCEPT !.status = "Idle"] ELSE Remaining(ev, k)[j]]
IdleOf(s, p, k) == [s EXCEPT !.events = Idled(s.events, k),
                             !.deck[p].status = "Idle", !.deck[p].id = 0, !.deck[p].aborting = FALSE]
AfterUnload(d) == [d EXCEPT !.status = "Idle", !.id = 0, !.aborting = FALSE]

LEMMA RemainingType ==
  ASSUME NEW ev \in Seq(Events), NEW k \in DOMAIN ev
  PROVE  /\ Remaining(ev, k) \in Seq(Events) /\ NextOf(ev, k) \in Events
         /\ Idled(ev, k) \in Seq(Events) /\ DOMAIN Idled(ev, k) = DOMAIN Remaining(ev, k)
         /\ Len(Idled(ev, k)) = Len(Remaining(ev, k))
<1>1. Remaining(ev, k) \in Seq(Events)
  BY RemoveAtFacts DEF Remaining
<1> DEFINE q == Remaining(ev, k)
<1>2. Len(q) \in Nat /\ DOMAIN q = 1..Len(q) /\ \A j \in 1..Len(q) : q[j] \in Events
  BY <1>1, LenProperties, ElementOfSeq
<1>3. ev[k] \in Events
  BY LenProperties, ElementOfSeq
<1> HIDE DEF q
<1>4. \A e \in Events : [e EXCEPT !.status = "Idle"] \in Events
  BY DEF Events
<1> DEFINE f == [j \in DOMAIN q |-> IF j = k THEN [q[j] EXCEPT !.status = "Idle"] ELSE q[j]]
<1>5. f \in [1..Len(q) -> Events]
  BY <1>2, <1>4
<1>6. DOMAIN f = DOMAIN q
  OBVIOUS
<1> HIDE DEF f
<1>7. f \in Seq(Events) /\ Len(f) = Len(q)
  <2>1. f \in Seq(Events)
    BY <1>2, <1>5, IsASeq
  <2> QED BY <1>2, <1>6, <2>1, LenProperties
<1> QED BY <1>1, <1>2, <1>3, <1>6, <1>7 DEF f, q, NextOf, Idled

LEMMA IdleOfIs ==
  ASSUME NEW s \in Daemons, NEW p \in Ports, NEW k \in DOMAIN s.events
  PROVE  /\ IdleOf(s, p, k) \in Daemons
         /\ IdleOf(s, p, k).events = Idled(s.events, k)
         /\ IdleOf(s, p, k).deck = [s.deck EXCEPT ![p] = AfterUnload(s.deck[p])]
         /\ IdleOf(s, p, k).cmds = s.cmds /\ IdleOf(s, p, k).wild = s.wild
<1>1. Idled(s.events, k) \in Seq(Events)
  BY DaemonFields, RemainingType
<1>2. AfterUnload(s.deck[p]) \in RecordDecks
  BY DaemonFields DEF AfterUnload, RecordDecks
<1>3. [s.deck EXCEPT ![p] = AfterUnload(s.deck[p])] \in [Ports -> RecordDecks]
  BY <1>2, DaemonFields
<1>4. /\ IdleOf(s, p, k).events = Idled(s.events, k)
      /\ IdleOf(s, p, k).deck = [s.deck EXCEPT ![p] = AfterUnload(s.deck[p])]
      /\ IdleOf(s, p, k).cmds = s.cmds /\ IdleOf(s, p, k).wild = s.wild
  BY DEF IdleOf, AfterUnload, Daemons
<1>5. IdleOf(s, p, k) \in Daemons
  BY <1>1, <1>3, DaemonFields DEF IdleOf, AfterUnload, Daemons
<1> QED BY <1>4, <1>5

LEMMA UnloadedKnownIs ==
  ASSUME NEW s \in Daemons, NEW p \in Ports, NEW k \in DOMAIN s.events
  PROVE  UnloadedKnown(s, p, k) = IF Restarts(NextOf(s.events, k)) THEN EngineData(IdleOf(s, p, k), NextOf(s.events, k).id)
                                  ELSE RunRmlRecordingCache(IdleOf(s, p, k), p)
BY Zenon DEF UnloadedKnown, NextOf, IdleOf, Idled, Remaining

(* Its counterpart for an event that is gone                                     *)
IdleUnknown(s, p) == [s EXCEPT !.deck[p].status = "Idle", !.deck[p].aborting = FALSE]
LEMMA IdleUnknownIs ==
  ASSUME NEW s \in Daemons, NEW p \in Ports
  PROVE  /\ IdleUnknown(s, p) \in Daemons
         /\ IdleUnknown(s, p).events = s.events
         /\ IdleUnknown(s, p).deck = [s.deck EXCEPT ![p] = [s.deck[p] EXCEPT !.status = "Idle", !.aborting = FALSE]]
         /\ IdleUnknown(s, p).cmds = s.cmds /\ IdleUnknown(s, p).wild = s.wild
         /\ UnloadedUnknown(s, p) = RunRmlRecordingCache(IdleUnknown(s, p), p)
<1> DEFINE dk == [s.deck EXCEPT ![p] = [s.deck[p] EXCEPT !.status = "Idle", !.aborting = FALSE]]
<1>1. dk \in [Ports -> RecordDecks]
  BY DaemonFields DEF RecordDecks
<1>2. /\ IdleUnknown(s, p).events = s.events /\ IdleUnknown(s, p).deck = dk
      /\ IdleUnknown(s, p).cmds = s.cmds /\ IdleUnknown(s, p).wild = s.wild
  BY DEF IdleUnknown, Daemons
<1>3. IdleUnknown(s, p) \in Daemons
  BY <1>1, DaemonFields DEF IdleUnknown, Daemons
<1> QED BY <1>2, <1>3 DEF UnloadedUnknown, IdleUnknown

--------------------------------------------------------------------------------
(* Types.                                                                        *)

Typed(r) == /\ r.events \in Seq(Events) /\ Unique(r.events) /\ r.deck \in [Ports -> RecordDecks]
            /\ r.cmds \in Seq(Orders) /\ r.wild \in BOOLEAN

LEMMA DeckType ==
  ASSUME NEW dk \in [Ports -> RecordDecks], NEW p \in Ports, NEW d \in RecordDecks
  PROVE  /\ [dk EXCEPT ![p] = d] \in [Ports -> RecordDecks] /\ [dk EXCEPT ![p] = d][p] = d
         /\ \A q \in Ports : q # p => [dk EXCEPT ![p] = d][q] = dk[q]
OBVIOUS

LEMMA FieldTypes ==
  /\ \A e \in Events : /\ e.id \in Nat /\ e.deck \in Ports /\ e.window \in BOOLEAN /\ e.delay \in BOOLEAN
                       /\ Recorded(e) \in Events /\ Recorded(e).id = e.id
                       /\ Taken(e) \in Events /\ Taken(e).id = e.id
                       /\ Opened(e) \in Events /\ Opened(e).id = e.id
                       /\ Closed(e) \in Events /\ Closed(e).id = e.id
  /\ \A d \in RecordDecks : /\ \A id \in Nat : For(d, id) \in RecordDecks /\ WaitsFor(d, id) \in RecordDecks
                            /\ Freed(d) \in RecordDecks /\ AfterUnload(d) \in RecordDecks
<1>1. ASSUME NEW e \in Events
      PROVE  /\ e.id \in Nat /\ e.deck \in Ports /\ e.window \in BOOLEAN /\ e.delay \in BOOLEAN
             /\ Recorded(e) \in Events /\ Recorded(e).id = e.id
             /\ Taken(e) \in Events /\ Taken(e).id = e.id
             /\ Opened(e) \in Events /\ Opened(e).id = e.id
             /\ Closed(e) \in Events /\ Closed(e).id = e.id
  BY DEF Events, Recorded, Taken, Opened, Closed
<1>2. ASSUME NEW d \in RecordDecks
      PROVE  /\ \A id \in Nat : For(d, id) \in RecordDecks /\ WaitsFor(d, id) \in RecordDecks
             /\ Freed(d) \in RecordDecks /\ AfterUnload(d) \in RecordDecks
  BY DEF RecordDecks, For, WaitsFor, Freed, AfterUnload
<1> QED BY <1>1, <1>2, Zenon

LEMMA UniqueSet ==
  ASSUME NEW ev \in Seq(Events), Unique(ev), NEW k \in DOMAIN ev, NEW e \in Events, e.id = ev[k].id
  PROVE  [ev EXCEPT ![k] = e] \in Seq(Events) /\ Unique([ev EXCEPT ![k] = e])
<1> DEFINE u == [ev EXCEPT ![k] = e]
<1>1. /\ u \in Seq(Events) /\ DOMAIN u = DOMAIN ev /\ u[k] = e
      /\ \A j \in DOMAIN ev : j # k => u[j] = ev[j]
  BY SetEntry
<1> HIDE DEF u
<1>2. \A j \in DOMAIN u : u[j].id = ev[j].id
  BY <1>1
<1>3. Unique(u)
  BY <1>1, <1>2 DEF Unique
<1> QED BY <1>1, <1>3 DEF u

LEMMA UniqueAppend ==
  ASSUME NEW ev \in Seq(Events), Unique(ev), NEW e \in Events, \A k \in DOMAIN ev : ev[k].id # e.id
  PROVE  Append(ev, e) \in Seq(Events) /\ Unique(Append(ev, e))
<1> DEFINE u == Append(ev, e)
<1>1. /\ u \in Seq(Events) /\ u[Len(ev) + 1] = e
      /\ \A j \in DOMAIN u : \/ j \in DOMAIN ev /\ u[j] = ev[j]
                             \/ j = Len(ev) + 1 /\ u[j] = e
  BY AppendFacts
<1> HIDE DEF u
<1>2. Unique(u)
  BY <1>1 DEF Unique
<1> QED BY <1>1, <1>2 DEF u

LEMMA UniqueRemove ==
  ASSUME NEW ev \in Seq(Events), Unique(ev), NEW k \in DOMAIN ev
  PROVE  /\ RemoveAt(ev, k) \in Seq(Events) /\ Unique(RemoveAt(ev, k))
         /\ \A j \in DOMAIN RemoveAt(ev, k) : \E i \in DOMAIN ev : i # k /\ RemoveAt(ev, k)[j] = ev[i]
         /\ \A i \in DOMAIN ev : i # k => \E j \in DOMAIN RemoveAt(ev, k) : RemoveAt(ev, k)[j] = ev[i]
<1> DEFINE u == RemoveAt(ev, k)
<1>1. /\ u \in Seq(Events) /\ Len(ev) \in Nat
      /\ DOMAIN u = 1..(Len(ev) - 1) /\ DOMAIN ev = 1..Len(ev)
      /\ \A j \in 1..(Len(ev) - 1) : u[j] = IF j < k THEN ev[j] ELSE ev[j + 1]
  BY RemoveAtFacts
<1> HIDE DEF u
<1> DEFINE m(j) == IF j < k THEN j ELSE j + 1
<1>2. /\ \A j \in DOMAIN u : m(j) \in DOMAIN ev /\ m(j) # k /\ u[j] = ev[m(j)]
      /\ \A i, j \in DOMAIN u : m(i) = m(j) => i = j
  BY <1>1
<1>3. \A i \in DOMAIN ev : i # k => \E j \in DOMAIN u : m(j) = i
  <2> TAKE i \in DOMAIN ev
  <2> HAVE i # k
  <2>1. CASE i < k
    <3>1. i \in DOMAIN u /\ m(i) = i
      BY <1>1, <2>1
    <3> QED BY <3>1
  <2>2. CASE i > k
    <3>1. i - 1 \in DOMAIN u /\ m(i - 1) = i
      BY <1>1, <2>2
    <3> QED BY <3>1
  <2> QED BY <1>1, <2>1, <2>2
<1> HIDE DEF m
<1>4. Unique(u)
  BY <1>2 DEF Unique
<1>5. \A j \in DOMAIN u : \E i \in DOMAIN ev : i # k /\ u[j] = ev[i]
  BY <1>2
<1>6. \A i \in DOMAIN ev : i # k => \E j \in DOMAIN u : u[j] = ev[i]
  BY <1>2, <1>3
<1> QED BY <1>1, <1>4, <1>5, <1>6 DEF u

LEMMA LoadCmdsType ==
  ASSUME NEW q \in Seq(Orders), NEW p \in Ports, NEW id \in Nat
  PROVE  /\ <<Cmd("LR", p, id), Cmd("RD", p, id)>> \in Seq(Orders)
         /\ q \o <<Cmd("LR", p, id), Cmd("RD", p, id)>> \in Seq(Orders)
<1>1. Cmd("LR", p, id) \in Orders /\ Cmd("RD", p, id) \in Orders
  BY CmdType
<1> DEFINE a == Cmd("LR", p, id)
           b == Cmd("RD", p, id)
<1> HIDE DEF a, b
<1>2. <<a, b>> \in Seq(Orders)
  BY <1>1 DEF a, b
<1>3. q \o <<a, b>> \in Seq(Orders)
  BY <1>2, ConcatProperties
<1> QED BY <1>2, <1>3 DEF a, b

LEMMA StartTyped ==
  ASSUME NEW s \in Daemons, Unique(s.events), NEW k \in DOMAIN s.events
  PROVE  Typed(StartRecording(s, k)) /\ Typed(Started(s, k)) /\ Typed(OpenWindow(s, k))
<1> DEFINE e == s.events[k]
           p == e.deck
<1>1. /\ e \in Events /\ p \in Ports /\ e.id \in Nat /\ s.deck[p] \in RecordDecks
      /\ s.events \in Seq(Events) /\ s.deck \in [Ports -> RecordDecks] /\ s.cmds \in Seq(Orders)
      /\ s.wild \in BOOLEAN /\ Typed(s)
  BY DaemonFields, FieldTypes DEF Typed
<1> HIDE DEF e, p
<1>2. s.cmds \o <<Cmd("LR", p, e.id), Cmd("RD", p, e.id)>> \in Seq(Orders)
  BY <1>1, LoadCmdsType
<1>3. /\ For(s.deck[p], e.id) \in RecordDecks
      /\ WaitsFor(s.deck[p], e.id) \in RecordDecks
  BY <1>1, FieldTypes
<1>4. /\ [s.deck EXCEPT ![p] = For(s.deck[p], e.id)] \in [Ports -> RecordDecks]
      /\ [s.deck EXCEPT ![p] = WaitsFor(s.deck[p], e.id)] \in [Ports -> RecordDecks]
  BY <1>1, <1>3, DeckType
<1> DEFINE e1 == Recorded(e)
           e2 == Taken(e)
           e3 == Opened(e)
<1>5. /\ e1 \in Events /\ e1.id = e.id /\ e2 \in Events /\ e2.id = e.id /\ e3 \in Events /\ e3.id = e.id
  <2>1. TRUE \in BOOLEAN /\ FALSE \in BOOLEAN
    OBVIOUS
  <2> QED BY <1>1, <2>1, FieldTypes
<1> HIDE DEF e1, e2, e3
<1>6. /\ [s.events EXCEPT ![k] = e1] \in Seq(Events) /\ Unique([s.events EXCEPT ![k] = e1])
      /\ [s.events EXCEPT ![k] = e2] \in Seq(Events) /\ Unique([s.events EXCEPT ![k] = e2])
      /\ [s.events EXCEPT ![k] = e3] \in Seq(Events) /\ Unique([s.events EXCEPT ![k] = e3])
  BY <1>1, <1>5, UniqueSet DEF e
<1>7. Typed(StartRecording(s, k))
  <2> DEFINE r == StartRecording(s, k)
  <2>1. IF Available(s.deck[p])
         THEN /\ r.events = [s.events EXCEPT ![k] = e1]
              /\ r.deck = [s.deck EXCEPT ![p] = For(s.deck[p], e.id)]
              /\ r.cmds = s.cmds \o <<Cmd("LR", p, e.id), Cmd("RD", p, e.id)>>
              /\ r.wild = s.wild
         ELSE r = s
    BY StartRecordingIs DEF e, p, e1
  <2> HIDE DEF r
  <2>2. Typed(r)
    BY <1>1, <1>2, <1>4, <1>6, <2>1 DEF Typed
  <2> QED BY <2>2 DEF r
<1>8. Typed(Started(s, k))
  <2> DEFINE r == Started(s, k)
  <2>0. e = s.events[k] /\ p = e.deck /\ r = Started(s, k)
    BY DEF e, p
  <2> HIDE DEF r
  <2>1. IF Available(s.deck[p])
         THEN /\ r.events = [s.events EXCEPT ![k] = e2]
              /\ r.deck = [s.deck EXCEPT ![p] = For(s.deck[p], e.id)]
              /\ r.cmds = s.cmds \o <<Cmd("LR", p, e.id), Cmd("RD", p, e.id)>>
              /\ r.wild = s.wild
         ELSE r = s
    BY <2>0, StartedIs DEF e2
  <2>2. Typed(r)
    BY <1>1, <1>2, <1>4, <1>6, <2>1 DEF Typed
  <2> QED BY <2>2 DEF r
<1>9. Typed(OpenWindow(s, k))
  <2> DEFINE r == OpenWindow(s, k)
  <2>0. e = s.events[k] /\ p = e.deck /\ r = OpenWindow(s, k)
    BY DEF e, p
  <2> HIDE DEF r
  <2>1. /\ r.events = [s.events EXCEPT ![k] = e3]
        /\ r.deck = [s.deck EXCEPT ![p] = WaitsFor(s.deck[p], e.id)]
        /\ r.cmds = s.cmds /\ r.wild = s.wild
    BY <2>0, OpenWindowIs DEF e3
  <2>2. Typed(r)
    BY <1>1, <1>4, <1>6, <2>1 DEF Typed
  <2> QED BY <2>2 DEF r
<1> QED BY <1>7, <1>8, <1>9

LEMMA EngineTyped ==
  ASSUME NEW s \in Daemons, Unique(s.events), NEW id
  PROVE  Typed(EngineData(s, id)) /\ Typed(CloseWindow(s, id))
<1> DEFINE k == GetEvent(s, id)
<1>1. k = 0 \/ k \in DOMAIN s.events
  BY GetEventIs
<1>2. /\ s.events \in Seq(Events) /\ s.deck \in [Ports -> RecordDecks] /\ s.cmds \in Seq(Orders)
      /\ s.wild \in BOOLEAN /\ Typed(s)
  BY DaemonFields DEF Typed
<1>3. EngineData(s, id) = IF k = 0 THEN s
                          ELSE IF s.events[k].start = "hard" THEN StartRecording(s, k) ELSE OpenWindow(s, k)
  BY EngineDataIs
<1> DEFINE r == CloseWindow(s, id)
<1>4. /\ k = 0 => /\ r.events = s.events /\ r.deck = s.deck /\ r.cmds = s.cmds /\ r.wild
      /\ k # 0 => /\ r.events = [s.events EXCEPT ![k] = Closed(s.events[k])]
                  /\ r.deck = [s.deck EXCEPT ![s.events[k].deck] = Freed(s.deck[s.events[k].deck])]
                  /\ r.cmds = s.cmds /\ r.wild = s.wild
  BY CloseWindowIs
<1>5. r.wild \in BOOLEAN
  BY <1>1, <1>2, <1>4 DEF CloseWindow, Daemons
<1> HIDE DEF k, r
<1>6. Typed(EngineData(s, id))
  BY <1>1, <1>2, <1>3, StartTyped
<1>7. Typed(r)
  <2>1. CASE k = 0
    BY <1>2, <1>4, <1>5, <2>1 DEF Typed
  <2>2. CASE k \in DOMAIN s.events
    <3> DEFINE e == s.events[k]
               p == e.deck
               f == Closed(e)
               d == Freed(s.deck[p])
    <3>0. 0 \notin DOMAIN s.events
      BY GetEventIs
    <3>1. e \in Events /\ p \in Ports /\ s.deck[p] \in RecordDecks /\ k # 0
      BY <2>2, <3>0, DaemonFields, FieldTypes
    <3>2. f \in Events /\ f.id = e.id /\ d \in RecordDecks
      <4>1. TRUE \in BOOLEAN /\ 0 \in Nat
        OBVIOUS
      <4> QED BY <3>1, <4>1, FieldTypes
    <3> HIDE DEF f, d
    <3>3. [s.events EXCEPT ![k] = f] \in Seq(Events) /\ Unique([s.events EXCEPT ![k] = f])
      BY <1>2, <2>2, <3>2, UniqueSet
    <3>4. [s.deck EXCEPT ![p] = d] \in [Ports -> RecordDecks]
      BY <1>2, <3>1, <3>2
    <3>5. r.events = [s.events EXCEPT ![k] = f] /\ r.deck = [s.deck EXCEPT ![p] = d] /\ r.cmds = s.cmds
      BY <1>4, <3>1 DEF f, d
    <3> QED BY <1>2, <1>5, <3>3, <3>4, <3>5 DEF Typed
  <2> QED BY <1>1, <2>1, <2>2
<1> QED BY <1>6, <1>7 DEF r

LEMMA RmlTyped ==
  ASSUME NEW s \in Daemons, Unique(s.events), NEW p \in Ports
  PROVE  Typed(StartRmlRecording(s, p)) /\ Typed(RunRmlRecordingCache(s, p))
<1> DEFINE q == StartRmlRecording(s, p)
           r == RunRmlRecordingCache(s, p)
<1>1. /\ s.events \in Seq(Events) /\ s.deck \in [Ports -> RecordDecks] /\ s.cmds \in Seq(Orders)
      /\ s.wild \in BOOLEAN /\ Typed(s) /\ Base \in Nat
  BY DaemonFields, CatchAssumption DEF Typed
<1>2. IF \E k \in DOMAIN s.events : IsDynamic(s.events[k])
      THEN q.events = s.events /\ q.deck = s.deck /\ q.cmds = s.cmds /\ q.wild
      ELSE IF Available(s.deck[p])
      THEN /\ q.events = Append(s.events, RmlStarted(p))
           /\ q.deck = [s.deck EXCEPT ![p] = For(s.deck[p], Base)]
           /\ q.cmds = s.cmds \o <<Cmd("LR", p, Base), Cmd("RD", p, Base)>>
           /\ q.wild = s.wild
      ELSE /\ q.events = Append(s.events, RmlEvent(p)) /\ q.deck = s.deck
           /\ q.cmds = s.cmds /\ q.wild = s.wild
  BY StartRmlIs
<1>3. q.wild \in BOOLEAN
  <2>1. CASE \E k \in DOMAIN s.events : IsDynamic(s.events[k])
    BY <2>1 DEF StartRmlRecording, Daemons
  <2> QED BY <1>1, <1>2, <2>1
<1>4. /\ ~s.deck[p].pending => r = s
      /\ s.deck[p].pending => /\ r.events = q.events /\ r.cmds = q.cmds /\ r.wild = q.wild
                              /\ r.deck = [q.deck EXCEPT ![p] = [q.deck[p] EXCEPT !.pending = FALSE]]
  BY RunCacheIs
<1> HIDE DEF q, r
<1>5. q.deck \in [Ports -> RecordDecks]
  <2>1. For(s.deck[p], Base) \in RecordDecks
    BY <1>1, FieldTypes
  <2> QED BY <1>1, <1>2, <2>1
<1>6. q.cmds \in Seq(Orders)
  BY <1>1, <1>2, LoadCmdsType
<1>7. q.events \in Seq(Events) /\ Unique(q.events)
  <2>1. CASE \E k \in DOMAIN s.events : IsDynamic(s.events[k])
    BY <1>1, <1>2, <2>1
  <2>2. CASE ~\E k \in DOMAIN s.events : IsDynamic(s.events[k])
    <3>1. /\ RmlEvent(p) \in Events /\ RmlEvent(p).id = Base
          /\ RmlStarted(p) \in Events /\ RmlStarted(p).id = Base
      BY RmlEventType, FieldTypes DEF RmlStarted, RmlEvent
    <3>2. \A k \in DOMAIN s.events : s.events[k].id # Base
      <4> TAKE k \in DOMAIN s.events
      <4>1. s.events[k].id \in Nat
        BY DaemonFields, FieldTypes
      <4> QED BY <1>1, <2>2, <4>1 DEF IsDynamic
    <3>3. /\ Append(s.events, RmlEvent(p)) \in Seq(Events) /\ Unique(Append(s.events, RmlEvent(p)))
          /\ Append(s.events, RmlStarted(p)) \in Seq(Events) /\ Unique(Append(s.events, RmlStarted(p)))
      BY <1>1, <3>1, <3>2, UniqueAppend
    <3> QED BY <1>2, <2>2, <3>3
  <2> QED BY <2>1, <2>2
<1>8. Typed(q)
  BY <1>3, <1>5, <1>6, <1>7 DEF Typed
<1>9. Typed(r)
  <2>1. [q.deck[p] EXCEPT !.pending = FALSE] \in RecordDecks
    BY <1>5 DEF RecordDecks
  <2>2. [q.deck EXCEPT ![p] = [q.deck[p] EXCEPT !.pending = FALSE]] \in [Ports -> RecordDecks]
    BY <1>5, <2>1
  <2>3. CASE s.deck[p].pending
    BY <1>4, <1>8, <2>2, <2>3 DEF Typed
  <2> QED BY <1>1, <1>4, <2>3
<1> QED BY <1>8, <1>9 DEF q, r

LEMMA UniqueIdled ==
  ASSUME NEW ev \in Seq(Events), Unique(ev), NEW k \in DOMAIN ev
  PROVE  Idled(ev, k) \in Seq(Events) /\ Unique(Idled(ev, k))
<1> DEFINE q == Remaining(ev, k)
           u == Idled(ev, k)
<1>1. u \in Seq(Events) /\ DOMAIN u = DOMAIN q /\ q \in Seq(Events)
  BY RemainingType
<1>2. Unique(q)
  BY UniqueRemove DEF Remaining
<1>3. \A j \in DOMAIN q : q[j] \in Events
  BY <1>1, LenProperties, ElementOfSeq
<1>4. \A j \in DOMAIN q : u[j] = IF j = k THEN Closed(q[j]) ELSE q[j]
  BY DEF Idled, Closed
<1> HIDE DEF q, u
<1>5. \A j \in DOMAIN q : u[j].id = q[j].id
  BY <1>3, <1>4, FieldTypes
<1>6. Unique(u)
  BY <1>1, <1>2, <1>5 DEF Unique
<1> QED BY <1>1, <1>6 DEF u

LEMMA UnloadTyped ==
  ASSUME NEW s \in Daemons, Unique(s.events), NEW p \in Ports
  PROVE  Typed(recordUnloadedData(s, p))
<1> DEFINE k == GetEvent(s, s.deck[p].id)
<1>1. k = 0 \/ k \in DOMAIN s.events
  BY GetEventIs
<1>2. recordUnloadedData(s, p) = IF k = 0 THEN UnloadedUnknown(s, p) ELSE UnloadedKnown(s, p, k)
  BY DEF recordUnloadedData
<1> HIDE DEF k
<1>3. Typed(UnloadedUnknown(s, p))
  <2> DEFINE t == IdleUnknown(s, p)
  <2>1. t \in Daemons /\ t.events = s.events /\ UnloadedUnknown(s, p) = RunRmlRecordingCache(t, p)
    BY IdleUnknownIs
  <2> HIDE DEF t
  <2>2. Typed(RunRmlRecordingCache(t, p))
    BY <2>1, RmlTyped
  <2> QED BY <2>1, <2>2
<1>4. ASSUME k \in DOMAIN s.events PROVE Typed(UnloadedKnown(s, p, k))
  <2> DEFINE t == IdleOf(s, p, k)
  <2>1. t \in Daemons /\ t.events = Idled(s.events, k)
    BY <1>4, IdleOfIs
  <2>2. Unique(t.events)
    BY <1>4, <2>1, UniqueIdled, DaemonFields
  <2>3. UnloadedKnown(s, p, k) = IF Restarts(NextOf(s.events, k)) THEN EngineData(t, NextOf(s.events, k).id)
                                 ELSE RunRmlRecordingCache(t, p)
    BY <1>4, UnloadedKnownIs
  <2> HIDE DEF t
  <2> QED BY <2>1, <2>2, <2>3, EngineTyped, RmlTyped
<1> QED BY <1>1, <1>2, <1>3, <1>4

LEMMA AnswerTyped ==
  ASSUME NEW s \in Daemons, Unique(s.events), NEW r, r.cmd \in {"LR", "RS", "SR", "UR"}, r.port \in Ports
  PROVE  Typed(Answered(s, r))
<1> DEFINE p == r.port
<1>1. /\ s.events \in Seq(Events) /\ s.deck \in [Ports -> RecordDecks] /\ s.cmds \in Seq(Orders)
      /\ s.wild \in BOOLEAN /\ p \in Ports
  BY DaemonFields
<1>2. CASE r.cmd \in {"LR", "RS"}
  <2>1. PICK st \in {"Ready", "Recording"} : Answered(s, r) = [s EXCEPT !.deck[p].status = st]
    BY <1>2 DEF Answered
  <2>2. [s.deck EXCEPT ![p].status = st] \in [Ports -> RecordDecks]
    BY <1>1 DEF RecordDecks
  <2>3. /\ Answered(s, r).events = s.events /\ Answered(s, r).deck = [s.deck EXCEPT ![p].status = st]
        /\ Answered(s, r).cmds = s.cmds /\ Answered(s, r).wild = s.wild
    BY <2>1 DEF Daemons
  <2> QED BY <1>1, <2>2, <2>3 DEF Typed
<1>3. CASE r.cmd = "SR"
  <2>1. Answered(s, r) = [s EXCEPT !.cmds = <<Cmd("UR", p, 0)>>]
    BY <1>3 DEF Answered
  <2>2. <<Cmd("UR", p, 0)>> \in Seq(Orders)
    BY <1>1, CmdType
  <2>3. /\ Answered(s, r).events = s.events /\ Answered(s, r).deck = s.deck
        /\ Answered(s, r).cmds = <<Cmd("UR", p, 0)>> /\ Answered(s, r).wild = s.wild
    BY <2>1 DEF Daemons
  <2> QED BY <1>1, <2>2, <2>3 DEF Typed
<1>4. CASE r.cmd = "UR"
  <2>1. Answered(s, r) = recordUnloadedData(s, p)
    BY <1>4 DEF Answered
  <2> QED BY <1>1, <2>1, UnloadTyped
<1> QED BY <1>2, <1>3, <1>4

--------------------------------------------------------------------------------
(* The type invariant, and what the two streams carry.                           *)

Asked == Orders \cup {Cmd("PW", None, 0)}
Told == [cmd : {"LR", "RS", "SR", "UR"}, port : Ports, cut : Nat]
Carried == to_caed \in Seq(Asked) /\ to_catch \in Seq(Told)
TypesInv == TypeInv /\ PortsAccounted /\ CatchTypeOK /\ Carried

LEMMA Connections ==
  /\ Conns = {Self, Other} /\ Self # Other /\ None \notin Conns /\ None \notin Ports
  /\ Base \in Nat /\ Ports \subseteq Nat /\ None \in Int
<1>1. NConns = 2 /\ NPorts \in Nat /\ Base \in Nat
  BY CatchAssumption, SizesAssumption
<1>2. Conns = {Self, Other}
  BY <1>1 DEF Conns, Self, Other
<1> QED BY <1>1, <1>2 DEF Self, Other, None, Ports

LEMMA SeqSubset == ASSUME NEW S, NEW T, S \subseteq T, NEW q \in Seq(S) PROVE q \in Seq(T)
<1>1. Len(q) \in Nat /\ q \in [1..Len(q) -> S]
  BY LenProperties
<1>2. q \in [1..Len(q) -> T]
  BY <1>1
<1> QED BY <1>1, <1>2, IsASeq

LEMMA CarriedTypes == Asked \subseteq Msgs /\ Told \subseteq Msgs
<1>0. \A p \in Ports : p \in Int
  BY Connections
<1>1. Orders \subseteq Msgs /\ Told \subseteq Msgs
  <2>1. ASSUME NEW m \in Orders PROVE m \in Msgs
    BY <1>0 DEF Orders, Msgs, Commands
  <2>2. ASSUME NEW m \in Told PROVE m \in Msgs
    BY <1>0 DEF Told, Msgs, Commands
  <2> QED BY <2>1, <2>2
<1>2. Cmd("PW", None, 0) \in Msgs
  BY Connections DEF Cmd, Msgs, Commands
<1> QED BY <1>1, <1>2 DEF Asked

LEMMA DaemonType ==
  ASSUME CatchTypeOK
  PROVE  /\ Daemon \in Daemons /\ Unique(Daemon.events) /\ Daemon.events = events /\ Daemon.deck = deck
         /\ Daemon.cmds = <<>> /\ Daemon.wild = FALSE
         /\ \A k \in DOMAIN events : events[k] \in Events
         /\ \A p \in Ports : deck[p] \in RecordDecks
<1>1. Daemon.events = events /\ Daemon.deck = deck /\ Daemon.cmds = <<>> /\ Daemon.wild = FALSE
  BY DEF Daemon
<1>2. Daemon \in Daemons
  <2>1. events \in Seq(Events) /\ deck \in [Ports -> RecordDecks] /\ <<>> \in Seq(Orders) /\ FALSE \in BOOLEAN
    BY DEF CatchTypeOK
  <2> QED BY <2>1 DEF Daemon, Daemons
<1> QED BY <1>1, <1>2, DaemonFields DEF CatchTypeOK, Unique

(* What a handler of rdcatchd leaves is well typed.                              *)
LEMMA BecomeTyped ==
  ASSUME TypesInv, NEW s, Typed(s), Become(s), UNCHANGED <<caedVars, running, tape>>,
         to_catch' \in Seq(Told), leaked' \subseteq Nat
  PROVE  TypesInv'
<1>1. TypeInv' /\ PortsAccounted'
  BY DEF TypesInv, caedVars, vars, connVars, tableVars, streamVars, recVars, TypeInv, TypeOK, PlayingIsLoaded, PortsAccounted
<1>2. to_caed' \in Seq(Asked)
  <2>1. to_caed \in Seq(Asked) /\ s.cmds \in Seq(Orders) /\ to_caed' = to_caed \o s.cmds
    BY DEF TypesInv, Carried, Typed, Become
  <2>2. s.cmds \in Seq(Asked)
    BY <2>1, SeqSubset DEF Asked
  <2> QED BY <2>1, <2>2, ConcatProperties
<1>3. to_caed' \in Seq(Msgs) /\ to_catch' \in Seq(Msgs)
  BY <1>2, SeqSubset, CarriedTypes
<1>4. CatchTypeOK'
  BY <1>3 DEF TypesInv, CatchTypeOK, Typed, Become, Unique
<1> QED BY <1>1, <1>2, <1>4 DEF TypesInv, Carried

--------------------------------------------------------------------------------
(* What caed does to the ports and what it answers.                              *)

Says(m) == to_catch' = IF running THEN Append(to_catch, m) ELSE <<>>
Silent == to_catch' = IF running THEN to_catch ELSE <<>>

LEMMA RepliedIs ==
  ASSUME Replied
  PROVE  /\ sent' = <<>> => Silent
         /\ \A ch, cmd, arg, ok : sent' = <<Reply(ch, cmd, arg, ok)>> =>
              IF ch = Self /\ cmd \in {"LR", "UR", "RS", "SR"}
              THEN Says(Cmd(cmd, arg, IF cmd = "UR" THEN tape[arg] ELSE 0)) ELSE Silent
<1>1. sent' = <<>> => Silent
  BY DEF Replied, Heard, Silent
<1>2. ASSUME NEW ch, NEW cmd, NEW arg, NEW ok, sent' = <<Reply(ch, cmd, arg, ok)>>
      PROVE  IF ch = Self /\ cmd \in {"LR", "UR", "RS", "SR"}
             THEN Says(Cmd(cmd, arg, IF cmd = "UR" THEN tape[arg] ELSE 0)) ELSE Silent
  <2> DEFINE r == Reply(ch, cmd, arg, ok)
  <2>1. r.to = ch /\ r.cmd = cmd /\ r.arg = arg
    BY DEF Reply
  <2> HIDE DEF r
  <2>2. sent' # <<>> /\ Head(sent') = r
    BY <1>2 DEF r
  <2>3. Heard <=> (ch = Self /\ cmd \in {"LR", "UR", "RS", "SR"})
    BY <2>1, <2>2 DEF Heard
  <2>4. Echo(r) = Cmd(cmd, arg, IF cmd = "UR" THEN tape[arg] ELSE 0)
    BY <2>1 DEF Echo
  <2> QED BY <2>2, <2>3, <2>4 DEF Replied, Says, Silent
<1> QED BY <1>1, <1>2

(* The oldest command served                                                     *)
ServeLoad(p, cut) ==
  /\ record_owner[p] = None /\ record_owner' = [record_owner EXCEPT ![p] = Self]
  /\ UNCHANGED record_timer
  /\ tape' = [tape EXCEPT ![p] = cut] /\ UNCHANGED wild
  /\ Says(Cmd("LR", p, 0))
ServeRecord(p) ==
  /\ record_owner[p] = Self /\ UNCHANGED <<record_owner, tape, wild>>
  /\ \E timed \in Timed : record_timer' = [record_timer EXCEPT ![p] = IF timed THEN "armed" ELSE @]
  /\ Says(Cmd("RS", p, 0))
ServeStop(p) ==
  /\ UNCHANGED <<record_owner, tape, wild>>
  /\ \/ /\ recording[p] /\ record_timer' = [record_timer EXCEPT ![p] = Outlive(@)]
        /\ Says(Cmd("SR", p, 0))
     \/ ~recording[p] /\ UNCHANGED record_timer /\ Silent
ServeUnload(p) ==
  /\ UNCHANGED tape
  /\ \/ record_owner[p] = None /\ wild' = TRUE /\ UNCHANGED <<caedVars, to_catch>>
     \/ /\ record_owner[p] = Self /\ wild' = FALSE /\ record_owner' = [record_owner EXCEPT ![p] = None]
        /\ record_timer' = [record_timer EXCEPT ![p] = Outlive(@)]
        /\ Says(Cmd("UR", p, tape[p]))
ServePassword == UNCHANGED <<recVars, tape, wild>> /\ Silent

LEMMA ServeIs ==
  ASSUME Carried, Serve, NEW m, m = Head(to_caed), NEW p, p = m.port
  PROVE  /\ ~wild /\ to_caed # <<>> /\ to_caed' = Tail(to_caed) /\ m \in Asked
         /\ UNCHANGED <<running, events, deck, leaked>>
         /\ [Next]_vars
         /\ \/ m.cmd = "PW" /\ ServePassword
            \/ /\ p \in Ports
               /\ \/ m.cmd = "LR" /\ ServeLoad(p, m.cut)
                  \/ m.cmd = "RD" /\ ServeRecord(p)
                  \/ m.cmd = "SR" /\ ServeStop(p)
                  \/ m.cmd = "UR" /\ ServeUnload(p)
<1>1. /\ ~wild /\ to_caed # <<>> /\ to_caed' = Tail(to_caed)
      /\ UNCHANGED <<running, events, deck, leaked>>
  BY DEF Serve
<1>2. m \in Asked
  BY <1>1, TailFacts DEF Carried
<1>3. m.cmd # "PW" => p \in Ports
  BY <1>2 DEF Asked, Orders, Cmd
<1>4. CASE m.cmd = "PW" /\ Password(Self, TRUE) /\ UNCHANGED <<tape, wild>> /\ Replied
  <2>1. sent' = <<Reply(Self, "PW", None, TRUE)>> /\ UNCHANGED recVars
    BY <1>4 DEF Password
  <2>2. Silent
    BY <1>4, <2>1, RepliedIs
  <2>3. Next
    BY <1>4, Connections DEF Next, ConnectionStep
  <2> QED BY <1>1, <1>2, <1>4, <2>1, <2>2, <2>3 DEF ServePassword
<1>5. CASE /\ m.cmd = "LR" /\ LoadRecord(Self, p) /\ tape' = [tape EXCEPT ![p] = m.cut]
           /\ UNCHANGED wild /\ Replied
  <2>1. /\ sent' = <<Reply(Self, "LR", p, TRUE)>> /\ record_owner[p] = None
        /\ record_owner' = [record_owner EXCEPT ![p] = Self] /\ UNCHANGED record_timer
    BY <1>5 DEF LoadRecord
  <2>2. Says(Cmd("LR", p, 0))
    BY <1>5, <2>1, RepliedIs
  <2>3. Next
    BY <1>3, <1>5, Connections DEF Next, RecordCommand
  <2> QED BY <1>1, <1>2, <1>3, <1>5, <2>1, <2>2, <2>3 DEF ServeLoad
<1>6. CASE /\ m.cmd = "RD" /\ (\E timed \in Timed : Record(Self, p, timed, FALSE))
           /\ UNCHANGED <<tape, wild>> /\ Replied
  <2>1. PICK timed \in Timed : Record(Self, p, timed, FALSE)
    BY <1>6
  <2>2. /\ record_owner[p] = Self /\ UNCHANGED record_owner
        /\ record_timer' = [record_timer EXCEPT ![p] = IF timed THEN "armed" ELSE @]
        /\ sent' = stateRecordUpdate(p, "RS")
    BY <2>1 DEF Record
  <2>3. sent' = <<Reply(Self, "RS", p, TRUE)>>
    BY <2>2, Connections DEF stateRecordUpdate
  <2>4. Says(Cmd("RS", p, 0))
    BY <1>6, <2>3, RepliedIs
  <2>5. Next
    <3>1. FALSE \in BOOLEAN
      OBVIOUS
    <3>2. RecordCommand(Self)
      BY <1>3, <1>6, <2>1, <3>1, Zenon DEF RecordCommand
    <3> QED BY <3>2, Connections DEF Next
  <2> QED BY <1>1, <1>2, <1>3, <1>6, <2>2, <2>4, <2>5 DEF ServeRecord
<1>7. CASE /\ m.cmd = "SR" /\ (StopRecord(Self, p) \/ PortCommandFails(Self, "SR", p))
           /\ UNCHANGED <<tape, wild>> /\ Replied
  <2>1. Next
    BY <1>3, <1>7, Connections DEF Next, RecordCommand
  <2>2. CASE StopRecord(Self, p)
    <3>1. /\ recording[p] /\ record_timer' = [record_timer EXCEPT ![p] = Outlive(@)]
          /\ UNCHANGED record_owner /\ sent' = <<Reply(Self, "SR", p, TRUE)>>
      BY <2>2 DEF StopRecord
    <3>2. Says(Cmd("SR", p, 0))
      BY <1>7, <3>1, RepliedIs
    <3> QED BY <1>1, <1>2, <1>3, <1>7, <2>1, <3>1, <3>2 DEF ServeStop
  <2>3. CASE PortCommandFails(Self, "SR", p)
    <3>1. ~recording[p] /\ UNCHANGED <<record_owner, record_timer>> /\ sent' = <<Reply(Self, "NO", None, FALSE)>>
      BY <2>3 DEF PortCommandFails, recVars, Refusal
    <3>2. /\ "NO" \notin {"LR", "UR", "RS", "SR"}
          /\ IF Self = Self /\ "NO" \in {"LR", "UR", "RS", "SR"}
             THEN Says(Cmd("NO", None, IF "NO" = "UR" THEN tape[None] ELSE 0)) ELSE Silent
      <4>1. Replied
        BY <1>7
      <4>2. \A ch, cmd, arg, ok : sent' = <<Reply(ch, cmd, arg, ok)>> =>
              IF ch = Self /\ cmd \in {"LR", "UR", "RS", "SR"}
              THEN Says(Cmd(cmd, arg, IF cmd = "UR" THEN tape[arg] ELSE 0)) ELSE Silent
        BY <4>1, RepliedIs, Zenon
      <4> QED BY <3>1, <4>2
    <3>3. Silent
      BY <3>1, <3>2
    <3> QED BY <1>1, <1>2, <1>3, <1>7, <2>1, <3>1, <3>3 DEF ServeStop
  <2> QED BY <1>7, <2>2, <2>3
<1>8. CASE /\ m.cmd = "UR" /\ UNCHANGED tape /\ wild' = (record_owner[p] = None)
           /\ IF wild' THEN UNCHANGED <<caedVars, to_catch>> ELSE UnloadRecord(Self, p) /\ Replied
  <2>1. CASE record_owner[p] = None
    <3>1. wild' /\ UNCHANGED <<caedVars, to_catch>>
      BY <1>8, <2>1
    <3> QED BY <1>1, <1>2, <1>3, <1>8, <2>1, <3>1 DEF ServeUnload, caedVars
  <2>2. CASE record_owner[p] # None
    <3>1. ~wild' /\ UnloadRecord(Self, p) /\ Replied
      BY <1>8, <2>2
    <3>2. /\ record_owner[p] = Self /\ record_owner' = [record_owner EXCEPT ![p] = None]
          /\ record_timer' = [record_timer EXCEPT ![p] = Outlive(@)]
          /\ sent' = <<Reply(Self, "UR", p, TRUE)>>
      BY <2>2, <3>1 DEF UnloadRecord
    <3>3. Says(Cmd("UR", p, tape[p]))
      BY <3>1, <3>2, RepliedIs
    <3>4. Next
      BY <1>3, <1>8, <3>1, Connections DEF Next, RecordCommand
    <3> QED BY <1>1, <1>2, <1>3, <1>8, <3>1, <3>2, <3>3, <3>4 DEF ServeUnload
  <2> QED BY <2>1, <2>2
<1> QED BY <1>4, <1>5, <1>6, <1>7, <1>8 DEF Serve

--------------------------------------------------------------------------------
(* The handlers of rdcatchd, by what they leave.                                 *)

Delayed(e) == [e EXCEPT !.delay = TRUE, !.window = FALSE]
Shut(e) == [e EXCEPT !.status = "Idle", !.window = FALSE]
Due(e) == [e EXCEPT !.delay = FALSE]
DueNow(e) == [e EXCEPT !.status = "Recording", !.window = FALSE, !.delay = FALSE]
LEMMA FlagTypes == \A e \in Events : /\ Delayed(e) \in Events /\ Delayed(e).id = e.id
                                     /\ Shut(e) \in Events /\ Shut(e).id = e.id
                                     /\ Due(e) \in Events /\ Due(e).id = e.id
                                     /\ DueNow(e) \in Events /\ DueNow(e).id = e.id
BY DEF Events, Delayed, Shut, Due, DueNow

Loads(p, id) == <<Cmd("LR", p, id), Cmd("RD", p, id)>>
Left(ev, dk, cmds) == /\ events' = ev /\ deck' = dk /\ to_caed' = to_caed \o cmds /\ wild' = FALSE
                      /\ UNCHANGED <<caedVars, running, tape, to_catch>>

LEMMA LocalIs ==
  ASSUME NEW s, Local(s), NEW ev, NEW dk, NEW c, s.events = ev, s.deck = dk, s.cmds = c, s.wild = FALSE
  PROVE  Left(ev, dk, c)
BY DEF Local, Become, Left

LEMMA OwnIndex ==
  ASSUME CatchTypeOK, NEW k \in DOMAIN events
  PROVE  GetEvent(Daemon, events[k].id) = k /\ k # 0
<1>1. /\ Daemon \in Daemons /\ Unique(Daemon.events) /\ Daemon.events = events
  BY DaemonType
<1>2. GetEvent(Daemon, events[k].id) # 0 /\ 0 \notin DOMAIN events
  BY <1>1, GetEventIs
<1>3. /\ GetEvent(Daemon, events[k].id) \in DOMAIN events
      /\ events[GetEvent(Daemon, events[k].id)].id = events[k].id
  BY <1>1, <1>2, GetEventIs
<1> QED BY <1>1, <1>2, <1>3 DEF Unique

LEMMA EngineLeaves ==
  ASSUME CatchTypeOK, NEW k \in DOMAIN events, NEW e, e = events[k], NEW p, p = e.deck, engineData(k)
  PROVE  /\ Input /\ ~IsDynamic(e) /\ UNCHANGED leaked
         /\ IF e.start = "hard"
            THEN IF Available(deck[p])
                 THEN Left([events EXCEPT ![k] = Recorded(e)], [deck EXCEPT ![p] = For(deck[p], e.id)], Loads(p, e.id))
                 ELSE Left(events, deck, <<>>)
            ELSE Left([events EXCEPT ![k] = Opened(e)], [deck EXCEPT ![p] = WaitsFor(deck[p], e.id)], <<>>)
<1>1. /\ Input /\ ~IsDynamic(e) /\ UNCHANGED leaked /\ Local(EngineData(Daemon, e.id))
  BY DEF engineData
<1>2. /\ Daemon \in Daemons /\ Unique(Daemon.events) /\ Daemon.events = events /\ Daemon.deck = deck
      /\ Daemon.cmds = <<>> /\ Daemon.wild = FALSE
  BY DaemonType
<1>3. GetEvent(Daemon, e.id) = k /\ k # 0
  BY OwnIndex
<1>4. EngineData(Daemon, e.id) = IF e.start = "hard" THEN StartRecording(Daemon, k) ELSE OpenWindow(Daemon, k)
  BY <1>2, <1>3, EngineDataIs
<1> DEFINE c == Loads(p, e.id)
<1>5. c = <<Cmd("LR", p, e.id), Cmd("RD", p, e.id)>> /\ <<>> \o c = c
  BY DEF Loads
<1> HIDE DEF c
<1>6. CASE e.start = "hard"
  <2> DEFINE r == StartRecording(Daemon, k)
  <2>1. Local(r)
    BY <1>1, <1>4, <1>6
  <2>2. IF Available(deck[p])
         THEN /\ r.events = [events EXCEPT ![k] = Recorded(e)]
              /\ r.deck = [deck EXCEPT ![p] = For(deck[p], e.id)]
              /\ r.cmds = c /\ r.wild = FALSE
         ELSE r = Daemon
    BY <1>2, <1>5, StartRecordingIs
  <2> HIDE DEF r
  <2> QED BY <1>1, <1>2, <1>6, <2>1, <2>2, LocalIs DEF c
<1>7. CASE e.start # "hard"
  <2> DEFINE r == OpenWindow(Daemon, k)
  <2>1. Local(r)
    BY <1>1, <1>4, <1>7
  <2>2. /\ r.events = [events EXCEPT ![k] = Opened(e)]
        /\ r.deck = [deck EXCEPT ![p] = WaitsFor(deck[p], e.id)]
        /\ r.cmds = <<>> /\ r.wild = FALSE
    BY <1>2, OpenWindowIs
  <2> HIDE DEF r
  <2> QED BY <1>1, <1>7, <2>1, <2>2, LocalIs
<1> QED BY <1>6, <1>7

LEMMA GpiLeaves ==
  ASSUME CatchTypeOK, NEW k \in DOMAIN events, NEW e, e = events[k], NEW p, p = e.deck, gpiStart(k)
  PROVE  /\ Input /\ e.window /\ UNCHANGED leaked
         /\ \/ Left([events EXCEPT ![k] = Delayed(e)], deck, <<>>)
            \/ /\ Available(deck[p])
               /\ Left([events EXCEPT ![k] = Taken(e)], [deck EXCEPT ![p] = For(deck[p], e.id)], Loads(p, e.id))
            \/ ~Available(deck[p]) /\ Left(events, deck, <<>>)
<1>1. /\ Input /\ e.window /\ UNCHANGED leaked
      /\ Local(IF e.offset THEN [Daemon EXCEPT !.events[k].delay = TRUE, !.events[k].window = FALSE]
               ELSE Started(Daemon, k))
  BY DEF gpiStart
<1>2. /\ Daemon \in Daemons /\ Daemon.events = events /\ Daemon.deck = deck
      /\ Daemon.cmds = <<>> /\ Daemon.wild = FALSE
  BY DaemonType
<1> DEFINE c == Loads(p, e.id)
<1>5. c = <<Cmd("LR", p, e.id), Cmd("RD", p, e.id)>> /\ <<>> \o c = c
  BY DEF Loads
<1> HIDE DEF c
<1>6. CASE e.offset
  <2> DEFINE r == [Daemon EXCEPT !.events[k].delay = TRUE, !.events[k].window = FALSE]
  <2>1. Local(r)
    BY <1>1, <1>6
  <2>2. r.events = [events EXCEPT ![k] = Delayed(e)] /\ r.deck = deck /\ r.cmds = <<>> /\ r.wild = FALSE
    BY <1>2 DEF Delayed, Daemons
  <2> HIDE DEF r
  <2> QED BY <1>1, <2>1, <2>2, LocalIs
<1>7. CASE ~e.offset
  <2> DEFINE r == Started(Daemon, k)
  <2>1. Local(r)
    BY <1>1, <1>7
  <2>2. IF Available(deck[p])
         THEN /\ r.events = [events EXCEPT ![k] = Taken(e)]
              /\ r.deck = [deck EXCEPT ![p] = For(deck[p], e.id)]
              /\ r.cmds = c /\ r.wild = FALSE
         ELSE r = Daemon
    BY <1>2, <1>5, StartedIs
  <2> HIDE DEF r
  <2> QED BY <1>1, <1>2, <2>1, <2>2, LocalIs DEF c
<1> QED BY <1>6, <1>7

LEMMA DueLeaves ==
  ASSUME CatchTypeOK, NEW k \in DOMAIN events, NEW e, e = events[k], NEW p, p = e.deck, offsetTimerData(k)
  PROVE  /\ Input /\ e.delay /\ UNCHANGED leaked
         /\ IF Available(deck[p])
            THEN Left([events EXCEPT ![k] = DueNow(e)], [deck EXCEPT ![p] = For(deck[p], e.id)], Loads(p, e.id))
            ELSE Left([events EXCEPT ![k] = Due(e)], deck, <<>>)
<1> DEFINE r == [Started(Daemon, k) EXCEPT !.events[k].delay = FALSE]
<1>1. /\ Input /\ e.delay /\ UNCHANGED leaked /\ Local(r)
  BY DEF offsetTimerData
<1>2. /\ Daemon \in Daemons /\ Daemon.events = events /\ Daemon.deck = deck
      /\ Daemon.cmds = <<>> /\ Daemon.wild = FALSE /\ e \in Events /\ e = Daemon.events[k]
  BY DaemonType
<1> DEFINE c == Loads(p, e.id)
<1>5. c = <<Cmd("LR", p, e.id), Cmd("RD", p, e.id)>> /\ <<>> \o c = c
  BY DEF Loads
<1> HIDE DEF c
<1>6. CASE Available(deck[p])
  <2>1. /\ r.events = [events EXCEPT ![k] = DueNow(e)]
        /\ r.deck = [deck EXCEPT ![p] = For(deck[p], e.id)]
        /\ r.cmds = c /\ r.wild = FALSE
    BY <1>2, <1>5, <1>6 DEF Started, StartRecording, Daemons, DueNow, For
  <2> HIDE DEF r
  <2> QED BY <1>1, <1>6, <2>1, LocalIs DEF c
<1>7. CASE ~Available(deck[p])
  <2>1. r.events = [events EXCEPT ![k] = Due(e)] /\ r.deck = deck /\ r.cmds = <<>> /\ r.wild = FALSE
    BY <1>2, <1>7 DEF Started, Daemons, Due
  <2> HIDE DEF r
  <2> QED BY <1>1, <1>7, <2>1, LocalIs
<1> QED BY <1>6, <1>7

LEMMA WindowLeaves ==
  ASSUME CatchTypeOK, NEW k \in DOMAIN events, NEW e, e = events[k], NEW p, p = e.deck, startTimerData(k)
  PROVE  /\ Loop /\ e.window /\ UNCHANGED leaked
         /\ Left([events EXCEPT ![k] = Shut(e)], [deck EXCEPT ![p] = Freed(deck[p])], <<>>)
<1> DEFINE r == [CloseWindow(Daemon, e.id) EXCEPT !.events[k].window = FALSE]
<1>1. /\ Loop /\ e.window /\ UNCHANGED leaked /\ Local(r)
  BY DEF startTimerData
<1>2. /\ Daemon \in Daemons /\ Daemon.events = events /\ Daemon.deck = deck
      /\ Daemon.cmds = <<>> /\ Daemon.wild = FALSE /\ e \in Events /\ e = Daemon.events[k]
  BY DaemonType
<1>3. GetEvent(Daemon, e.id) = k /\ k # 0
  BY OwnIndex
<1>4. /\ r.events = [events EXCEPT ![k] = Shut(e)] /\ r.deck = [deck EXCEPT ![p] = Freed(deck[p])]
      /\ r.cmds = <<>> /\ r.wild = FALSE
  BY <1>2, <1>3 DEF CloseWindow, Daemons, Shut, Freed
<1> HIDE DEF r
<1> QED BY <1>1, <1>4, LocalIs

LEMMA CloseLeaves ==
  ASSUME CatchTypeOK, NEW k \in DOMAIN events, NEW e, e = events[k], NEW p, p = e.deck,
         Local(CloseWindow(Daemon, e.id))
  PROVE  Left([events EXCEPT ![k] = Closed(e)], [deck EXCEPT ![p] = Freed(deck[p])], <<>>)
<1> DEFINE r == CloseWindow(Daemon, e.id)
<1>1. /\ Daemon \in Daemons /\ Unique(Daemon.events) /\ Daemon.events = events /\ Daemon.deck = deck
      /\ Daemon.cmds = <<>> /\ Daemon.wild = FALSE
  BY DaemonType
<1>2. k = GetEvent(Daemon, e.id) /\ k # 0
  BY OwnIndex
<1>3. /\ r.events = [events EXCEPT ![k] = Closed(e)] /\ r.deck = [deck EXCEPT ![p] = Freed(deck[p])]
      /\ r.cmds = <<>> /\ r.wild = FALSE
  BY <1>1, <1>2, CloseWindowIs, SMTT(30)
<1> HIDE DEF r
<1> QED BY <1>3, LocalIs DEF r

LEMMA RmlLeaves ==
  ASSUME CatchTypeOK, NEW p \in Ports, Local(StartRmlRecording(Daemon, p)), Available(deck[p]),
         \A k \in DOMAIN events : ~IsDynamic(events[k])
  PROVE  Left(Append(events, RmlStarted(p)), [deck EXCEPT ![p] = For(deck[p], Base)], Loads(p, Base))
<1> DEFINE r == StartRmlRecording(Daemon, p)
           c == Loads(p, Base)
<1>1. /\ Daemon \in Daemons /\ Daemon.events = events /\ Daemon.deck = deck
      /\ Daemon.cmds = <<>> /\ Daemon.wild = FALSE
  BY DaemonType
<1>2. c = <<Cmd("LR", p, Base), Cmd("RD", p, Base)>> /\ <<>> \o c = c
  BY DEF Loads
<1> HIDE DEF c
<1>3. /\ r.events = Append(events, RmlStarted(p)) /\ r.deck = [deck EXCEPT ![p] = For(deck[p], Base)]
      /\ r.cmds = c /\ r.wild = FALSE
  <2>1. /\ r = StartRmlRecording(Daemon, p) /\ Available(Daemon.deck[p])
        /\ ~\E k \in DOMAIN Daemon.events : IsDynamic(Daemon.events[k])
    BY <1>1
  <2> HIDE DEF r
  <2>2. /\ r.events = Append(Daemon.events, RmlStarted(p))
        /\ r.deck = [Daemon.deck EXCEPT ![p] = For(Daemon.deck[p], Base)]
        /\ r.cmds = Daemon.cmds \o <<Cmd("LR", p, Base), Cmd("RD", p, Base)>>
        /\ r.wild = Daemon.wild
    BY <1>1, <2>1, StartRmlIs, ZenonT(60)
  <2> QED BY <1>1, <1>2, <2>2
<1> HIDE DEF r
<1> QED BY <1>3, LocalIs DEF r, c

(* The fields of a daemon with one of them replaced                              *)
LEMMA PlainIs ==
  ASSUME CatchTypeOK
  PROVE  /\ \A c \in Seq(Orders) : Local([Daemon EXCEPT !.cmds = c]) => Left(events, deck, c)
         /\ \A ev \in Seq(Events) : Local([Daemon EXCEPT !.events = ev]) => Left(ev, deck, <<>>)
         /\ \A dk : Local([Daemon EXCEPT !.deck = dk]) => Left(events, dk, <<>>)
<1>1. /\ Daemon \in Daemons /\ Daemon.events = events /\ Daemon.deck = deck
      /\ Daemon.cmds = <<>> /\ Daemon.wild = FALSE
  BY DaemonType
<1>2. ASSUME NEW c \in Seq(Orders), Local([Daemon EXCEPT !.cmds = c]) PROVE Left(events, deck, c)
  BY <1>1, <1>2 DEF Daemons, Local, Become, Left
<1>3. ASSUME NEW ev \in Seq(Events), Local([Daemon EXCEPT !.events = ev]) PROVE Left(ev, deck, <<>>)
  BY <1>1, <1>3 DEF Daemons, Local, Become, Left
<1>4. ASSUME NEW dk, Local([Daemon EXCEPT !.deck = dk]) PROVE Left(events, dk, <<>>)
  BY <1>1, <1>4 DEF Daemons, Local, Become, Left
<1> QED BY <1>2, <1>3, <1>4

LEMMA StopLeaves ==
  ASSUME CatchTypeOK, NEW k \in DOMAIN events, NEW p, p = events[k].deck, gpiEnd(k)
  PROVE  /\ Input /\ Settled(p) /\ UNCHANGED leaked /\ Left(events, deck, <<Cmd("SR", p, 0)>>) /\ p \in Ports
<1>1. /\ Input /\ Settled(p) /\ UNCHANGED leaked /\ Local([Daemon EXCEPT !.cmds = <<Cmd("SR", p, 0)>>])
  BY DEF gpiEnd
<1>2. p \in Ports
  BY DaemonType, FieldTypes
<1>3. <<Cmd("SR", p, 0)>> \in Seq(Orders)
  BY <1>2, CmdType
<1> QED BY <1>1, <1>2, <1>3, PlainIs

Aborted(d) == [d EXCEPT !.aborting = TRUE]
Awaits(d) == [d EXCEPT !.pending = TRUE]
LEMMA AbortLeaves ==
  ASSUME CatchTypeOK, NEW p \in Ports, abort(p)
  PROVE  /\ Input /\ Settled(p) /\ deck[p].status = "Recording" /\ UNCHANGED leaked
         /\ Left(events, [deck EXCEPT ![p] = Aborted(deck[p])], <<Cmd("SR", p, 0)>>)
<1> DEFINE r == Abort(Daemon, p)
<1>1. /\ Input /\ Settled(p) /\ deck[p].status = "Recording" /\ UNCHANGED leaked /\ Local(r)
  BY DEF abort
<1>2. /\ Daemon \in Daemons /\ Daemon.events = events /\ Daemon.deck = deck
      /\ Daemon.cmds = <<>> /\ Daemon.wild = FALSE
  BY DaemonType
<1>3. /\ r.events = events /\ r.deck = [deck EXCEPT ![p] = Aborted(deck[p])]
      /\ r.cmds = <<Cmd("SR", p, 0)>> /\ r.wild = FALSE
  BY <1>2 DEF Abort, AbortCmds, Aborted, Daemons
<1> HIDE DEF r
<1> QED BY <1>1, <1>3, LocalIs

LEMMA PendingLeaves ==
  ASSUME CatchTypeOK, NEW p \in Ports, Local([Daemon EXCEPT !.deck[p].pending = TRUE])
  PROVE  Left(events, [deck EXCEPT ![p] = Awaits(deck[p])], <<>>)
<1>1. /\ Daemon \in Daemons /\ Daemon.events = events /\ Daemon.deck = deck
      /\ Daemon.cmds = <<>> /\ Daemon.wild = FALSE
  BY DaemonType
<1> DEFINE r == [Daemon EXCEPT !.deck[p].pending = TRUE]
<1>2. r.events = events /\ r.deck = [deck EXCEPT ![p] = Awaits(deck[p])] /\ r.cmds = <<>> /\ r.wild = FALSE
  BY <1>1 DEF Awaits, Daemons
<1> HIDE DEF r
<1> QED BY <1>2, LocalIs DEF r

(* RemoveEvent() and UpdateEvent() leave every other event.                      *)
LEMMA WithoutIs ==
  ASSUME CatchTypeOK, NEW id
  PROVE  /\ Without(id) \in Seq(Events) /\ Unique(Without(id))
         /\ \A j \in DOMAIN Without(id) : \E i \in DOMAIN events : events[i].id # id /\ Without(id)[j] = events[i]
         /\ \A i \in DOMAIN events : events[i].id # id => \E j \in DOMAIN Without(id) : Without(id)[j] = events[i]
<1>1. /\ Daemon \in Daemons /\ Unique(Daemon.events) /\ Daemon.events = events /\ events \in Seq(Events)
  BY DaemonType DEF CatchTypeOK
<1> DEFINE k == GetEvent(Daemon, id)
<1>2. /\ k = 0 => \A j \in DOMAIN events : events[j].id # id
      /\ k # 0 => k \in DOMAIN events /\ events[k].id = id
  BY <1>1, GetEventIs
<1>3. Without(id) = IF k = 0 THEN events ELSE RemoveAt(events, k)
  BY DEF Without
<1> HIDE DEF k
<1>4. CASE k = 0
  BY <1>1, <1>2, <1>3, <1>4
<1>5. CASE k # 0
  <2> DEFINE u == RemoveAt(events, k)
  <2>1. /\ u \in Seq(Events) /\ Unique(u)
        /\ \A j \in DOMAIN u : \E i \in DOMAIN events : i # k /\ u[j] = events[i]
        /\ \A i \in DOMAIN events : i # k => \E j \in DOMAIN u : u[j] = events[i]
    BY <1>1, <1>2, <1>5, UniqueRemove
  <2>2. \A i \in DOMAIN events : i # k <=> events[i].id # id
    BY <1>1, <1>2, <1>5 DEF Unique
  <2>3. Without(id) = u
    BY <1>3, <1>5
  <2> HIDE DEF u
  <2> QED BY <2>1, <2>2, <2>3
<1> QED BY <1>4, <1>5

LEMMA RemoveLeaves ==
  ASSUME CatchTypeOK, NEW n \in DOMAIN Schedule, NEW id, id = Schedule[n].id, RemoveEvent(n)
  PROVE  /\ Loop /\ Editable(n) /\ ("edits" \in Overlap \/ ~Waits(n)) /\ leaked' = leaked \cup Leaks(id)
         /\ Left(Without(id), deck, <<>>)
<1>1. /\ Loop /\ Editable(n) /\ ("edits" \in Overlap \/ ~Waits(n)) /\ leaked' = leaked \cup Leaks(id)
      /\ Local([Daemon EXCEPT !.events = Without(id)])
  BY DEF RemoveEvent
<1> QED BY <1>1, WithoutIs, PlainIs

LEMMA ScheduleFacts ==
  /\ \A n \in DOMAIN Schedule : /\ Schedule[n] \in Events /\ Schedule[n] \in Fresh
                                /\ Schedule[n].id \in Nat /\ Schedule[n].id < Base /\ Schedule[n].id # 0
  /\ Schedule \in Seq(Events) /\ Unique(Schedule)
<1>1. Schedule \in Seq(Fresh) /\ Fresh \subseteq Events /\ Base \in Nat
  BY CatchAssumption DEF Fresh
<1>2. \A n \in DOMAIN Schedule : Schedule[n] \in Fresh
  BY <1>1, LenProperties, ElementOfSeq
<1>3. Schedule \in Seq(Events)
  BY <1>1, SeqSubset
<1>4. \A n \in DOMAIN Schedule : Schedule[n].id \in Nat /\ Schedule[n].id < Base /\ Schedule[n].id # 0
  BY <1>1, CatchAssumption
<1> QED BY <1>1, <1>2, <1>3, <1>4, CatchAssumption DEF Unique

LEMMA UpdateLeaves ==
  ASSUME CatchTypeOK, NEW n \in DOMAIN Schedule, NEW id, id = Schedule[n].id, UpdateEvent(n)
  PROVE  /\ Loop /\ Editable(n) /\ leaked' = leaked \cup Leaks(id)
         /\ Append(Without(id), Schedule[n]) \in Seq(Events) /\ Unique(Append(Without(id), Schedule[n]))
         /\ Left(Append(Without(id), Schedule[n]), deck, <<>>)
<1> DEFINE ev == Append(Without(id), Schedule[n])
<1>1. /\ Loop /\ Editable(n) /\ leaked' = leaked \cup Leaks(id)
      /\ Local([Daemon EXCEPT !.events = ev])
  BY DEF UpdateEvent
<1>2. /\ Without(id) \in Seq(Events) /\ Unique(Without(id))
      /\ \A j \in DOMAIN Without(id) : Without(id)[j].id # id
  BY WithoutIs
<1>3. ev \in Seq(Events) /\ Unique(ev)
  BY <1>2, UniqueAppend, ScheduleFacts
<1> QED BY <1>1, <1>3, PlainIs

Listed(d) == IF d.status = "Recording" THEN d ELSE [d EXCEPT !.status = "Idle"]
LEMMA ListLeaves ==
  ASSUME CatchTypeOK, LoadDeckList
  PROVE  /\ Loop /\ (\A p \in Ports : deck[p].status # "Waiting" \/ "edits" \in Overlap) /\ UNCHANGED leaked
         /\ Left(events, [p \in Ports |-> Listed(deck[p])], <<>>)
<1> DEFINE dk == [p \in Ports |-> IF deck[p].status = "Recording" THEN deck[p] ELSE [deck[p] EXCEPT !.status = "Idle"]]
<1>1. /\ Loop /\ (\A p \in Ports : deck[p].status # "Waiting" \/ "edits" \in Overlap) /\ UNCHANGED leaked
      /\ Local([Daemon EXCEPT !.deck = dk])
  BY DEF LoadDeckList
<1>2. dk = [p \in Ports |-> Listed(deck[p])]
  BY DEF Listed
<1> HIDE DEF dk
<1> QED BY <1>1, <1>2, PlainIs

--------------------------------------------------------------------------------
(* caed's other steps.                                                           *)

LEMMA RecordTimerIs ==
  ASSUME TypeOK, NEW p \in Ports, recordTimer(p)
  PROVE  /\ ~wild /\ ("messages" \in Overlap \/ ~Stopping(p)) /\ Next
         /\ UNCHANGED <<running, events, deck, leaked, tape, wild, to_caed, record_owner>>
         /\ record_timer' = [record_timer EXCEPT ![p] = "off"]
         /\ IF record_owner[p] = Self THEN Says(Cmd("SR", p, 0)) ELSE Silent
<1>1. /\ ~wild /\ ("messages" \in Overlap \/ ~Stopping(p)) /\ alsaRecordTimerData(p) /\ Replied
      /\ UNCHANGED <<running, events, deck, leaked, tape, wild, to_caed>>
  BY DEF recordTimer
<1>2. /\ record_timer' = [record_timer EXCEPT ![p] = "off"] /\ UNCHANGED record_owner
      /\ sent' = stateRecordUpdate(p, "SR")
  BY <1>1 DEF alsaRecordTimerData
<1>3. Next
  BY <1>1 DEF Next
<1>4. /\ sent' = <<>> => Silent
      /\ \A ch, cmd, arg, ok : sent' = <<Reply(ch, cmd, arg, ok)>> =>
           IF ch = Self /\ cmd \in {"LR", "UR", "RS", "SR"}
           THEN Says(Cmd(cmd, arg, IF cmd = "UR" THEN tape[arg] ELSE 0)) ELSE Silent
  BY <1>1, RepliedIs, Zenon
<1>5. IF record_owner[p] = Self THEN Says(Cmd("SR", p, 0)) ELSE Silent
  <2>1. CASE record_owner[p] = None
    BY <1>2, <1>4, <2>1, Connections DEF stateRecordUpdate
  <2>2. CASE record_owner[p] # None
    <3>1. sent' = <<Reply(record_owner[p], "SR", p, TRUE)>>
      BY <1>2, <2>2 DEF stateRecordUpdate
    <3> QED BY <1>4, <3>1
  <2> QED BY <2>1, <2>2
<1> QED BY <1>1, <1>2, <1>3, <1>5

LEMMA OtherStopsIs ==
  ASSUME NEW p \in Ports, OtherStops(p)
  PROVE  /\ ~wild /\ Next /\ Silent
         /\ UNCHANGED <<running, events, deck, leaked, tape, wild, to_caed, record_owner>>
         /\ record_timer' = [record_timer EXCEPT ![p] = Outlive(@)]
<1>1. /\ ~wild /\ StopRecord(Other, p) /\ Replied
      /\ UNCHANGED <<running, events, deck, leaked, tape, wild, to_caed>>
  BY DEF OtherStops
<1>2. /\ record_timer' = [record_timer EXCEPT ![p] = Outlive(@)] /\ UNCHANGED record_owner
      /\ sent' = <<Reply(Other, "SR", p, TRUE)>>
  BY <1>1 DEF StopRecord
<1>3. Next
  BY <1>1, Connections DEF Next, RecordCommand
<1>4. \A ch, cmd, arg, ok : sent' = <<Reply(ch, cmd, arg, ok)>> =>
           IF ch = Self /\ cmd \in {"LR", "UR", "RS", "SR"}
           THEN Says(Cmd(cmd, arg, IF cmd = "UR" THEN tape[arg] ELSE 0)) ELSE Silent
  BY <1>1, RepliedIs, Zenon
<1>5. Silent
  BY <1>2, <1>4, Connections
<1> QED BY <1>1, <1>2, <1>3, <1>5

LEMMA OtherConnectsIs ==
  ASSUME OtherConnects
  PROVE  /\ ~wild /\ Next
         /\ UNCHANGED <<running, events, deck, leaked, tape, wild, to_caed, to_catch, record_owner, record_timer>>
<1>1. CASE newConnection(Other)
  BY <1>1, Connections DEF OtherConnects, newConnection, recVars, Next, ConnectionStep
<1>2. CASE Password(Other, TRUE)
  BY <1>2, Connections DEF OtherConnects, Password, recVars, Next, ConnectionStep
<1> QED BY <1>1, <1>2 DEF OtherConnects

LEMMA StartDaemonIs ==
  ASSUME startDaemon
  PROVE  /\ ~running /\ running' /\ Next /\ UNCHANGED <<tape, wild, to_catch, record_owner, record_timer>>
         /\ socket' = socket \cup {Self} /\ Self \notin socket
         /\ events' = Schedule /\ deck' = [p \in Ports |-> IdleDeck] /\ leaked' = {}
         /\ to_caed' = <<Cmd("PW", None, 0)>>
<1>1. /\ newConnection(Self)
  BY DEF startDaemon
<1>2. Next /\ UNCHANGED <<record_owner, record_timer>> /\ socket' = socket \cup {Self} /\ Self \notin socket
  BY <1>1, Connections DEF Next, ConnectionStep, newConnection, recVars
<1> QED BY <1>2 DEF startDaemon

LEMMA ClosedIs ==
  ASSUME connectionClosed, TypeOK
  PROVE  /\ ~running /\ Next /\ to_caed' = <<>> /\ UNCHANGED <<running, events, deck, leaked, tape, wild, to_catch>>
         /\ \A p \in Ports : record_owner'[p] = IF record_owner[p] = Self THEN None ELSE record_owner[p]
<1>1. KillSocket(Self)
  BY DEF connectionClosed
<1>2. Next
  BY <1>1, Connections DEF Next, ConnectionStep
<1>3. \A p \in Ports : record_owner'[p] = IF record_owner[p] = Self THEN None ELSE record_owner[p]
  BY <1>1 DEF KillSocket
<1> QED BY <1>2, <1>3 DEF connectionClosed

(* Every step of the composition is a step of caed or leaves it alone.           *)
LEMMA CaedSteps ==
  ASSUME TypeOK, Carried, [CatchNext]_catchVars
  PROVE  [Next]_vars
<1>1. CASE Serve
  BY <1>1, ServeIs
<1>2. CASE \E p \in Ports : recordTimer(p) \/ OtherStops(p)
  BY <1>2, RecordTimerIs, OtherStopsIs
<1>3. CASE OtherConnects \/ startDaemon \/ connectionClosed
  BY <1>3, OtherConnectsIs, StartDaemonIs, ClosedIs
<1>4. CASE Exit \/ readyData \/ LoadDeckList
  BY <1>4 DEF Exit, readyData, LoadDeckList, Local, caedVars
<1>5. CASE \E p \in Ports : abort(p) \/ cancel(p) \/ RmlRecord(p)
  BY <1>5 DEF abort, cancel, RmlRecord, Local, caedVars
<1>6. CASE \E k \in DOMAIN events : \/ engineData(k) \/ gpiStart(k) \/ gpiEnd(k)
                                    \/ startTimerData(k) \/ offsetTimerData(k)
  BY <1>6 DEF engineData, gpiStart, gpiEnd, startTimerData, offsetTimerData, Local, caedVars
<1>7. CASE \E n \in DOMAIN Schedule : RemoveEvent(n) \/ UpdateEvent(n)
  BY <1>7 DEF RemoveEvent, UpdateEvent, Local, caedVars
<1>8. CASE \E id \in leaked : leakedTimer(id)
  BY <1>8 DEF leakedTimer, Local, caedVars
<1>9. CASE UNCHANGED catchVars
  BY <1>9 DEF catchVars, caedVars
<1> QED BY <1>1, <1>2, <1>3, <1>4, <1>5, <1>6, <1>7, <1>8, <1>9 DEF CatchNext

--------------------------------------------------------------------------------
(* Type correctness.                                                             *)

LEMMA LeftTyped ==
  ASSUME TypesInv, TypeInv', PortsAccounted', NEW ev \in Seq(Events), Unique(ev),
         NEW dk \in [Ports -> RecordDecks], NEW c \in Seq(Orders), Left(ev, dk, c), leaked' \subseteq Nat
  PROVE  TypesInv'
<1>1. to_caed' \in Seq(Asked)
  <2>1. to_caed \in Seq(Asked) /\ to_caed' = to_caed \o c
    BY DEF TypesInv, Carried, Left
  <2>2. c \in Seq(Asked)
    BY SeqSubset DEF Asked
  <2> QED BY <2>1, <2>2, ConcatProperties
<1>2. to_catch' \in Seq(Told)
  BY DEF TypesInv, Carried, Left
<1>3. to_caed' \in Seq(Msgs) /\ to_catch' \in Seq(Msgs)
  BY <1>1, <1>2, SeqSubset, CarriedTypes
<1>4. CatchTypeOK'
  BY <1>3 DEF TypesInv, CatchTypeOK, Left, Unique
<1> QED BY <1>1, <1>2, <1>4 DEF TypesInv, Carried

LEMMA Handled ==
  ASSUME TypesInv, NEW s, Typed(s), Local(s), leaked' \subseteq Nat
  PROVE  TypesInv'
<1>1. to_catch' \in Seq(Told)
  BY DEF TypesInv, Carried, Local
<1> QED BY <1>1, BecomeTyped DEF Local

LEMMA ReplyFor ==
  /\ \A c \in {"LR", "RS", "SR", "UR"}, p \in Ports, n \in Nat : Cmd(c, p, n) \in Told
  /\ <<Cmd("PW", None, 0)>> \in Seq(Asked) /\ <<>> \in Seq(Told) /\ <<>> \in Seq(Asked)
<1>1. ASSUME NEW c \in {"LR", "RS", "SR", "UR"}, NEW p \in Ports, NEW n \in Nat PROVE Cmd(c, p, n) \in Told
  BY DEF Cmd, Told
<1> DEFINE m == Cmd("PW", None, 0)
<1>2. m \in Asked
  BY DEF Asked
<1> HIDE DEF m
<1>3. <<m>> \in Seq(Asked)
  BY <1>2
<1> QED BY <1>1, <1>3, EmptySeq DEF m

(* What a step of caed leaves of the composition                                 *)
LEMMA CaedTyped ==
  ASSUME TypesInv, TypeInv', PortsAccounted', UNCHANGED <<running, events, deck, leaked>>,
         wild' \in BOOLEAN, tape' \in [Ports -> Nat], to_caed' \in Seq(Asked), to_catch' \in Seq(Told)
  PROVE  TypesInv'
<1>1. to_caed' \in Seq(Msgs) /\ to_catch' \in Seq(Msgs)
  BY SeqSubset, CarriedTypes
<1>2. CatchTypeOK'
  BY <1>1 DEF TypesInv, CatchTypeOK
<1> QED BY <1>2 DEF TypesInv, Carried

LEMMA SaysTyped ==
  ASSUME Carried
  PROVE  /\ Silent => to_catch' \in Seq(Told)
         /\ \A m \in Told : Says(m) => to_catch' \in Seq(Told)
<1>1. Silent => to_catch' \in Seq(Told)
  BY ReplyFor DEF Silent, Carried
<1>2. ASSUME NEW m \in Told, Says(m) PROVE to_catch' \in Seq(Told)
  <2> DEFINE q == Append(to_catch, m)
  <2>1. q \in Seq(Told)
    BY AppendFacts DEF Carried
  <2>2. to_catch' = IF running THEN q ELSE <<>>
    BY <1>2 DEF Says
  <2> HIDE DEF q
  <2> QED BY <2>1, <2>2, ReplyFor
<1> QED BY <1>1, <1>2

LEMMA ServeTyped ==
  ASSUME TypesInv, TypeInv', PortsAccounted', Serve
  PROVE  TypesInv'
<1> DEFINE m == Head(to_caed)
           p == m.port
<1>1. /\ ~wild /\ to_caed # <<>> /\ to_caed' = Tail(to_caed) /\ m \in Asked
      /\ UNCHANGED <<running, events, deck, leaked>>
      /\ \/ m.cmd = "PW" /\ ServePassword
         \/ /\ p \in Ports
            /\ \/ m.cmd = "LR" /\ ServeLoad(p, m.cut)
               \/ m.cmd = "RD" /\ ServeRecord(p)
               \/ m.cmd = "SR" /\ ServeStop(p)
               \/ m.cmd = "UR" /\ ServeUnload(p)
  BY ServeIs DEF TypesInv
<1> HIDE DEF m, p
<1>2. m.cut \in Nat /\ wild \in BOOLEAN /\ tape \in [Ports -> Nat] /\ to_catch \in Seq(Told) /\ Carried
  BY <1>1 DEF Asked, Orders, Cmd, TypesInv, CatchTypeOK, Carried
<1>3. to_caed' \in Seq(Asked)
  BY <1>1, <1>2, TailFacts DEF Carried
<1>4. CASE m.cmd = "PW" /\ ServePassword
  BY <1>1, <1>2, <1>3, <1>4, CaedTyped, SaysTyped DEF ServePassword
<1>5. CASE p \in Ports /\ ServeLoad(p, m.cut)
  <2>1. tape' \in [Ports -> Nat] /\ UNCHANGED wild /\ Says(Cmd("LR", p, 0))
    BY <1>2, <1>5 DEF ServeLoad
  <2>2. Cmd("LR", p, 0) \in Told
    BY <1>5, ReplyFor
  <2> QED BY <1>1, <1>2, <1>3, <2>1, <2>2, CaedTyped, SaysTyped
<1>6. CASE p \in Ports /\ ServeRecord(p)
  <2>1. UNCHANGED <<tape, wild>> /\ Says(Cmd("RS", p, 0))
    BY <1>6 DEF ServeRecord
  <2>2. Cmd("RS", p, 0) \in Told
    BY <1>6, ReplyFor
  <2> QED BY <1>1, <1>2, <1>3, <2>1, <2>2, CaedTyped, SaysTyped
<1>7. CASE p \in Ports /\ ServeStop(p)
  <2>1. UNCHANGED <<tape, wild>> /\ (Says(Cmd("SR", p, 0)) \/ Silent)
    BY <1>7 DEF ServeStop
  <2>2. Cmd("SR", p, 0) \in Told
    BY <1>7, ReplyFor
  <2> QED BY <1>1, <1>2, <1>3, <2>1, <2>2, CaedTyped, SaysTyped
<1>8. CASE p \in Ports /\ ServeUnload(p)
  <2>1. UNCHANGED tape /\ wild' \in BOOLEAN /\ (to_catch' = to_catch \/ Says(Cmd("UR", p, tape[p])))
    BY <1>8 DEF ServeUnload
  <2>2. Cmd("UR", p, tape[p]) \in Told
    BY <1>2, <1>8, ReplyFor
  <2> QED BY <1>1, <1>2, <1>3, <2>1, <2>2, CaedTyped, SaysTyped
<1> QED BY <1>1, <1>4, <1>5, <1>6, <1>7, <1>8

LEMMA DecksTyped ==
  ASSUME CatchTypeOK
  PROVE  /\ [p \in Ports |-> IdleDeck] \in [Ports -> RecordDecks]
         /\ [p \in Ports |-> Listed(deck[p])] \in [Ports -> RecordDecks]
         /\ \A p \in Ports : /\ [deck EXCEPT ![p] = Aborted(deck[p])] \in [Ports -> RecordDecks]
                             /\ [deck EXCEPT ![p] = Awaits(deck[p])] \in [Ports -> RecordDecks]
<1>1. deck \in [Ports -> RecordDecks] /\ \A p \in Ports : deck[p] \in RecordDecks
  BY DEF CatchTypeOK
<1>2. IdleDeck \in RecordDecks
  BY DEF IdleDeck, RecordDecks
<1>3. \A d \in RecordDecks : Listed(d) \in RecordDecks /\ Aborted(d) \in RecordDecks /\ Awaits(d) \in RecordDecks
  BY DEF Listed, Aborted, Awaits, RecordDecks
<1> QED BY <1>1, <1>2, <1>3

LEMMA EntryTyped ==
  ASSUME CatchTypeOK, NEW k \in DOMAIN events, NEW e \in Events, e.id = events[k].id
  PROVE  [events EXCEPT ![k] = e] \in Seq(Events) /\ Unique([events EXCEPT ![k] = e])
<1>1. events \in Seq(Events) /\ Unique(events)
  BY DEF CatchTypeOK, Unique
<1> QED BY <1>1, UniqueSet

LEMMA HandlerTyped ==
  ASSUME TypesInv, TypeInv', PortsAccounted', [CatchNext]_catchVars
  PROVE  TypesInv'
<1>1. /\ CatchTypeOK /\ Carried /\ leaked \subseteq Nat /\ events \in Seq(Events) /\ Unique(events)
      /\ deck \in [Ports -> RecordDecks] /\ TypeOK /\ <<>> \in Seq(Orders)
      /\ \A k \in DOMAIN events : events[k] \in Events /\ events[k].deck \in Ports /\ events[k].id \in Nat
      /\ \A p \in Ports : deck[p] \in RecordDecks
  BY DaemonType, FieldTypes, EmptySeq DEF TypesInv, TypeInv, CatchTypeOK, Unique
<1>2. /\ Daemon \in Daemons /\ Unique(Daemon.events) /\ Daemon.events = events /\ Daemon.deck = deck
  BY <1>1, DaemonType
<1>3. CASE Serve
  BY <1>3, ServeTyped
<1>4. ASSUME NEW p \in Ports, recordTimer(p) \/ OtherStops(p) PROVE TypesInv'
  <2>1. /\ UNCHANGED <<running, events, deck, leaked, tape, wild, to_caed>>
        /\ Silent \/ Says(Cmd("SR", p, 0))
    BY <1>1, <1>4, RecordTimerIs, OtherStopsIs
  <2>2. Cmd("SR", p, 0) \in Told
    BY ReplyFor
  <2> QED BY <1>1, <2>1, <2>2, CaedTyped, SaysTyped DEF TypesInv, CatchTypeOK, Carried
<1>5. CASE OtherConnects
  BY <1>5, OtherConnectsIs, CaedTyped DEF TypesInv, CatchTypeOK, Carried
<1>6. CASE connectionClosed
  BY <1>1, <1>6, ClosedIs, CaedTyped, ReplyFor DEF TypesInv, CatchTypeOK, Carried
<1>7. CASE startDaemon
  <2>1. /\ running' = TRUE /\ UNCHANGED <<tape, wild, to_catch>>
        /\ events' = Schedule /\ deck' = [p \in Ports |-> IdleDeck] /\ leaked' = {}
        /\ to_caed' = <<Cmd("PW", None, 0)>>
    BY <1>7 DEF startDaemon
  <2>2. to_caed' \in Seq(Asked) /\ to_catch' \in Seq(Told)
    BY <1>1, <2>1, ReplyFor DEF Carried
  <2>3. to_caed' \in Seq(Msgs) /\ to_catch' \in Seq(Msgs)
    BY <2>2, SeqSubset, CarriedTypes
  <2>4. /\ events' \in Seq(Events) /\ deck' \in [Ports -> RecordDecks] /\ leaked' \subseteq Nat
        /\ \A j, k \in DOMAIN events' : events'[j].id = events'[k].id => j = k
    BY <1>1, <2>1, ScheduleFacts, DecksTyped DEF Unique
  <2>5. CatchTypeOK'
    BY <1>1, <2>1, <2>3, <2>4 DEF CatchTypeOK
  <2> QED BY <2>2, <2>5 DEF TypesInv, Carried
<1>8. CASE Exit
  <2>1. /\ running' = FALSE /\ UNCHANGED <<tape, wild, to_caed>>
        /\ events' = <<>> /\ deck' = [p \in Ports |-> IdleDeck] /\ leaked' = {} /\ to_catch' = <<>>
    BY <1>8 DEF Exit
  <2>2. to_caed' \in Seq(Asked) /\ to_catch' \in Seq(Told)
    BY <1>1, <2>1, ReplyFor DEF Carried
  <2>3. to_caed' \in Seq(Msgs) /\ to_catch' \in Seq(Msgs)
    BY <2>2, SeqSubset, CarriedTypes
  <2>4. events' \in Seq(Events) /\ deck' \in [Ports -> RecordDecks] /\ leaked' \subseteq Nat /\ DOMAIN events' = {}
    BY <1>1, <2>1, DecksTyped
  <2>5. CatchTypeOK'
    BY <1>1, <2>1, <2>3, <2>4 DEF CatchTypeOK
  <2> QED BY <2>2, <2>5 DEF TypesInv, Carried
<1>9. CASE readyData
  <2> DEFINE m == Head(to_catch)
  <2>1. /\ to_catch # <<>> /\ Become(Answered(Daemon, m)) /\ to_catch' = Tail(to_catch)
        /\ UNCHANGED <<caedVars, running, leaked, tape>>
    BY <1>9 DEF readyData
  <2>2. m \in Told /\ to_catch' \in Seq(Told)
    BY <1>1, <2>1, TailFacts DEF Carried
  <2> HIDE DEF m
  <2>3. m.cmd \in {"LR", "RS", "SR", "UR"} /\ m.port \in Ports
    BY <2>2 DEF Told
  <2>4. Typed(Answered(Daemon, m))
    BY <1>2, <2>3, AnswerTyped
  <2>5. leaked' \subseteq Nat
    BY <1>1, <2>1
  <2> QED BY <2>1, <2>2, <2>4, <2>5, BecomeTyped
<1>10. CASE LoadDeckList
  BY <1>1, <1>10, ListLeaves, DecksTyped, LeftTyped
<1>11. ASSUME NEW p \in Ports, abort(p) PROVE TypesInv'
  <2>1. <<Cmd("SR", p, 0)>> \in Seq(Orders)
    BY CmdType
  <2> QED BY <1>1, <1>11, <2>1, AbortLeaves, DecksTyped, LeftTyped
<1>12. ASSUME NEW p \in Ports, cancel(p) PROVE TypesInv'
  <2>1. Local(CloseWindow(Daemon, deck[p].id)) /\ leaked' \subseteq Nat
    BY <1>1, <1>12 DEF cancel
  <2>2. Typed(CloseWindow(Daemon, deck[p].id))
    BY <1>2, EngineTyped
  <2> QED BY <2>1, <2>2, Handled
<1>13. ASSUME NEW p \in Ports, RmlRecord(p) PROVE TypesInv'
  <2>1. leaked' \subseteq Nat
    BY <1>1, <1>13 DEF RmlRecord
  <2>2. CASE Local(StartRmlRecording(Daemon, p))
    BY <1>2, <2>1, <2>2, RmlTyped, Handled
  <2>3. CASE Local([Daemon EXCEPT !.deck[p].pending = TRUE])
    BY <1>1, <2>1, <2>3, PendingLeaves, DecksTyped, LeftTyped
  <2> QED BY <1>13, <2>2, <2>3 DEF RmlRecord
<1>14. ASSUME NEW k \in DOMAIN events, engineData(k) PROVE TypesInv'
  BY <1>1, <1>2, <1>14, EngineTyped, Handled DEF engineData
<1>15. ASSUME NEW k \in DOMAIN events, gpiStart(k) PROVE TypesInv'
  <2>1. CASE events[k].offset
    <3>1. Left([events EXCEPT ![k] = Delayed(events[k])], deck, <<>>) /\ leaked' \subseteq Nat
      <4>1. /\ Local([Daemon EXCEPT !.events[k].delay = TRUE, !.events[k].window = FALSE]) /\ UNCHANGED leaked
        BY <1>15, <2>1 DEF gpiStart
      <4> DEFINE r == [Daemon EXCEPT !.events[k].delay = TRUE, !.events[k].window = FALSE]
      <4>2. /\ r.events = [events EXCEPT ![k] = Delayed(events[k])] /\ r.deck = deck
            /\ r.cmds = <<>> /\ r.wild = FALSE
        BY <1>1, DaemonType DEF Delayed, Daemons
      <4> HIDE DEF r
      <4> QED BY <1>1, <4>1, <4>2, LocalIs DEF r
    <3>2. /\ [events EXCEPT ![k] = Delayed(events[k])] \in Seq(Events)
          /\ Unique([events EXCEPT ![k] = Delayed(events[k])])
      BY <1>1, EntryTyped, FlagTypes
    <3> QED BY <1>1, <3>1, <3>2, LeftTyped
  <2>2. CASE ~events[k].offset
    BY <1>1, <1>2, <1>15, <2>2, StartTyped, Handled DEF gpiStart
  <2> QED BY <2>1, <2>2
<1>16. ASSUME NEW k \in DOMAIN events, gpiEnd(k) PROVE TypesInv'
  <2>1. <<Cmd("SR", events[k].deck, 0)>> \in Seq(Orders)
    BY <1>1, CmdType
  <2> QED BY <1>1, <1>16, <2>1, StopLeaves, LeftTyped
<1>17. ASSUME NEW k \in DOMAIN events, startTimerData(k) PROVE TypesInv'
  <2> DEFINE e == events[k]
             p == e.deck
             dk == [deck EXCEPT ![p] = Freed(deck[p])]
             ev == [events EXCEPT ![k] = Shut(e)]
  <2>1. Left(ev, dk, <<>>) /\ leaked' \subseteq Nat
    BY <1>1, <1>17, WindowLeaves
  <2>2. ev \in Seq(Events) /\ Unique(ev) /\ dk \in [Ports -> RecordDecks]
    BY <1>1, EntryTyped, FlagTypes, FieldTypes, DeckType
  <2> QED BY <1>1, <2>1, <2>2, LeftTyped
<1>18. ASSUME NEW k \in DOMAIN events, offsetTimerData(k) PROVE TypesInv'
  <2> DEFINE e == events[k]
             p == e.deck
             dk == [deck EXCEPT ![p] = For(deck[p], e.id)]
             ev == [events EXCEPT ![k] = DueNow(e)]
             eu == [events EXCEPT ![k] = Due(e)]
             c == Loads(p, e.id)
  <2>1. leaked' \subseteq Nat /\ (Left(ev, dk, c) \/ Left(eu, deck, <<>>))
    BY <1>1, <1>18, DueLeaves
  <2>2. /\ ev \in Seq(Events) /\ Unique(ev) /\ eu \in Seq(Events) /\ Unique(eu)
        /\ dk \in [Ports -> RecordDecks]
    <3>1. e \in Events /\ e.id = events[k].id /\ p \in Ports /\ e.id \in Nat /\ deck[p] \in RecordDecks
      BY <1>1
    <3>2. DueNow(e) \in Events /\ DueNow(e).id = e.id /\ Due(e) \in Events /\ Due(e).id = e.id
      BY <3>1, FlagTypes
    <3>3. For(deck[p], e.id) \in RecordDecks
      BY <3>1, FieldTypes
    <3> HIDE DEF e, p
    <3>4. ev \in Seq(Events) /\ Unique(ev) /\ eu \in Seq(Events) /\ Unique(eu)
      BY <1>1, <3>1, <3>2, EntryTyped
    <3>5. dk \in [Ports -> RecordDecks]
      BY <1>1, <3>1, <3>3, DeckType
    <3> QED BY <3>4, <3>5
  <2>3. c \in Seq(Orders)
    BY <1>1, LoadCmdsType DEF Loads
  <2> HIDE DEF dk, ev, eu, c
  <2> QED BY <1>1, <2>1, <2>2, <2>3, LeftTyped
<1>19. ASSUME NEW n \in DOMAIN Schedule, RemoveEvent(n) \/ UpdateEvent(n) PROVE TypesInv'
  <2> DEFINE id == Schedule[n].id
             w == Without(id)
             u == Append(w, Schedule[n])
  <2>1. w \in Seq(Events) /\ Unique(w)
    BY <1>1, WithoutIs
  <2>2. Leaks(id) \subseteq Nat
    BY <1>1 DEF Leaks
  <2>3. leaked' = leaked \cup Leaks(id) /\ (Left(w, deck, <<>>) \/ (Left(u, deck, <<>>) /\ u \in Seq(Events) /\ Unique(u)))
    BY <1>1, <1>19, RemoveLeaves, UpdateLeaves
  <2> HIDE DEF w, u, id
  <2>4. leaked' \subseteq Nat
    BY <1>1, <2>2, <2>3
  <2> QED BY <1>1, <2>1, <2>3, <2>4, LeftTyped
<1>20. ASSUME NEW id \in leaked, leakedTimer(id) PROVE TypesInv'
  BY <1>1, <1>2, <1>20, EngineTyped, Handled DEF leakedTimer
<1>21. CASE UNCHANGED catchVars
  BY <1>21 DEF catchVars, TypesInv, CatchTypeOK, Carried
<1> QED BY <1>3, <1>4, <1>5, <1>6, <1>7, <1>8, <1>9, <1>10, <1>11, <1>12, <1>13, <1>14, <1>15, <1>16, <1>17,
           <1>18, <1>19, <1>20, <1>21 DEF CatchNext

LEMMA TypesInit == CatchInit => TypesInv
<1> SUFFICES ASSUME CatchInit PROVE TypesInv
  OBVIOUS
<1>1. TypeInv /\ PortsAccounted
  BY TypeInit, PortsInit DEF CatchInit
<1>2. IdleDeck \in RecordDecks /\ <<>> \in Seq(Events) /\ <<>> \in Seq(Msgs) /\ 0 \in Nat
  BY EmptySeq DEF IdleDeck, RecordDecks
<1>3. CatchTypeOK
  <2>1. events = <<>> /\ DOMAIN events = {} /\ running = FALSE /\ wild = FALSE /\ leaked = {}
    BY DEF CatchInit
  <2>2. deck \in [Ports -> RecordDecks] /\ tape \in [Ports -> Nat] /\ to_caed = <<>> /\ to_catch = <<>>
    BY <1>2 DEF CatchInit
  <2> QED BY <1>2, <2>1, <2>2 DEF CatchTypeOK
<1>4. Carried
  BY ReplyFor DEF CatchInit, Carried
<1> QED BY <1>1, <1>3, <1>4 DEF TypesInv

LEMMA TypesNext == TypesInv /\ [CatchNext]_catchVars => TypesInv' /\ [Next]_vars
<1> SUFFICES ASSUME TypesInv, [CatchNext]_catchVars PROVE TypesInv' /\ [Next]_vars
  OBVIOUS
<1>1. [Next]_vars
  BY CaedSteps DEF TypesInv, TypeInv
<1>2. TypeInv' /\ PortsAccounted'
  BY <1>1, TypeNext, PortsNext DEF TypesInv
<1> QED BY <1>1, <1>2, HandlerTyped

LEMMA TypesAlways == CatchSpec => []TypesInv
<1>1. TypesInv /\ [CatchNext]_catchVars => TypesInv'
  BY TypesNext
<1> QED BY <1>1, TypesInit, PTL DEF CatchSpec

(* The variables keep their types whatever happens at a bad time: no interleaving *)
(* of the clock, GPI lines, RDCatch, RML and caed's answers puts a value into     *)
(* rdcatchd's tables or on the wire that the code there could not handle, and no  *)
(* two events of the list ever have the same id, on which GetEvent() relies.      *)
THEOREM CatchTypeCorrect == CatchSpec => []CatchTypeOK
<1>1. TypesInv => CatchTypeOK
  BY DEF TypesInv
<1> QED BY <1>1, TypesAlways, PTL

(* caed, driven by rdcatchd and another client, makes only the steps of module    *)
(* Caed: what is proved of Caed holds of the composition.                         *)
THEOREM CatchDrivesCaed == CatchSpec => Spec
<1>1. CatchInit => Init
  BY DEF CatchInit
<1>2. TypesInv /\ [CatchNext]_catchVars => [Next]_vars
  BY TypesNext
<1> QED BY <1>1, <1>2, TypesAlways, PTL DEF CatchSpec, Spec

--------------------------------------------------------------------------------
(* When nothing comes at a bad time.  The rest of this module is about rdcatchd  *)
(* with Overlap = {}, and with no event that opens its window again in a         *)
(* schedule that also has events to record once: when such an event is purged,   *)
(* recordUnloadedData() goes on with the event that then has its index, and      *)
(* would open that one's window instead.                                         *)
Timely == Overlap = {} /\ \A m, n \in DOMAIN Schedule : Schedule[m].once => ~Restarts(Schedule[n])

(* The streams: what is under way about a port, and in which order               *)
Has(s, p, c) == \E k \in DOMAIN s : s[k].port = p /\ s[k].cmd = c
Ordered(s, before) == \A j, k \in DOMAIN s : j < k /\ s[j].port = s[k].port => <<s[j].cmd, s[k].cmd>> \in before
CaedPairs == {<<"SR", "LR">>, <<"SR", "RD">>, <<"LR", "RD">>, <<"RD", "UR">>}
CatchPairs == {<<"LR", "RS">>, <<"LR", "SR">>, <<"RS", "SR">>, <<"SR", "RS">>, <<"RS", "UR">>}
Asking(p) == {c \in {"LR", "RD", "SR", "UR"} : Has(to_caed, p, c)}
Telling(p) == {c \in {"LR", "RS", "SR", "UR"} : Has(to_catch, p, c)}
Cut(s, c, p, id) == \A k \in DOMAIN s : s[k].port = p /\ s[k].cmd = c => s[k].cut = id

(* A port as caed has it: its owner o and the commands A under way               *)
CaedFine(o, A) ==
  /\ o # Other
  /\ o = Self => "LR" \notin A /\ ("SR" \in A => "RD" \notin A /\ "UR" \notin A)
  /\ o # Self => "UR" \notin A /\ ("LR" \in A <=> "RD" \in A)

(* The same port as rdcatchd has it: T are the answers under way, st the status  *)
(* of its deck.                                                                  *)
LoadedFine(A, T, st) ==
  /\ "UR" \notin T
  /\ "RD" \in A => "RS" \notin T
  /\ "LR" \in T => /\ "SR" \notin A /\ "UR" \notin A /\ st \in {"Idle", "Waiting"}
                   /\ "RD" \in A \/ "RS" \in T
  /\ "LR" \notin T => st \in IF "RD" \in A \/ "RS" \in T THEN {"Idle", "Ready"} ELSE {"Recording"}
  /\ "SR" \in A => "RS" \notin T /\ "SR" \notin T
  /\ "UR" \in A => "SR" \notin T
UnloadedFine(A, T, st) ==
  /\ "SR" \notin A /\ "LR" \notin A /\ "LR" \notin T /\ "SR" \notin T
  /\ st \in IF "RS" \in T THEN {"Idle", "Ready"} ELSE {"Recording"}
FreeFine(T, st) == T = {} /\ st \in {"Idle", "Waiting"}
CatchFine(o, A, T, st) ==
  IF o = Self THEN LoadedFine(A, T, st)
  ELSE IF "UR" \in T THEN UnloadedFine(A, T, st) ELSE FreeFine(T, st)
TimerFine(o, A, T, t) == o = Self /\ "RD" \notin A /\ "UR" \notin A /\ "SR" \notin T => t # "off"
CutsFine(p) == /\ record_owner[p] = Self => tape[p] = deck[p].id
               /\ Cut(to_caed, "LR", p, deck[p].id) /\ Cut(to_catch, "UR", p, deck[p].id)
PortFine(p) == /\ CatchFine(record_owner[p], Asking(p), Telling(p), deck[p].status)
               /\ FALSE \notin Timed => TimerFine(record_owner[p], Asking(p), Telling(p), record_timer[p])
               /\ CutsFine(p)
InUse(o, A, T) == o = Self \/ "LR" \in A \/ "UR" \in T
Busy == {p \in Ports : InUse(record_owner[p], Asking(p), Telling(p))}

(* The events ev, with the decks dk, the timers lk that outlived their event and *)
(* the ports U in use                                                            *)
Scheduled(e, n) == /\ e.id = Schedule[n].id /\ e.deck = Schedule[n].deck /\ e.start = Schedule[n].start
                   /\ e.once = Schedule[n].once /\ e.multi = Schedule[n].multi
ByRml(ev, dk, U, k) == /\ ev[k].id = Base /\ ev[k].start = "hard" /\ ev[k].once /\ k = Len(ev)
                       /\ ~ev[k].window /\ ~ev[k].delay /\ ev[k].deck \in U /\ dk[ev[k].deck].id = Base
Known(ev, dk, U) == \A k \in DOMAIN ev : (\E n \in DOMAIN Schedule : Scheduled(ev[k], n)) \/ ByRml(ev, dk, U, k)
Claims(e, lk) == e.window \/ e.delay \/ e.id \in lk
OneTimer(ev, lk) == \A k \in DOMAIN ev : /\ ~(ev[k].window /\ ev[k].delay)
                                         /\ ev[k].window \/ ev[k].delay => ev[k].id \notin lk
TimersListed(ev, lk) == \A id \in lk : \E k \in DOMAIN ev : ev[k].id = id
OneClaim(ev, lk, U) ==
  /\ \A j, k \in DOMAIN ev : Claims(ev[j], lk) /\ Claims(ev[k], lk) /\ ev[j].deck = ev[k].deck => j = k
  /\ \A k \in DOMAIN ev : Claims(ev[k], lk) => ev[k].deck \notin U
Awaited(ev, dk, lk, U) == \A p \in Ports \ U : dk[p].status = "Waiting" =>
  \E k \in DOMAIN ev : Claims(ev[k], lk) /\ ev[k].deck = p /\ ev[k].id = dk[p].id
Shown(ev, dk, U) == \A k \in DOMAIN ev : ev[k].status # "Idle" =>
  /\ dk[ev[k].deck].id = ev[k].id
  /\ ev[k].status = IF ev[k].deck \in U THEN "Recording" ELSE "Waiting"
  /\ ev[k].status = "Waiting" => dk[ev[k].deck].status = "Waiting"
Credited(ev, dk, U) == \A p \in U :
  \/ \E n \in DOMAIN Schedule : Schedule[n].id = dk[p].id /\ Schedule[n].deck = p
  \/ dk[p].id = Base /\ \E k \in DOMAIN ev : ev[k].id = Base /\ ev[k].deck = p
OneByRml(ev, dk) ==
  /\ \A q, r \in Ports : dk[q].pending /\ dk[r].pending => q = r
  /\ \A k \in DOMAIN ev, q \in Ports : ev[k].id = Base /\ dk[q].pending => q = ev[k].deck
EventsFine(ev, dk, lk, U) ==
  /\ Known(ev, dk, U) /\ OneTimer(ev, lk) /\ TimersListed(ev, lk) /\ OneClaim(ev, lk, U)
  /\ Awaited(ev, dk, lk, U) /\ Shown(ev, dk, U) /\ Credited(ev, dk, U) /\ OneByRml(ev, dk)

StreamsInv == /\ Ordered(to_caed, CaedPairs) /\ Ordered(to_catch, CatchPairs)
              /\ \A p \in Ports : CaedFine(record_owner[p], Asking(p))
              /\ running => \A p \in Ports : PortFine(p)
              /\ ~running => to_catch = <<>>
CatchInv == ~wild /\ StreamsInv /\ (running => EventsFine(events, deck, leaked, Busy))

--------------------------------------------------------------------------------
(* The streams, message by message.                                              *)

LEMMA HasTail ==
  ASSUME NEW S, NEW q \in Seq(S), q # <<>>, NEW before, Ordered(q, before), \A c : <<c, c>> \notin before,
         NEW m, m = Head(q)
  PROVE  /\ Ordered(Tail(q), before) /\ Has(q, m.port, m.cmd)
         /\ \A p, c : Has(Tail(q), p, c) <=> Has(q, p, c) /\ ~(p = m.port /\ c = m.cmd)
         /\ \A c : c # m.cmd /\ Has(q, m.port, c) => <<m.cmd, c>> \in before
         /\ \A c, p, id : Cut(q, c, p, id) => Cut(Tail(q), c, p, id) /\ (p = m.port /\ c = m.cmd => m.cut = id)
<1> DEFINE t == Tail(q)
<1>1. /\ \A k \in DOMAIN t : k + 1 \in DOMAIN q /\ t[k] = q[k + 1] /\ k \in Nat \ {0}
      /\ \A k \in DOMAIN q : k # 1 => k - 1 \in DOMAIN t /\ t[k - 1] = q[k]
      /\ 1 \in DOMAIN q /\ m = q[1] /\ \A k \in DOMAIN q : k \in Nat \ {0}
  <2>1. t \in Seq(S)
    BY TailFacts
  <2>2. DOMAIN q = 1..Len(q) /\ DOMAIN t = 1..Len(t) /\ Len(q) \in Nat /\ Len(t) \in Nat
    BY <2>1, LenProperties
  <2>3. \A k \in DOMAIN t : k \in Nat \ {0}
    BY <2>2
  <2>4. \A k \in DOMAIN q : k \in Nat \ {0}
    BY <2>2
  <2> QED BY <2>3, <2>4, TailFacts
<1> HIDE DEF t
<1>2. Ordered(t, before)
  <2> SUFFICES ASSUME NEW j \in DOMAIN t, NEW k \in DOMAIN t, j < k, t[j].port = t[k].port
               PROVE <<t[j].cmd, t[k].cmd>> \in before
    BY DEF Ordered
  <2>1. j + 1 \in DOMAIN q /\ k + 1 \in DOMAIN q /\ j + 1 < k + 1
    BY <1>1
  <2>2. t[j] = q[j + 1] /\ t[k] = q[k + 1]
    BY <1>1
  <2>3. q[j + 1].port = q[k + 1].port => <<q[j + 1].cmd, q[k + 1].cmd>> \in before
    BY <2>1, Zenon DEF Ordered
  <2> QED BY <2>2, <2>3, Zenon
<1>3. \A k \in DOMAIN q : k # 1 /\ q[k].port = m.port => <<m.cmd, q[k].cmd>> \in before
  <2> SUFFICES ASSUME NEW k \in DOMAIN q, k # 1, q[k].port = m.port PROVE <<m.cmd, q[k].cmd>> \in before
    OBVIOUS
  <2>1. 1 \in DOMAIN q /\ 1 < k /\ m = q[1]
    BY <1>1
  <2>2. q[1].port = q[k].port => <<q[1].cmd, q[k].cmd>> \in before
    BY <2>1, Zenon DEF Ordered
  <2> QED BY <2>1, <2>2, Zenon
<1>4. \A k \in DOMAIN q : k # 1 /\ q[k].port = m.port => q[k].cmd # m.cmd
  BY <1>3
<1>5. Has(q, m.port, m.cmd)
  BY <1>1 DEF Has
<1>6. ASSUME NEW p, NEW c PROVE Has(t, p, c) <=> Has(q, p, c) /\ ~(p = m.port /\ c = m.cmd)
  <2>1. ASSUME Has(t, p, c) PROVE Has(q, p, c) /\ ~(p = m.port /\ c = m.cmd)
    <3>1. PICK k \in DOMAIN t : t[k].port = p /\ t[k].cmd = c
      BY <2>1 DEF Has
    <3>2. k + 1 \in DOMAIN q /\ q[k + 1].port = p /\ q[k + 1].cmd = c /\ k + 1 # 1
      BY <1>1, <3>1
    <3> QED BY <1>4, <3>2 DEF Has
  <2>2. ASSUME Has(q, p, c), ~(p = m.port /\ c = m.cmd) PROVE Has(t, p, c)
    <3>1. PICK k \in DOMAIN q : q[k].port = p /\ q[k].cmd = c
      BY <2>2 DEF Has
    <3>2. k # 1
      BY <1>1, <2>2, <3>1
    <3> QED BY <1>1, <3>1, <3>2 DEF Has
  <2> QED BY <2>1, <2>2
<1>7. ASSUME NEW c, c # m.cmd, Has(q, m.port, c) PROVE <<m.cmd, c>> \in before
  <2>1. PICK k \in DOMAIN q : q[k].port = m.port /\ q[k].cmd = c
    BY <1>7 DEF Has
  <2> QED BY <1>1, <1>3, <1>7, <2>1
<1>8. ASSUME NEW c, NEW p, NEW id, Cut(q, c, p, id)
      PROVE Cut(t, c, p, id) /\ (p = m.port /\ c = m.cmd => m.cut = id)
  BY <1>1, <1>8 DEF Cut
<1> QED BY <1>2, <1>5, <1>6, <1>7, <1>8 DEF t

LEMMA HasAppend ==
  ASSUME NEW S, NEW q \in Seq(S), NEW m \in S, NEW before, Ordered(q, before),
         \A c : Has(q, m.port, c) => <<c, m.cmd>> \in before
  PROVE  /\ Append(q, m) \in Seq(S) /\ Ordered(Append(q, m), before)
         /\ \A p, c : Has(Append(q, m), p, c) <=> Has(q, p, c) \/ (p = m.port /\ c = m.cmd)
         /\ \A c, p, id : Cut(q, c, p, id) /\ (p = m.port /\ c = m.cmd => m.cut = id) => Cut(Append(q, m), c, p, id)
<1> DEFINE a == Append(q, m)
           n == Len(q) + 1
<1>1. /\ a \in Seq(S) /\ n \in DOMAIN a /\ a[n] = m /\ n \in Nat
      /\ \A k \in DOMAIN q : k \in DOMAIN a /\ a[k] = q[k] /\ k < n
      /\ \A k \in DOMAIN a : (k \in DOMAIN q /\ a[k] = q[k]) \/ (k = n /\ a[k] = m)
  <2>1. \A k \in DOMAIN q : k < n
    BY AppendFacts
  <2> QED BY <2>1, AppendFacts
<1> HIDE DEF a, n
<1>2. Ordered(a, before)
  <2> SUFFICES ASSUME NEW j \in DOMAIN a, NEW k \in DOMAIN a, j < k, a[j].port = a[k].port
               PROVE <<a[j].cmd, a[k].cmd>> \in before
    BY DEF Ordered
  <2>1. CASE k \in DOMAIN q /\ a[k] = q[k]
    <3>1. j \in DOMAIN q /\ a[j] = q[j]
      <4>1. j # n
        <5>1. k < n /\ k \in Nat /\ j \in Nat
          <6>1. DOMAIN a = 1..Len(a) /\ Len(a) \in Nat
            BY <1>1, LenProperties
          <6> QED BY <1>1, <2>1, <6>1
        <5> QED BY <1>1, <5>1
      <4> QED BY <1>1, <4>1
    <3> QED BY <2>1, <3>1 DEF Ordered
  <2>2. CASE k = n /\ a[k] = m
    <3>1. j \in DOMAIN q /\ a[j] = q[j]
      BY <1>1, <2>2
    <3>2. Has(q, m.port, a[j].cmd)
      BY <2>2, <3>1 DEF Has
    <3> QED BY <2>2, <3>2
  <2> QED BY <1>1, <2>1, <2>2
<1>3. ASSUME NEW p, NEW c PROVE Has(a, p, c) <=> Has(q, p, c) \/ (p = m.port /\ c = m.cmd)
  BY <1>1 DEF Has
<1>4. ASSUME NEW c, NEW p, NEW id, Cut(q, c, p, id), p = m.port /\ c = m.cmd => m.cut = id PROVE Cut(a, c, p, id)
  BY <1>1, <1>4 DEF Cut
<1> QED BY <1>1, <1>2, <1>3, <1>4 DEF a

LEMMA CmdFields == \A c, p, n : Cmd(c, p, n).cmd = c /\ Cmd(c, p, n).port = p /\ Cmd(c, p, n).cut = n
BY DEF Cmd

LEMMA ConcatOne ==
  ASSUME NEW S, NEW q \in Seq(S), NEW m \in S
  PROVE  q \o <<m>> = Append(q, m)
BY AppendIsConcat

LEMMA ConcatTwo ==
  ASSUME NEW S, NEW q \in Seq(S), NEW m \in S, NEW n \in S
  PROVE  q \o <<m, n>> = Append(Append(q, m), n)
<1>1. <<m, n>> = <<m>> \o <<n>> /\ <<m>> \in Seq(S) /\ <<n>> \in Seq(S)
  <2>1. <<m>> \in Seq(S) /\ <<n>> \in Seq(S)
    OBVIOUS
  <2>2. Append(<<m>>, n) = <<m>> \o <<n>>
    BY <2>1, AppendIsConcat
  <2>3. Append(<<m>>, n) = <<m, n>>
    <3> DEFINE a == Append(<<m>>, n)
               b == <<m, n>>
    <3>1. b \in Seq(S) /\ Len(b) = 2 /\ b[1] = m /\ b[2] = n
      OBVIOUS
    <3>2. Len(<<m>>) = 1 /\ <<m>>[1] = m
      OBVIOUS
    <3>3. a \in Seq(S) /\ Len(a) = Len(<<m>>) + 1 /\ (\A i \in 1..Len(<<m>>) : a[i] = <<m>>[i]) /\ a[Len(<<m>>) + 1] = n
      BY <2>1, AppendProperties
    <3>4. Len(a) = 2 /\ a[1] = m /\ a[2] = n
      BY <3>2, <3>3
    <3> HIDE DEF a, b
    <3>5. \A i \in 1..Len(a) : a[i] = b[i]
      BY <3>1, <3>4
    <3>6. a = b
      BY <3>1, <3>3, <3>4, <3>5, SeqEqual
    <3> QED BY <3>6 DEF a, b
  <2> QED BY <2>1, <2>2, <2>3
<1>2. q \o (<<m>> \o <<n>>) = (q \o <<m>>) \o <<n>>
  BY <1>1, ConcatAssociative
<1>3. Append(q, m) \in Seq(S)
  BY AppendFacts
<1> QED BY <1>1, <1>2, <1>3, ConcatOne

LEMMA NoRepeats == \A c : <<c, c>> \notin CaedPairs /\ <<c, c>> \notin CatchPairs
BY DEF CaedPairs, CatchPairs

LEMMA HasIs ==
  ASSUME Carried
  PROVE  /\ \A p \in Ports : \A c : Has(to_caed, p, c) <=> c \in Asking(p)
         /\ \A p, c : Has(to_catch, p, c) <=> c \in Telling(p)
<1>1. ASSUME NEW p \in Ports, NEW c, Has(to_caed, p, c) PROVE c \in {"LR", "RD", "SR", "UR"}
  <2>1. PICK k \in DOMAIN to_caed : to_caed[k].port = p /\ to_caed[k].cmd = c
    BY <1>1 DEF Has
  <2>2. to_caed[k] \in Asked
    BY LenProperties, ElementOfSeq DEF Carried
  <2> QED BY <2>1, <2>2, Connections DEF Asked, Orders, Cmd
<1>2. ASSUME NEW p, NEW c, Has(to_catch, p, c) PROVE c \in {"LR", "RS", "SR", "UR"}
  <2>1. PICK k \in DOMAIN to_catch : to_catch[k].port = p /\ to_catch[k].cmd = c
    BY <1>2 DEF Has
  <2>2. to_catch[k] \in Told
    BY LenProperties, ElementOfSeq DEF Carried
  <2> QED BY <2>1, <2>2 DEF Told
<1> QED BY <1>1, <1>2 DEF Asking, Telling

LEMMA ServedStream ==
  ASSUME Carried, Ordered(to_caed, CaedPairs), to_caed # <<>>, to_caed' = Tail(to_caed), NEW m, m = Head(to_caed)
  PROVE  /\ Ordered(to_caed, CaedPairs)'
         /\ m.port \in Ports => m.cmd \in Asking(m.port)
         /\ \A p : Asking(p)' = IF p = m.port THEN Asking(p) \ {m.cmd} ELSE Asking(p)
         /\ \A c \in Asking(m.port) : c # m.cmd => <<m.cmd, c>> \in CaedPairs
         /\ \A p, id : Cut(to_caed, "LR", p, id) =>
              Cut(to_caed', "LR", p, id) /\ (p = m.port /\ m.cmd = "LR" => m.cut = id)
<1> DEFINE t == Tail(to_caed)
<1>1. /\ Ordered(t, CaedPairs) /\ Has(to_caed, m.port, m.cmd)
      /\ \A p, c : Has(t, p, c) <=> Has(to_caed, p, c) /\ ~(p = m.port /\ c = m.cmd)
      /\ \A c : c # m.cmd /\ Has(to_caed, m.port, c) => <<m.cmd, c>> \in CaedPairs
      /\ \A c, p, id : Cut(to_caed, c, p, id) => Cut(t, c, p, id) /\ (p = m.port /\ c = m.cmd => m.cut = id)
  BY HasTail, NoRepeats DEF Carried
<1> HIDE DEF t
<1>2. to_caed' = t
  BY DEF t
<1>3. \A p : Asking(p)' = {c \in {"LR", "RD", "SR", "UR"} : Has(t, p, c)}
  BY <1>2 DEF Asking
<1>4. \A p : Asking(p)' = IF p = m.port THEN Asking(p) \ {m.cmd} ELSE Asking(p)
  BY <1>1, <1>3 DEF Asking
<1>5. m.port \in Ports => m.cmd \in Asking(m.port)
  BY <1>1, HasIs
<1>6. \A c \in Asking(m.port) : c # m.cmd => <<m.cmd, c>> \in CaedPairs
  BY <1>1 DEF Asking
<1>7. Ordered(to_caed, CaedPairs)'
  BY <1>1, <1>2 DEF Ordered, CaedPairs
<1> QED BY <1>1, <1>2, <1>4, <1>5, <1>6, <1>7

LEMMA HandedStream ==
  ASSUME Carried, Ordered(to_catch, CatchPairs), to_catch # <<>>, to_catch' = Tail(to_catch), NEW m, m = Head(to_catch)
  PROVE  /\ Ordered(to_catch, CatchPairs)' /\ m \in Told
         /\ m.cmd \in Telling(m.port)
         /\ \A p : Telling(p)' = IF p = m.port THEN Telling(p) \ {m.cmd} ELSE Telling(p)
         /\ \A c \in Telling(m.port) : c # m.cmd => <<m.cmd, c>> \in CatchPairs
         /\ \A p, id : Cut(to_catch, "UR", p, id) =>
              Cut(to_catch', "UR", p, id) /\ (p = m.port /\ m.cmd = "UR" => m.cut = id)
<1> DEFINE t == Tail(to_catch)
<1>1. /\ Ordered(t, CatchPairs) /\ Has(to_catch, m.port, m.cmd)
      /\ \A p, c : Has(t, p, c) <=> Has(to_catch, p, c) /\ ~(p = m.port /\ c = m.cmd)
      /\ \A c : c # m.cmd /\ Has(to_catch, m.port, c) => <<m.cmd, c>> \in CatchPairs
      /\ \A c, p, id : Cut(to_catch, c, p, id) => Cut(t, c, p, id) /\ (p = m.port /\ c = m.cmd => m.cut = id)
  BY HasTail, NoRepeats DEF Carried
<1>0. m \in Told
  BY TailFacts DEF Carried
<1> HIDE DEF t
<1>2. to_catch' = t
  BY DEF t
<1>3. \A p : Telling(p)' = {c \in {"LR", "RS", "SR", "UR"} : Has(t, p, c)}
  BY <1>2 DEF Telling
<1>4. \A p : Telling(p)' = IF p = m.port THEN Telling(p) \ {m.cmd} ELSE Telling(p)
  BY <1>1, <1>3 DEF Telling
<1>5. m.cmd \in Telling(m.port)
  BY <1>1, HasIs
<1>6. \A c \in Telling(m.port) : c # m.cmd => <<m.cmd, c>> \in CatchPairs
  BY <1>1 DEF Telling
<1>7. Ordered(to_catch, CatchPairs)'
  BY <1>1, <1>2 DEF Ordered, CatchPairs
<1> QED BY <1>0, <1>1, <1>2, <1>4, <1>5, <1>6, <1>7

LEMMA ToldStream ==
  ASSUME Carried, Ordered(to_catch, CatchPairs), NEW x \in {"LR", "RS", "SR", "UR"}, NEW q \in Ports, NEW n \in Nat,
         to_catch' = Append(to_catch, Cmd(x, q, n)), \A c \in Telling(q) : <<c, x>> \in CatchPairs
  PROVE  /\ Ordered(to_catch, CatchPairs)'
         /\ \A p : Telling(p)' = IF p = q THEN Telling(p) \cup {x} ELSE Telling(p)
         /\ \A p, id : Cut(to_catch, "UR", p, id) /\ (p = q /\ x = "UR" => n = id) => Cut(to_catch', "UR", p, id)
<1> DEFINE m == Cmd(x, q, n)
           t == Append(to_catch, m)
<1>1. m \in Told /\ m.cmd = x /\ m.port = q /\ m.cut = n
  BY ReplyFor, CmdFields
<1>2. to_catch' = t
  OBVIOUS
<1> HIDE DEF m, t
<1>3. \A c : Has(to_catch, m.port, c) => <<c, m.cmd>> \in CatchPairs
  BY <1>1, HasIs
<1>4. /\ Ordered(t, CatchPairs)
      /\ \A p, c : Has(t, p, c) <=> Has(to_catch, p, c) \/ (p = m.port /\ c = m.cmd)
      /\ \A c, p, id : Cut(to_catch, c, p, id) /\ (p = m.port /\ c = m.cmd => m.cut = id) => Cut(t, c, p, id)
  BY <1>1, <1>3, HasAppend DEF Carried, t
<1>5. \A p : Telling(p)' = {c \in {"LR", "RS", "SR", "UR"} : Has(t, p, c)}
  BY <1>2 DEF Telling
<1>6. \A p : Telling(p)' = IF p = q THEN Telling(p) \cup {x} ELSE Telling(p)
  BY <1>1, <1>4, <1>5 DEF Telling
<1>7. Ordered(to_catch, CatchPairs)'
  BY <1>2, <1>4 DEF Ordered, CatchPairs
<1> QED BY <1>1, <1>2, <1>4, <1>6, <1>7

LEMMA AskedStream ==
  ASSUME Carried, Ordered(to_caed, CaedPairs), NEW x \in {"SR", "UR"}, NEW q \in Ports,
         to_caed' = to_caed \o <<Cmd(x, q, 0)>>, \A c \in Asking(q) : <<c, x>> \in CaedPairs
  PROVE  /\ Ordered(to_caed, CaedPairs)'
         /\ \A p : Asking(p)' = IF p = q THEN Asking(p) \cup {x} ELSE Asking(p)
         /\ \A p, id : Cut(to_caed, "LR", p, id) => Cut(to_caed', "LR", p, id)
<1> DEFINE m == Cmd(x, q, 0)
           t == Append(to_caed, m)
<1>1. m \in Asked /\ m.cmd = x /\ m.port = q
  BY CmdType, CmdFields DEF Asked
<1>2. to_caed' = t
  <2> HIDE DEF m
  <2>1. to_caed \o <<m>> = Append(to_caed, m)
    BY <1>1, ConcatOne DEF Carried
  <2> QED BY <2>1 DEF m
<1> HIDE DEF m, t
<1>3. \A c : Has(to_caed, m.port, c) => <<c, m.cmd>> \in CaedPairs
  BY <1>1, HasIs
<1>4. /\ Ordered(t, CaedPairs)
      /\ \A p, c : Has(t, p, c) <=> Has(to_caed, p, c) \/ (p = m.port /\ c = m.cmd)
      /\ \A c, p, id : Cut(to_caed, c, p, id) /\ (p = m.port /\ c = m.cmd => m.cut = id) => Cut(t, c, p, id)
  BY <1>1, <1>3, HasAppend DEF Carried, t
<1>5. \A p : Asking(p)' = {c \in {"LR", "RD", "SR", "UR"} : Has(t, p, c)}
  BY <1>2 DEF Asking
<1>6. \A p : Asking(p)' = IF p = q THEN Asking(p) \cup {x} ELSE Asking(p)
  BY <1>1, <1>4, <1>5 DEF Asking
<1>7. Ordered(to_caed, CaedPairs)'
  BY <1>2, <1>4 DEF Ordered, CaedPairs
<1> QED BY <1>1, <1>2, <1>4, <1>6, <1>7

(* A recording is started: LR and RD, behind at most an SR                       *)
LEMMA LoadStream ==
  ASSUME Carried, Ordered(to_caed, CaedPairs), NEW q \in Ports, NEW n \in Nat,
         to_caed' = to_caed \o Loads(q, n), Asking(q) \subseteq {"SR"}
  PROVE  /\ Ordered(to_caed, CaedPairs)'
         /\ \A p : Asking(p)' = IF p = q THEN Asking(p) \cup {"LR", "RD"} ELSE Asking(p)
         /\ \A p, id : Cut(to_caed, "LR", p, id) /\ (p = q => n = id) => Cut(to_caed', "LR", p, id)
<1> DEFINE a == Cmd("LR", q, n)
           b == Cmd("RD", q, n)
           u == Append(to_caed, a)
           t == Append(u, b)
<1>1. a \in Asked /\ a.cmd = "LR" /\ a.port = q /\ a.cut = n /\ b \in Asked /\ b.cmd = "RD" /\ b.port = q
  BY CmdType, CmdFields DEF Asked
<1>2. to_caed' = t
  <2>0. to_caed' = to_caed \o <<a, b>>
    BY DEF Loads
  <2> HIDE DEF a, b
  <2>1. to_caed \o <<a, b>> = Append(Append(to_caed, a), b)
    BY <1>1, ConcatTwo DEF Carried
  <2> QED BY <2>0, <2>1
<1> HIDE DEF a, b, u, t
<1>3. \A c : Has(to_caed, a.port, c) => <<c, a.cmd>> \in CaedPairs
  <2>1. \A c : Has(to_caed, q, c) => c = "SR"
    BY HasIs
  <2> QED BY <1>1, <2>1 DEF CaedPairs
<1>4. /\ u \in Seq(Asked) /\ Ordered(u, CaedPairs)
      /\ \A p, c : Has(u, p, c) <=> Has(to_caed, p, c) \/ (p = a.port /\ c = a.cmd)
      /\ \A c, p, id : Cut(to_caed, c, p, id) /\ (p = a.port /\ c = a.cmd => a.cut = id) => Cut(u, c, p, id)
  BY <1>1, <1>3, HasAppend DEF Carried, u
<1>5. \A c : Has(u, b.port, c) => <<c, b.cmd>> \in CaedPairs
  <2>1. \A c : Has(u, q, c) => c = "SR" \/ c = "LR"
    BY <1>1, <1>4, HasIs
  <2> QED BY <1>1, <2>1 DEF CaedPairs
<1>6. /\ Ordered(t, CaedPairs)
      /\ \A p, c : Has(t, p, c) <=> Has(u, p, c) \/ (p = b.port /\ c = b.cmd)
      /\ \A c, p, id : Cut(u, c, p, id) /\ (p = b.port /\ c = b.cmd => b.cut = id) => Cut(t, c, p, id)
  BY <1>1, <1>4, <1>5, HasAppend DEF t
<1>7. \A p : Asking(p)' = {c \in {"LR", "RD", "SR", "UR"} : Has(t, p, c)}
  BY <1>2 DEF Asking
<1>8. \A p : Asking(p)' = IF p = q THEN Asking(p) \cup {"LR", "RD"} ELSE Asking(p)
  BY <1>1, <1>4, <1>6, <1>7 DEF Asking
<1>9. Ordered(to_caed, CaedPairs)'
  BY <1>2, <1>6 DEF Ordered, CaedPairs
<1>10. ASSUME NEW p, NEW id, Cut(to_caed, "LR", p, id), p = q => n = id PROVE Cut(to_caed', "LR", p, id)
  <2>1. Cut(u, "LR", p, id)
    BY <1>1, <1>4, <1>10
  <2> QED BY <1>1, <1>2, <1>6, <2>1
<1> QED BY <1>8, <1>9, <1>10

(* Streams nothing is added to or taken from                                     *)
LEMMA SameAsked ==
  ASSUME UNCHANGED to_caed
  PROVE  /\ \A p : Asking(p)' = Asking(p)
         /\ Ordered(to_caed, CaedPairs) => Ordered(to_caed, CaedPairs)'
BY DEF Asking, Has, Ordered, CaedPairs

LEMMA SameTold ==
  ASSUME UNCHANGED to_catch
  PROVE  /\ \A p : Telling(p)' = Telling(p)
         /\ Ordered(to_catch, CatchPairs) => Ordered(to_catch, CatchPairs)'
BY DEF Telling, Has, Ordered, CatchPairs

LEMMA SaysIs ==
  ASSUME Carried, Ordered(to_catch, CatchPairs), ~running => to_catch = <<>>,
         NEW x \in {"LR", "RS", "SR", "UR"}, NEW q \in Ports, NEW n \in Nat, Says(Cmd(x, q, n)),
         running => \A c \in Telling(q) : <<c, x>> \in CatchPairs
  PROVE  /\ Ordered(to_catch, CatchPairs)' /\ (~running => to_catch' = <<>>)
         /\ \A p : Telling(p)' = IF running /\ p = q THEN Telling(p) \cup {x} ELSE Telling(p)
         /\ \A p, id : Cut(to_catch, "UR", p, id) /\ (p = q /\ x = "UR" => n = id) => Cut(to_catch', "UR", p, id)
<1>1. CASE running
  <2>1. to_catch' = Append(to_catch, Cmd(x, q, n))
    BY <1>1 DEF Says
  <2> QED BY <1>1, <2>1, ToldStream
<1>2. CASE ~running
  <2>1. UNCHANGED to_catch /\ to_catch' = <<>>
    BY <1>2 DEF Says
  <2> QED BY <1>2, <2>1, SameTold DEF Cut
<1> QED BY <1>1, <1>2

LEMMA SilentIs ==
  ASSUME ~running => to_catch = <<>>, Silent
  PROVE  UNCHANGED to_catch
BY DEF Silent

(* What a step about one port does to the others: nothing.                       *)
Elsewhere(p) ==
  \A q \in Ports : q # p =>
    /\ record_owner'[q] = record_owner[q] /\ record_timer'[q] = record_timer[q] /\ tape'[q] = tape[q]
    /\ Asking(q)' = Asking(q) /\ Telling(q)' = Telling(q)
    /\ deck'[q].status = deck[q].status /\ deck'[q].id = deck[q].id
    /\ Cut(to_caed, "LR", q, deck[q].id) => Cut(to_caed', "LR", q, deck[q].id)
    /\ Cut(to_catch, "UR", q, deck[q].id) => Cut(to_catch', "UR", q, deck[q].id)

LEMMA PortFinePrimed ==
  ASSUME NEW p, CatchFine(record_owner'[p], Asking(p)', Telling(p)', deck'[p].status),
         FALSE \notin Timed => TimerFine(record_owner'[p], Asking(p)', Telling(p)', record_timer'[p]),
         record_owner'[p] = Self => tape'[p] = deck'[p].id,
         Cut(to_caed', "LR", p, deck'[p].id), Cut(to_catch', "UR", p, deck'[p].id)
  PROVE  PortFine(p)'
<1>1. Cut(to_caed, "LR", p, deck[p].id)' /\ Cut(to_catch, "UR", p, deck[p].id)'
  BY DEF Cut
<1>2. CutsFine(p)'
  BY <1>1 DEF CutsFine
<1>3. CatchFine(record_owner[p], Asking(p), Telling(p), deck[p].status)'
  BY DEF CatchFine, LoadedFine, UnloadedFine, FreeFine
<1>4. (FALSE \notin Timed => TimerFine(record_owner[p], Asking(p), Telling(p), record_timer[p]))'
  BY DEF TimerFine
<1> QED BY <1>2, <1>3, <1>4 DEF PortFine

LEMMA OnePort ==
  ASSUME StreamsInv, NEW p, Elsewhere(p), Ordered(to_caed, CaedPairs)', Ordered(to_catch, CatchPairs)',
         running' = running, ~running => to_catch' = <<>>,
         p \in Ports => CaedFine(record_owner'[p], Asking(p)') /\ (running => PortFine(p)')
  PROVE  StreamsInv'
<1>1. ASSUME NEW q \in Ports PROVE CaedFine(record_owner[q], Asking(q))'
  <2>1. CASE q = p
    BY <2>1 DEF CaedFine
  <2>2. CASE q # p
    BY <2>2 DEF CaedFine, StreamsInv, Elsewhere
  <2> QED BY <2>1, <2>2
<1>2. ASSUME NEW q \in Ports, running PROVE PortFine(q)'
  <2>1. CASE q = p
    BY <1>2, <2>1
  <2>2. CASE q # p
    <3>1. PortFine(q)
      BY <1>2 DEF StreamsInv
    <3>2. /\ record_owner'[q] = record_owner[q] /\ record_timer'[q] = record_timer[q] /\ tape'[q] = tape[q]
          /\ Asking(q)' = Asking(q) /\ Telling(q)' = Telling(q)
          /\ deck'[q].status = deck[q].status /\ deck'[q].id = deck[q].id
          /\ Cut(to_caed, "LR", q, deck[q].id) => Cut(to_caed', "LR", q, deck[q].id)
          /\ Cut(to_catch, "UR", q, deck[q].id) => Cut(to_catch', "UR", q, deck[q].id)
      BY <2>2, Zenon DEF Elsewhere
    <3>3. /\ CatchFine(record_owner'[q], Asking(q)', Telling(q)', deck'[q].status)
          /\ FALSE \notin Timed => TimerFine(record_owner'[q], Asking(q)', Telling(q)', record_timer'[q])
          /\ record_owner'[q] = Self => tape'[q] = deck'[q].id
          /\ Cut(to_caed', "LR", q, deck'[q].id) /\ Cut(to_catch', "UR", q, deck'[q].id)
      BY <3>1, <3>2 DEF PortFine, CutsFine
    <3> QED BY <3>3, PortFinePrimed
  <2> QED BY <2>1, <2>2
<1> QED BY <1>1, <1>2 DEF StreamsInv

LEMMA BusyIs ==
  ASSUME NEW p, Elsewhere(p)
  PROVE  /\ \A q \in Ports : q # p => (q \in Busy' <=> q \in Busy)
         /\ p \in Ports => (p \in Busy' <=> InUse(record_owner'[p], Asking(p)', Telling(p)'))
<1>1. \A q \in Ports : q \in Busy' <=> InUse(record_owner'[q], Asking(q)', Telling(q)')
  BY DEF Busy, InUse
<1> QED BY <1>1 DEF Busy, InUse, Elsewhere

LEMMA SameBusy ==
  ASSUME NEW p, Elsewhere(p), p \in Ports => (InUse(record_owner'[p], Asking(p)', Telling(p)') <=> p \in Busy)
  PROVE  Busy' = Busy
<1>1. \A q \in Ports : q \in Busy' <=> q \in Busy
  BY BusyIs
<1>2. Busy \subseteq Ports /\ Busy' \subseteq Ports
  BY DEF Busy
<1> QED BY <1>1, <1>2

--------------------------------------------------------------------------------
(* caed's steps keep the ports fine, and no port comes into or out of use by     *)
(* them.                                                                         *)

LEMMA SubsetsOfCommands == \A p : Asking(p) \subseteq {"LR", "RD", "SR", "UR"} /\ Telling(p) \subseteq {"LR", "RS", "SR", "UR"}
BY DEF Asking, Telling

LEMMA ServeLoadKeeps ==
  ASSUME TypesInv, StreamsInv, NEW m, m = Head(to_caed), NEW p \in Ports, p = m.port, m.cmd = "LR", ServeLoad(p, m.cut),
         to_caed # <<>>, to_caed' = Tail(to_caed), UNCHANGED <<running, events, deck, leaked>>
  PROVE  StreamsInv' /\ (running => Busy' = Busy)
<1>1. /\ Carried /\ Ordered(to_caed, CaedPairs) /\ Ordered(to_catch, CatchPairs) /\ (~running => to_catch = <<>>)
      /\ CaedFine(record_owner[p], Asking(p)) /\ (running => PortFine(p)) /\ m.cut \in Nat
      /\ record_owner \in [Ports -> Conns \cup {None}] /\ tape \in [Ports -> Nat]
  <2>1. m \in Asked
    BY TailFacts DEF TypesInv, Carried
  <2> QED BY <2>1 DEF TypesInv, TypeInv, TypeOK, CatchTypeOK, StreamsInv, Asked, Orders, Cmd
<1>2. /\ Ordered(to_caed, CaedPairs)' /\ "LR" \in Asking(p)
      /\ \A q : Asking(q)' = IF q = p THEN Asking(q) \ {"LR"} ELSE Asking(q)
      /\ \A c \in Asking(p) : c # "LR" => <<"LR", c>> \in CaedPairs
      /\ \A q, id : Cut(to_caed, "LR", q, id) => Cut(to_caed', "LR", q, id) /\ (q = p => m.cut = id)
  BY <1>1, ServedStream
<1>3. /\ record_owner[p] = None /\ record_owner' = [record_owner EXCEPT ![p] = Self]
      /\ UNCHANGED record_timer /\ tape' = [tape EXCEPT ![p] = m.cut] /\ Says(Cmd("LR", p, 0))
      /\ None # Self
  BY Connections DEF ServeLoad
<1>4. running => Telling(p) = {} /\ deck[p].status \in {"Idle", "Waiting"}
  BY <1>1, <1>2, <1>3, SubsetsOfCommands DEF PortFine, CatchFine, UnloadedFine, FreeFine
<1>5. /\ Ordered(to_catch, CatchPairs)' /\ (~running => to_catch' = <<>>)
      /\ \A q : Telling(q)' = IF running /\ q = p THEN Telling(q) \cup {"LR"} ELSE Telling(q)
      /\ \A q, id : Cut(to_catch, "UR", q, id) => Cut(to_catch', "UR", q, id)
  <2>1. 0 \in Nat /\ "LR" # "UR"
    OBVIOUS
  <2> QED BY <1>1, <1>3, <1>4, <2>1, SaysIs
<1>6. Asking(p) \subseteq {"LR", "RD"} /\ "RD" \in Asking(p)
  <2>1. "RD" \in Asking(p)
    BY <1>1, <1>2, <1>3 DEF CaedFine
  <2>2. \A c \in Asking(p) : c # "LR" => c = "RD"
    BY <1>2 DEF CaedPairs
  <2> QED BY <2>1, <2>2
<1>7. /\ record_owner'[p] = Self /\ tape'[p] = m.cut /\ Asking(p)' = {"RD"}
      /\ (running => Telling(p)' = {"LR"} /\ deck'[p].status \in {"Idle", "Waiting"})
  BY <1>1, <1>2, <1>3, <1>4, <1>5, <1>6
<1>8. CaedFine(record_owner'[p], Asking(p)')
  BY <1>7, Connections DEF CaedFine
<1>9. ASSUME running PROVE PortFine(p)'
  <2>1. Cut(to_caed, "LR", p, deck[p].id) /\ Cut(to_catch, "UR", p, deck[p].id)
    BY <1>1, <1>9 DEF PortFine, CutsFine
  <2>2. Cut(to_caed', "LR", p, deck'[p].id) /\ Cut(to_catch', "UR", p, deck'[p].id) /\ m.cut = deck'[p].id
    BY <1>2, <1>5, <2>1
  <2>3. CatchFine(record_owner'[p], Asking(p)', Telling(p)', deck'[p].status)
    BY <1>7, <1>9 DEF CatchFine, LoadedFine
  <2>4. TimerFine(record_owner'[p], Asking(p)', Telling(p)', record_timer'[p])
    BY <1>7 DEF TimerFine
  <2> QED BY <1>7, <2>2, <2>3, <2>4, PortFinePrimed
<1>10. Elsewhere(p)
  BY <1>1, <1>2, <1>3, <1>5 DEF Elsewhere
<1>11. StreamsInv'
  BY <1>2, <1>5, <1>8, <1>9, <1>10, OnePort
<1>12. running => Busy' = Busy
  BY <1>2, <1>7, <1>10, SameBusy DEF Busy, InUse
<1> QED BY <1>11, <1>12

LEMMA ServeRecordKeeps ==
  ASSUME TypesInv, StreamsInv, NEW m, m = Head(to_caed), NEW p \in Ports, p = m.port, m.cmd = "RD", ServeRecord(p),
         to_caed # <<>>, to_caed' = Tail(to_caed), UNCHANGED <<running, events, deck, leaked>>
  PROVE  StreamsInv' /\ (running => Busy' = Busy)
<1>1. /\ Carried /\ Ordered(to_caed, CaedPairs) /\ Ordered(to_catch, CatchPairs) /\ (~running => to_catch = <<>>)
      /\ CaedFine(record_owner[p], Asking(p)) /\ (running => PortFine(p))
      /\ record_timer \in [Ports -> Timers]
  BY DEF TypesInv, TypeInv, TypeOK, StreamsInv
<1>2. /\ Ordered(to_caed, CaedPairs)' /\ "RD" \in Asking(p)
      /\ \A q : Asking(q)' = IF q = p THEN Asking(q) \ {"RD"} ELSE Asking(q)
      /\ \A q, id : Cut(to_caed, "LR", q, id) => Cut(to_caed', "LR", q, id)
  BY <1>1, ServedStream
<1>3. PICK timed \in Timed : record_timer' = [record_timer EXCEPT ![p] = IF timed THEN "armed" ELSE @]
  BY DEF ServeRecord
<1>4. record_owner[p] = Self /\ UNCHANGED <<record_owner, tape>> /\ Says(Cmd("RS", p, 0))
  BY DEF ServeRecord
<1>5. running => LoadedFine(Asking(p), Telling(p), deck[p].status)
  BY <1>1, <1>4 DEF PortFine, CatchFine
<1>6. running => Telling(p) \subseteq {"LR", "SR"}
  BY <1>2, <1>5, SubsetsOfCommands DEF LoadedFine
<1>7. /\ Ordered(to_catch, CatchPairs)' /\ (~running => to_catch' = <<>>)
      /\ \A q : Telling(q)' = IF running /\ q = p THEN Telling(q) \cup {"RS"} ELSE Telling(q)
      /\ \A q, id : Cut(to_catch, "UR", q, id) => Cut(to_catch', "UR", q, id)
  <2>1. 0 \in Nat /\ "RS" # "UR"
    OBVIOUS
  <2>2. running => \A c \in Telling(p) : <<c, "RS">> \in CatchPairs
    BY <1>6 DEF CatchPairs
  <2> QED BY <1>1, <1>4, <2>1, <2>2, SaysIs
<1>8. CaedFine(record_owner'[p], Asking(p)')
  BY <1>1, <1>2, <1>4 DEF CaedFine
<1>9. ASSUME running PROVE PortFine(p)'
  <2>1. /\ Cut(to_caed, "LR", p, deck[p].id) /\ Cut(to_catch, "UR", p, deck[p].id) /\ tape[p] = deck[p].id
    BY <1>1, <1>4, <1>9 DEF PortFine, CutsFine
  <2>2. Cut(to_caed', "LR", p, deck'[p].id) /\ Cut(to_catch', "UR", p, deck'[p].id) /\ tape'[p] = deck'[p].id
    BY <1>2, <1>4, <1>7, <2>1
  <2>3. "SR" \notin Asking(p) /\ "LR" \notin Asking(p)
    BY <1>1, <1>2, <1>4 DEF CaedFine
  <2>4. CatchFine(record_owner'[p], Asking(p)', Telling(p)', deck'[p].status)
    BY <1>2, <1>4, <1>5, <1>7, <1>9, <2>3 DEF CatchFine, LoadedFine
  <2>5. FALSE \notin Timed => TimerFine(record_owner'[p], Asking(p)', Telling(p)', record_timer'[p])
    <3>1. FALSE \notin Timed => timed = TRUE
      BY SizesAssumption
    <3>2. FALSE \notin Timed => record_timer'[p] = "armed"
      BY <1>1, <1>3, <3>1
    <3> QED BY <3>2 DEF TimerFine
  <2> QED BY <2>2, <2>4, <2>5, PortFinePrimed
<1>10. Elsewhere(p)
  BY <1>1, <1>2, <1>3, <1>4, <1>7 DEF Elsewhere
<1>11. StreamsInv'
  BY <1>2, <1>7, <1>8, <1>9, <1>10, OnePort
<1>12. running => Busy' = Busy
  BY <1>4, <1>10, SameBusy DEF Busy, InUse
<1> QED BY <1>11, <1>12

LEMMA ServeStopKeeps ==
  ASSUME TypesInv, StreamsInv, NEW m, m = Head(to_caed), NEW p \in Ports, p = m.port, m.cmd = "SR", ServeStop(p),
         to_caed # <<>>, to_caed' = Tail(to_caed), UNCHANGED <<running, events, deck, leaked>>
  PROVE  StreamsInv' /\ (running => Busy' = Busy)
<1>1. /\ Carried /\ Ordered(to_caed, CaedPairs) /\ Ordered(to_catch, CatchPairs) /\ (~running => to_catch = <<>>)
      /\ CaedFine(record_owner[p], Asking(p)) /\ (running => PortFine(p))
      /\ record_timer \in [Ports -> Timers] /\ record_owner[p] \in {Self, None}
      /\ (recording[p] => record_owner[p] = Self)
  BY Connections DEF TypesInv, TypeInv, TypeOK, StreamsInv, PortsAccounted, CaedFine
<1>2. /\ Ordered(to_caed, CaedPairs)' /\ "SR" \in Asking(p)
      /\ \A q : Asking(q)' = IF q = p THEN Asking(q) \ {"SR"} ELSE Asking(q)
      /\ \A q, id : Cut(to_caed, "LR", q, id) => Cut(to_caed', "LR", q, id)
  BY <1>1, ServedStream
<1>3. UNCHANGED <<record_owner, tape>>
  BY DEF ServeStop
<1>4. CaedFine(record_owner'[p], Asking(p)')
  BY <1>1, <1>2, <1>3 DEF CaedFine
<1>5. running => /\ Cut(to_caed, "LR", p, deck[p].id) /\ Cut(to_catch, "UR", p, deck[p].id)
                 /\ record_owner[p] = Self => tape[p] = deck[p].id
                 /\ CatchFine(record_owner[p], Asking(p), Telling(p), deck[p].status)
                 /\ FALSE \notin Timed => TimerFine(record_owner[p], Asking(p), Telling(p), record_timer[p])
  BY <1>1 DEF PortFine, CutsFine
<1>6. CASE recording[p]
  <2>1. record_timer' = [record_timer EXCEPT ![p] = Outlive(@)] /\ Says(Cmd("SR", p, 0))
    BY <1>6 DEF ServeStop
  <2>2. running => Telling(p) = {} /\ LoadedFine(Asking(p), Telling(p), deck[p].status)
    BY <1>1, <1>2, <1>5, <1>6, SubsetsOfCommands DEF CatchFine, LoadedFine
  <2>3. /\ Ordered(to_catch, CatchPairs)' /\ (~running => to_catch' = <<>>)
        /\ \A q : Telling(q)' = IF running /\ q = p THEN Telling(q) \cup {"SR"} ELSE Telling(q)
        /\ \A q, id : Cut(to_catch, "UR", q, id) => Cut(to_catch', "UR", q, id)
    <3>1. 0 \in Nat /\ "SR" # "UR"
      OBVIOUS
    <3> QED BY <1>1, <2>1, <2>2, <3>1, SaysIs
  <2>4. ASSUME running PROVE PortFine(p)'
    <3>1. /\ Cut(to_caed', "LR", p, deck'[p].id) /\ Cut(to_catch', "UR", p, deck'[p].id)
          /\ record_owner'[p] = Self => tape'[p] = deck'[p].id
      BY <1>2, <1>3, <1>5, <2>3, <2>4
    <3>2. "RD" \notin Asking(p) /\ "UR" \notin Asking(p) /\ "LR" \notin Asking(p) /\ record_owner'[p] = Self
      BY <1>1, <1>2, <1>3, <1>6 DEF CaedFine
    <3>3. CatchFine(record_owner'[p], Asking(p)', Telling(p)', deck'[p].status)
      BY <1>2, <2>2, <2>3, <2>4, <3>2 DEF CatchFine, LoadedFine
    <3>4. TimerFine(record_owner'[p], Asking(p)', Telling(p)', record_timer'[p])
      BY <2>3, <2>4 DEF TimerFine
    <3> QED BY <3>1, <3>3, <3>4, PortFinePrimed
  <2>5. Elsewhere(p)
    BY <1>1, <1>2, <1>3, <2>1, <2>3 DEF Elsewhere
  <2>6. StreamsInv'
    BY <1>2, <1>4, <2>3, <2>4, <2>5, OnePort
  <2>7. running => Busy' = Busy
    BY <1>1, <1>3, <1>6, <2>5, SameBusy DEF Busy, InUse
  <2> QED BY <2>6, <2>7
<1>7. CASE ~recording[p]
  <2>1. UNCHANGED <<record_timer, to_catch>>
    BY <1>1, <1>7, SilentIs DEF ServeStop
  <2>2. Ordered(to_catch, CatchPairs)' /\ \A q : Telling(q)' = Telling(q)
    BY <1>1, <2>1, SameTold
  <2>3. ASSUME running PROVE PortFine(p)'
    <3>1. /\ Cut(to_caed', "LR", p, deck'[p].id) /\ Cut(to_catch', "UR", p, deck'[p].id)
          /\ record_owner'[p] = Self => tape'[p] = deck'[p].id
      BY <1>2, <1>3, <1>5, <2>1, <2>3
    <3>2. CatchFine(record_owner'[p], Asking(p)', Telling(p)', deck'[p].status)
      BY <1>2, <1>3, <1>5, <2>2, <2>3 DEF CatchFine, LoadedFine, UnloadedFine, FreeFine
    <3>3. FALSE \notin Timed => TimerFine(record_owner'[p], Asking(p)', Telling(p)', record_timer'[p])
      BY <1>2, <1>3, <1>5, <2>1, <2>2, <2>3 DEF TimerFine
    <3> QED BY <3>1, <3>2, <3>3, PortFinePrimed
  <2>4. Elsewhere(p)
    BY <1>2, <1>3, <2>1, <2>2 DEF Elsewhere
  <2>5. StreamsInv'
    BY <1>1, <1>2, <1>4, <2>1, <2>2, <2>3, <2>4, OnePort
  <2>6. running => Busy' = Busy
    BY <1>2, <1>3, <2>2, <2>4, SameBusy DEF Busy, InUse
  <2> QED BY <2>5, <2>6
<1> QED BY <1>6, <1>7

LEMMA ServeUnloadKeeps ==
  ASSUME TypesInv, StreamsInv, NEW m, m = Head(to_caed), NEW p \in Ports, p = m.port, m.cmd = "UR", ServeUnload(p),
         to_caed # <<>>, to_caed' = Tail(to_caed), UNCHANGED <<running, events, deck, leaked>>
  PROVE  StreamsInv' /\ (running => Busy' = Busy) /\ wild' = FALSE
<1>1. /\ Carried /\ Ordered(to_caed, CaedPairs) /\ Ordered(to_catch, CatchPairs) /\ (~running => to_catch = <<>>)
      /\ CaedFine(record_owner[p], Asking(p)) /\ (running => PortFine(p)) /\ tape[p] \in Nat
      /\ record_timer \in [Ports -> Timers] /\ record_owner \in [Ports -> Conns \cup {None}]
  BY DEF TypesInv, TypeInv, TypeOK, CatchTypeOK, StreamsInv
<1>2. /\ Ordered(to_caed, CaedPairs)' /\ "UR" \in Asking(p)
      /\ \A q : Asking(q)' = IF q = p THEN Asking(q) \ {"UR"} ELSE Asking(q)
      /\ \A c \in Asking(p) : c # "UR" => <<"UR", c>> \in CaedPairs
      /\ \A q, id : Cut(to_caed, "LR", q, id) => Cut(to_caed', "LR", q, id)
  BY <1>1, ServedStream
<1>3. record_owner[p] = Self /\ Self # None
  BY <1>1, <1>2, Connections DEF CaedFine
<1>4. /\ record_owner' = [record_owner EXCEPT ![p] = None] /\ UNCHANGED tape /\ wild' = FALSE
      /\ record_timer' = [record_timer EXCEPT ![p] = Outlive(@)] /\ Says(Cmd("UR", p, tape[p]))
  BY <1>3 DEF ServeUnload
<1>5. Asking(p) = {"UR"} /\ Asking(p)' = {}
  <2>1. \A c \in Asking(p) : c = "UR"
    BY <1>2 DEF CaedPairs
  <2> QED BY <1>2, <2>1
<1>6. running => LoadedFine(Asking(p), Telling(p), deck[p].status) /\ tape[p] = deck[p].id
  BY <1>1, <1>3 DEF PortFine, CatchFine, CutsFine
<1>7. running => Telling(p) \subseteq {"RS"}
  BY <1>5, <1>6, SubsetsOfCommands DEF LoadedFine
<1>8. /\ Ordered(to_catch, CatchPairs)' /\ (~running => to_catch' = <<>>)
      /\ \A q : Telling(q)' = IF running /\ q = p THEN Telling(q) \cup {"UR"} ELSE Telling(q)
      /\ \A q, id : Cut(to_catch, "UR", q, id) /\ (q = p => tape[p] = id) => Cut(to_catch', "UR", q, id)
  <2>1. running => \A c \in Telling(p) : <<c, "UR">> \in CatchPairs
    BY <1>7 DEF CatchPairs
  <2> QED BY <1>1, <1>4, <2>1, SaysIs
<1>9. record_owner'[p] = None
  BY <1>1, <1>4
<1>10. CaedFine(record_owner'[p], Asking(p)')
  BY <1>3, <1>5, <1>9, Connections DEF CaedFine
<1>11. ASSUME running PROVE PortFine(p)'
  <2>1. Cut(to_caed, "LR", p, deck[p].id) /\ Cut(to_catch, "UR", p, deck[p].id)
    BY <1>1, <1>11 DEF PortFine, CutsFine
  <2>2. Cut(to_caed', "LR", p, deck'[p].id) /\ Cut(to_catch', "UR", p, deck'[p].id)
    BY <1>2, <1>6, <1>8, <1>11, <2>1
  <2>3. CatchFine(record_owner'[p], Asking(p)', Telling(p)', deck'[p].status)
    BY <1>3, <1>5, <1>6, <1>7, <1>8, <1>9, <1>11 DEF CatchFine, LoadedFine, UnloadedFine
  <2>4. TimerFine(record_owner'[p], Asking(p)', Telling(p)', record_timer'[p])
    BY <1>3, <1>9 DEF TimerFine
  <2> QED BY <1>3, <1>9, <2>2, <2>3, <2>4, PortFinePrimed
<1>12. Elsewhere(p)
  BY <1>1, <1>2, <1>4, <1>8 DEF Elsewhere
<1>13. StreamsInv'
  BY <1>2, <1>8, <1>10, <1>11, <1>12, OnePort
<1>14. running => Busy' = Busy
  BY <1>3, <1>8, <1>12, SameBusy DEF Busy, InUse
<1> QED BY <1>4, <1>13, <1>14

LEMMA ServeKeeps ==
  ASSUME TypesInv, StreamsInv, Serve
  PROVE  StreamsInv' /\ (running => Busy' = Busy) /\ ~wild' /\ UNCHANGED <<running, events, deck, leaked>>
<1> DEFINE m == Head(to_caed)
           p == m.port
<1>1. /\ ~wild /\ to_caed # <<>> /\ to_caed' = Tail(to_caed) /\ m \in Asked
      /\ UNCHANGED <<running, events, deck, leaked>>
      /\ \/ m.cmd = "PW" /\ ServePassword
         \/ /\ p \in Ports
            /\ \/ m.cmd = "LR" /\ ServeLoad(p, m.cut)
               \/ m.cmd = "RD" /\ ServeRecord(p)
               \/ m.cmd = "SR" /\ ServeStop(p)
               \/ m.cmd = "UR" /\ ServeUnload(p)
  BY ServeIs DEF TypesInv
<1>2. m = Head(to_caed) /\ p = m.port
  OBVIOUS
<1> HIDE DEF m, p
<1>3. CASE m.cmd = "PW" /\ ServePassword
  <2>1. UNCHANGED <<record_owner, record_timer, tape, wild, to_catch>>
    BY <1>3, SilentIs DEF ServePassword, recVars, StreamsInv
  <2>2. p \notin Ports
    BY <1>1, <1>2, <1>3, Connections DEF Asked, Orders, Cmd
  <2>3. /\ Ordered(to_caed, CaedPairs)' /\ \A q : q # p => Asking(q)' = Asking(q)
        /\ \A q, id : Cut(to_caed, "LR", q, id) => Cut(to_caed', "LR", q, id)
    BY <1>1, <1>2, ServedStream DEF TypesInv, StreamsInv
  <2>4. Ordered(to_catch, CatchPairs)' /\ \A q : Telling(q)' = Telling(q)
    BY <2>1, SameTold DEF StreamsInv
  <2>5. Elsewhere(p)
    BY <1>1, <2>1, <2>3, <2>4 DEF Elsewhere
  <2>6. ~running => to_catch' = <<>>
    BY <2>1 DEF StreamsInv
  <2> QED BY <1>1, <2>1, <2>2, <2>3, <2>4, <2>5, <2>6, OnePort, SameBusy
<1>4. CASE p \in Ports /\ m.cmd = "LR" /\ ServeLoad(p, m.cut)
  BY <1>1, <1>2, <1>4, ServeLoadKeeps DEF ServeLoad
<1>5. CASE p \in Ports /\ m.cmd = "RD" /\ ServeRecord(p)
  BY <1>1, <1>2, <1>5, ServeRecordKeeps DEF ServeRecord
<1>6. CASE p \in Ports /\ m.cmd = "SR" /\ ServeStop(p)
  BY <1>1, <1>2, <1>6, ServeStopKeeps DEF ServeStop
<1>7. CASE p \in Ports /\ m.cmd = "UR" /\ ServeUnload(p)
  BY <1>1, <1>2, <1>7, ServeUnloadKeeps
<1> QED BY <1>1, <1>3, <1>4, <1>5, <1>6, <1>7

LEMMA StoppingIs ==
  ASSUME NEW p, ~Stopping(p)
  PROVE  "SR" \notin Asking(p) /\ "UR" \notin Asking(p) /\ "SR" \notin Telling(p) /\ "UR" \notin Telling(p)
BY DEF Stopping, About, Asking, Telling, Has

LEMMA TimerKeeps ==
  ASSUME Timely, TypesInv, StreamsInv, NEW p \in Ports, recordTimer(p)
  PROVE  StreamsInv' /\ (running => Busy' = Busy) /\ UNCHANGED <<running, events, deck, leaked, wild>>
<1>1. /\ UNCHANGED <<running, events, deck, leaked, tape, wild, to_caed, record_owner>> /\ ~Stopping(p)
      /\ record_timer' = [record_timer EXCEPT ![p] = "off"]
      /\ IF record_owner[p] = Self THEN Says(Cmd("SR", p, 0)) ELSE Silent
  BY RecordTimerIs DEF Timely, TypesInv, TypeInv
<1>2. /\ Carried /\ Ordered(to_caed, CaedPairs) /\ Ordered(to_catch, CatchPairs) /\ (~running => to_catch = <<>>)
      /\ CaedFine(record_owner[p], Asking(p)) /\ (running => PortFine(p))
      /\ record_timer \in [Ports -> Timers]
  BY DEF TypesInv, TypeInv, TypeOK, StreamsInv
<1>3. Ordered(to_caed, CaedPairs)' /\ \A q : Asking(q)' = Asking(q)
  BY <1>1, <1>2, SameAsked
<1>4. "SR" \notin Asking(p) /\ "UR" \notin Asking(p) /\ "SR" \notin Telling(p) /\ "UR" \notin Telling(p)
  BY <1>1, StoppingIs
<1>5. CaedFine(record_owner'[p], Asking(p)')
  BY <1>1, <1>2, <1>3
<1>6. running => /\ Cut(to_caed', "LR", p, deck'[p].id) /\ Cut(to_catch, "UR", p, deck'[p].id)
                 /\ record_owner'[p] = Self => tape'[p] = deck'[p].id
                 /\ CatchFine(record_owner[p], Asking(p), Telling(p), deck[p].status)
  BY <1>1, <1>2 DEF PortFine, CutsFine
<1>7. CASE record_owner[p] = Self
  <2>1. /\ Ordered(to_catch, CatchPairs)' /\ (~running => to_catch' = <<>>)
        /\ \A q : Telling(q)' = IF running /\ q = p THEN Telling(q) \cup {"SR"} ELSE Telling(q)
        /\ \A q, id : Cut(to_catch, "UR", q, id) => Cut(to_catch', "UR", q, id)
    <3>1. 0 \in Nat /\ "SR" # "UR" /\ Says(Cmd("SR", p, 0))
      BY <1>1, <1>7
    <3>2. \A c \in Telling(p) : <<c, "SR">> \in CatchPairs
      BY <1>4, SubsetsOfCommands DEF CatchPairs
    <3> QED BY <1>2, <3>1, <3>2, SaysIs
  <2>2. ASSUME running PROVE PortFine(p)'
    <3>1. CatchFine(record_owner'[p], Asking(p)', Telling(p)', deck'[p].status)
      BY <1>1, <1>3, <1>4, <1>6, <1>7, <2>1, <2>2 DEF CatchFine, LoadedFine
    <3>2. TimerFine(record_owner'[p], Asking(p)', Telling(p)', record_timer'[p])
      BY <2>1, <2>2 DEF TimerFine
    <3> QED BY <1>6, <2>1, <2>2, <3>1, <3>2, PortFinePrimed
  <2>3. Elsewhere(p)
    BY <1>1, <1>2, <1>3, <2>1 DEF Elsewhere
  <2>4. StreamsInv'
    BY <1>1, <1>3, <1>5, <2>1, <2>2, <2>3, OnePort
  <2>5. Busy' = Busy
    BY <1>1, <1>7, <2>3, SameBusy DEF Busy, InUse
  <2> QED BY <1>1, <2>4, <2>5
<1>8. CASE record_owner[p] # Self
  <2>1. UNCHANGED to_catch
    BY <1>1, <1>2, <1>8, SilentIs
  <2>2. Ordered(to_catch, CatchPairs)' /\ \A q : Telling(q)' = Telling(q)
    BY <1>2, <2>1, SameTold
  <2>3. ASSUME running PROVE PortFine(p)'
    <3>1. CatchFine(record_owner'[p], Asking(p)', Telling(p)', deck'[p].status)
      BY <1>1, <1>3, <1>6, <2>2, <2>3
    <3>2. TimerFine(record_owner'[p], Asking(p)', Telling(p)', record_timer'[p])
      BY <1>1, <1>8 DEF TimerFine
    <3> QED BY <1>6, <2>1, <2>3, <3>1, <3>2, PortFinePrimed
  <2>4. Elsewhere(p)
    BY <1>1, <1>2, <1>3, <2>1, <2>2 DEF Elsewhere
  <2>5. StreamsInv'
    BY <1>1, <1>2, <1>3, <1>5, <2>1, <2>2, <2>3, <2>4, OnePort
  <2>6. Busy' = Busy
    BY <1>1, <1>3, <2>2, <2>4, SameBusy DEF Busy, InUse
  <2> QED BY <1>1, <2>5, <2>6
<1> QED BY <1>7, <1>8

(* Another client stops a port or connects: no port of rdcatchd hears of it.     *)
LEMMA OtherKeeps ==
  ASSUME TypesInv, StreamsInv, OtherConnects \/ \E p \in Ports : OtherStops(p)
  PROVE  StreamsInv' /\ Busy' = Busy /\ UNCHANGED <<running, events, deck, leaked, wild>>
<1>1. /\ UNCHANGED <<running, events, deck, leaked, tape, wild, to_caed, to_catch, record_owner>>
      /\ \A q \in Ports : record_timer[q] # "off" => record_timer'[q] # "off"
  <2>1. CASE OtherConnects
    BY <2>1, OtherConnectsIs
  <2>2. ASSUME NEW p \in Ports, OtherStops(p)
        PROVE  /\ UNCHANGED <<running, events, deck, leaked, tape, wild, to_caed, to_catch, record_owner>>
               /\ \A q \in Ports : record_timer[q] # "off" => record_timer'[q] # "off"
    <3>1. /\ UNCHANGED <<running, events, deck, leaked, tape, wild, to_caed, record_owner>> /\ Silent
          /\ record_timer' = [record_timer EXCEPT ![p] = Outlive(@)]
      BY <2>2, OtherStopsIs
    <3>2. record_timer \in [Ports -> Timers]
      BY DEF TypesInv, TypeInv, TypeOK
    <3> QED BY <3>1, <3>2, SilentIs DEF StreamsInv, Outlive
  <2> QED BY <2>1, <2>2
<1>2. /\ Ordered(to_caed, CaedPairs)' /\ Ordered(to_catch, CatchPairs)'
      /\ \A q : Asking(q)' = Asking(q) /\ Telling(q)' = Telling(q)
  BY <1>1, SameAsked, SameTold DEF StreamsInv
<1>3. ASSUME NEW q \in Ports, running PROVE PortFine(q)'
  <2>1. PortFine(q)
    BY <1>3 DEF StreamsInv
  <2>2. CatchFine(record_owner'[q], Asking(q)', Telling(q)', deck'[q].status)
    BY <1>1, <1>2, <2>1 DEF PortFine
  <2>3. FALSE \notin Timed => TimerFine(record_owner'[q], Asking(q)', Telling(q)', record_timer'[q])
    BY <1>1, <1>2, <2>1 DEF PortFine, TimerFine
  <2>4. /\ record_owner'[q] = Self => tape'[q] = deck'[q].id
        /\ Cut(to_caed', "LR", q, deck'[q].id) /\ Cut(to_catch', "UR", q, deck'[q].id)
    BY <1>1, <2>1 DEF PortFine, CutsFine
  <2> QED BY <2>2, <2>3, <2>4, PortFinePrimed
<1>4. \A q \in Ports : CaedFine(record_owner[q], Asking(q))'
  BY <1>1, <1>2 DEF StreamsInv, CaedFine
<1>5. StreamsInv'
  BY <1>1, <1>2, <1>3, <1>4 DEF StreamsInv
<1>6. Busy' = Busy
  BY <1>1, <1>2 DEF Busy, InUse
<1> QED BY <1>1, <1>5, <1>6

LEMMA NoMessages ==
  /\ to_caed' = <<>> => Ordered(to_caed, CaedPairs)' /\ \A p : Asking(p)' = {}
  /\ to_catch' = <<>> => Ordered(to_catch, CatchPairs)' /\ \A p : Telling(p)' = {} /\ \A id : Cut(to_catch', "UR", p, id)
  /\ to_caed' = <<Cmd("PW", None, 0)>> =>
       Ordered(to_caed, CaedPairs)' /\ \A p : Asking(p)' = {} /\ \A id : Cut(to_caed', "LR", p, id)
<1>1. to_caed' = <<>> => Ordered(to_caed, CaedPairs)' /\ \A p : Asking(p)' = {}
  BY DEF Ordered, Asking, Has
<1>2. to_catch' = <<>> => Ordered(to_catch, CatchPairs)' /\ \A p : Telling(p)' = {} /\ \A id : Cut(to_catch', "UR", p, id)
  BY DEF Ordered, Telling, Has, Cut
<1>3. ASSUME to_caed' = <<Cmd("PW", None, 0)>>
      PROVE  Ordered(to_caed, CaedPairs)' /\ \A p : Asking(p)' = {} /\ \A id : Cut(to_caed', "LR", p, id)
  <2>1. DOMAIN to_caed' = {1} /\ to_caed'[1].cmd = "PW"
    BY <1>3 DEF Cmd
  <2> QED BY <2>1 DEF Ordered, Asking, Has, Cut
<1> QED BY <1>1, <1>2, <1>3

LEMMA LifeKeeps ==
  ASSUME TypesInv, StreamsInv, startDaemon \/ Exit \/ connectionClosed
  PROVE  StreamsInv' /\ UNCHANGED wild /\ (running' => startDaemon /\ Busy' = {})
<1>1. \A p \in Ports : CaedFine(record_owner[p], Asking(p)) /\ record_owner[p] \in {Self, None} /\ None # Self
  BY Connections DEF StreamsInv, CaedFine, TypesInv, TypeInv, TypeOK
<1>2. CASE startDaemon
  <2>1. /\ running' /\ UNCHANGED <<wild, record_owner>> /\ Self \notin socket
        /\ deck' = [p \in Ports |-> IdleDeck] /\ to_caed' = <<Cmd("PW", None, 0)>> /\ to_catch' = <<>>
    BY <1>2, StartDaemonIs DEF StreamsInv
  <2>2. \A p \in Ports : record_owner'[p] = None
    BY <1>1, <2>1 DEF TypesInv, PortsAccounted
  <2>3. /\ Ordered(to_caed, CaedPairs)' /\ Ordered(to_catch, CatchPairs)'
        /\ \A p : Asking(p)' = {} /\ Telling(p)' = {}
        /\ \A p, id : Cut(to_caed', "LR", p, id) /\ Cut(to_catch', "UR", p, id)
    BY <2>1, NoMessages
  <2>4. ASSUME NEW p \in Ports PROVE CaedFine(record_owner[p], Asking(p))' /\ PortFine(p)' /\ p \notin Busy'
    <3>1. deck'[p].status = "Idle" /\ record_owner'[p] # Self /\ record_owner'[p] # Other
      BY <1>1, <2>1, <2>2, Connections DEF IdleDeck
    <3>2. CatchFine(record_owner'[p], Asking(p)', Telling(p)', deck'[p].status)
      BY <2>3, <3>1 DEF CatchFine, FreeFine
    <3>3. TimerFine(record_owner'[p], Asking(p)', Telling(p)', record_timer'[p])
      BY <3>1 DEF TimerFine
    <3>4. PortFine(p)'
      BY <2>3, <3>1, <3>2, <3>3, PortFinePrimed
    <3> QED BY <2>3, <3>1, <3>4 DEF CaedFine, Busy, InUse
  <2>5. Busy' = {}
    BY <2>4 DEF Busy
  <2> QED BY <1>2, <2>1, <2>3, <2>4, <2>5 DEF StreamsInv
<1>3. CASE Exit
  <2>1. ~running' /\ to_catch' = <<>> /\ UNCHANGED <<wild, to_caed, record_owner>>
    BY <1>3 DEF Exit, caedVars, vars, recVars
  <2>2. /\ Ordered(to_caed, CaedPairs)' /\ Ordered(to_catch, CatchPairs)' /\ \A p : Asking(p)' = Asking(p)
    BY <2>1, NoMessages, SameAsked DEF StreamsInv
  <2>3. \A p \in Ports : CaedFine(record_owner[p], Asking(p))'
    BY <1>1, <2>1, <2>2 DEF CaedFine
  <2> QED BY <2>1, <2>2, <2>3 DEF StreamsInv
<1>4. CASE connectionClosed
  <2>1. /\ ~running' /\ to_caed' = <<>> /\ UNCHANGED <<wild, to_catch>> /\ to_catch' = <<>>
        /\ \A p \in Ports : record_owner'[p] = IF record_owner[p] = Self THEN None ELSE record_owner[p]
    BY <1>4, ClosedIs DEF StreamsInv, TypesInv, TypeInv
  <2>2. /\ Ordered(to_caed, CaedPairs)' /\ Ordered(to_catch, CatchPairs)' /\ \A p : Asking(p)' = {}
    BY <2>1, NoMessages
  <2>3. \A p \in Ports : CaedFine(record_owner[p], Asking(p))'
    BY <1>1, <2>1, <2>2, Connections DEF CaedFine
  <2> QED BY <2>1, <2>2, <2>3 DEF StreamsInv
<1> QED BY <1>2, <1>3, <1>4

--------------------------------------------------------------------------------
(* rdcatchd's steps, and the ports.                                              *)

LEMMA FreePort ==
  ASSUME StreamsInv, running, NEW p \in Ports, p \notin Busy
  PROVE  /\ record_owner[p] # Self /\ Asking(p) \subseteq {"SR"} /\ Telling(p) = {}
         /\ deck[p].status \in {"Idle", "Waiting"} /\ Available(deck[p])
         /\ \A id : Cut(to_caed, "LR", p, id) /\ Cut(to_catch, "UR", p, id)
<1>1. record_owner[p] # Self /\ "LR" \notin Asking(p) /\ "UR" \notin Telling(p)
  BY DEF Busy, InUse
<1>2. CaedFine(record_owner[p], Asking(p)) /\ PortFine(p)
  BY DEF StreamsInv
<1>3. Asking(p) \subseteq {"SR"}
  BY <1>1, <1>2, SubsetsOfCommands DEF CaedFine
<1>4. Telling(p) = {} /\ deck[p].status \in {"Idle", "Waiting"}
  BY <1>1, <1>2 DEF PortFine, CatchFine, FreeFine
<1>5. \A id : Cut(to_caed, "LR", p, id) /\ Cut(to_catch, "UR", p, id)
  BY <1>1 DEF Cut, Asking, Telling, Has
<1> QED BY <1>1, <1>3, <1>4, <1>5 DEF Available

LEMMA QuietPort ==
  ASSUME TypesInv, StreamsInv, running, NEW p \in Ports, Quiet(p)
  PROVE  /\ Asking(p) = {} /\ Telling(p) = {}
         /\ deck[p].status = "Recording" <=> record_owner[p] = Self
         /\ p \in Busy <=> record_owner[p] = Self
         /\ deck[p].status # "Ready"
<1>1. Asking(p) = {} /\ Telling(p) = {}
  BY DEF Quiet, About, Asking, Telling, Has, All
<1>2. PortFine(p)
  BY DEF StreamsInv
<1> QED BY <1>1, <1>2 DEF PortFine, CatchFine, LoadedFine, FreeFine, Busy, InUse

(* What a handler changes of the decks, and what it leaves alone                 *)
SetTo(dk, p, d) == dk = [deck EXCEPT ![p] = d]
Still == UNCHANGED <<caedVars, running, tape>>
AsksToLoad(p, id) == to_caed' = to_caed \o Loads(p, id)
NoneLeft(p) == /\ Ordered(to_catch, CatchPairs)' /\ \A q : Telling(q)' = IF q = p THEN {} ELSE Telling(q)
               /\ \A q, i : Cut(to_catch, "UR", q, i) /\ q # p => Cut(to_catch', "UR", q, i)
               /\ \A i : Cut(to_catch', "UR", p, i)

(* The deck of a port that is not in use: a window opens or closes on it.        *)
LEMMA DeckKeeps ==
  ASSUME TypesInv, StreamsInv, running, NEW p \in Ports, p \notin Busy, NEW d, d.status \in {"Idle", "Waiting"},
         SetTo(deck', p, d), Still, UNCHANGED <<to_catch, to_caed>>
  PROVE  StreamsInv' /\ Busy' = Busy
<1> USE DEF SetTo, Still
<1>1. /\ record_owner[p] # Self /\ Asking(p) \subseteq {"SR"} /\ Telling(p) = {}
      /\ \A id : Cut(to_caed, "LR", p, id) /\ Cut(to_catch, "UR", p, id)
  BY FreePort
<1>2. UNCHANGED <<record_owner, record_timer>> /\ deck \in [Ports -> RecordDecks]
  BY DEF caedVars, vars, recVars, TypesInv, CatchTypeOK
<1>3. /\ Ordered(to_caed, CaedPairs)' /\ Ordered(to_catch, CatchPairs)'
      /\ \A q : Asking(q)' = Asking(q) /\ Telling(q)' = Telling(q)
  BY SameAsked, SameTold DEF StreamsInv
<1>4. deck'[p] = d /\ \A q \in Ports : q # p => deck'[q] = deck[q]
  BY <1>2
<1>5. Elsewhere(p)
  BY <1>2, <1>3, <1>4 DEF Elsewhere
<1>6. CaedFine(record_owner'[p], Asking(p)')
  BY <1>2, <1>3 DEF StreamsInv
<1>7. PortFine(p)'
  <2>1. CatchFine(record_owner'[p], Asking(p)', Telling(p)', deck'[p].status)
    BY <1>1, <1>2, <1>3, <1>4 DEF CatchFine, FreeFine
  <2>2. TimerFine(record_owner'[p], Asking(p)', Telling(p)', record_timer'[p])
    BY <1>1, <1>2 DEF TimerFine
  <2>3. Cut(to_caed', "LR", p, deck'[p].id) /\ Cut(to_catch', "UR", p, deck'[p].id)
    BY <1>1
  <2> QED BY <1>1, <1>2, <2>1, <2>2, <2>3, PortFinePrimed
<1>8. StreamsInv'
  BY <1>3, <1>5, <1>6, <1>7, OnePort
<1>9. Busy' = Busy
  BY <1>2, <1>3, <1>5, SameBusy DEF Busy, InUse
<1> QED BY <1>8, <1>9

(* A recording is started on a port that is not in use, or that the answer just  *)
(* handed over took out of use.                                                  *)
LEMMA StartKeeps ==
  ASSUME TypesInv, StreamsInv, running, NEW p \in Ports, record_owner[p] # Self, Asking(p) \subseteq {"SR"},
         NEW id \in Nat, NEW d, d.status \in {"Idle", "Waiting"}, d.id = id,
         SetTo(deck', p, d), AsksToLoad(p, id), NoneLeft(p), Still
  PROVE  StreamsInv' /\ Busy' = Busy \cup {p}
<1> USE DEF SetTo, Still, NoneLeft, AsksToLoad
<1>2. UNCHANGED <<record_owner, record_timer>> /\ deck \in [Ports -> RecordDecks] /\ Carried
  BY DEF caedVars, vars, recVars, TypesInv, CatchTypeOK
<1>3. /\ Ordered(to_caed, CaedPairs)'
      /\ \A q : Asking(q)' = IF q = p THEN Asking(q) \cup {"LR", "RD"} ELSE Asking(q)
      /\ \A q, i : Cut(to_caed, "LR", q, i) /\ (q = p => id = i) => Cut(to_caed', "LR", q, i)
  BY <1>2, LoadStream DEF StreamsInv
<1>4. deck'[p] = d /\ \A q \in Ports : q # p => deck'[q] = deck[q]
  BY <1>2
<1>5. Elsewhere(p)
  BY <1>2, <1>3, <1>4 DEF Elsewhere
<1>6. CaedFine(record_owner'[p], Asking(p)')
  BY <1>2, <1>3 DEF StreamsInv, CaedFine
<1>7. PortFine(p)'
  <2>1. CatchFine(record_owner'[p], Asking(p)', Telling(p)', deck'[p].status)
    BY <1>2, <1>3, <1>4 DEF CatchFine, FreeFine
  <2>2. TimerFine(record_owner'[p], Asking(p)', Telling(p)', record_timer'[p])
    BY <1>2 DEF TimerFine
  <2>3. Cut(to_caed, "LR", p, id)
    <3>1. "LR" \notin Asking(p)
      OBVIOUS
    <3> QED BY <3>1 DEF Cut, Asking, Has
  <2>4. Cut(to_caed', "LR", p, deck'[p].id) /\ Cut(to_catch', "UR", p, deck'[p].id)
    BY <1>3, <1>4, <2>3
  <2> QED BY <1>2, <2>1, <2>2, <2>4, PortFinePrimed
<1>8. StreamsInv'
  BY <1>3, <1>5, <1>6, <1>7, OnePort
<1>9. Busy' = Busy \cup {p}
  <2>1. p \in Busy'
    BY <1>3, <1>5, BusyIs DEF InUse
  <2>2. \A q \in Ports : q # p => (q \in Busy' <=> q \in Busy)
    BY <1>5, BusyIs
  <2>3. Busy \subseteq Ports /\ Busy' \subseteq Ports
    BY DEF Busy
  <2> QED BY <2>1, <2>2, <2>3
<1> QED BY <1>8, <1>9

(* The stop of a quiet port is asked for.                                        *)
LEMMA StopKeeps ==
  ASSUME TypesInv, StreamsInv, running, NEW p \in Ports, Quiet(p),
         \A q \in Ports : deck'[q].status = deck[q].status /\ deck'[q].id = deck[q].id,
         to_caed' = to_caed \o <<Cmd("SR", p, 0)>>, UNCHANGED <<caedVars, running, tape, to_catch>>
  PROVE  StreamsInv' /\ Busy' = Busy
<1>1. Asking(p) = {} /\ Telling(p) = {} /\ (p \in Busy <=> record_owner[p] = Self)
  BY QuietPort
<1>2. UNCHANGED <<record_owner, record_timer>> /\ Carried
  BY DEF caedVars, vars, recVars, TypesInv
<1>3. /\ Ordered(to_caed, CaedPairs)'
      /\ \A q : Asking(q)' = IF q = p THEN Asking(q) \cup {"SR"} ELSE Asking(q)
      /\ \A q, i : Cut(to_caed, "LR", q, i) => Cut(to_caed', "LR", q, i)
  BY <1>1, <1>2, AskedStream DEF StreamsInv
<1>4. Ordered(to_catch, CatchPairs)' /\ \A q : Telling(q)' = Telling(q)
  BY SameTold DEF StreamsInv
<1>5. Elsewhere(p)
  BY <1>2, <1>3, <1>4 DEF Elsewhere
<1>6. PortFine(p) /\ CaedFine(record_owner[p], Asking(p))
  BY DEF StreamsInv
<1>7. CaedFine(record_owner'[p], Asking(p)')
  BY <1>1, <1>2, <1>3, <1>6 DEF CaedFine
<1>8. PortFine(p)'
  <2>1. CatchFine(record_owner'[p], Asking(p)', Telling(p)', deck'[p].status)
    BY <1>1, <1>2, <1>3, <1>4, <1>6 DEF PortFine, CatchFine, LoadedFine, FreeFine
  <2>2. FALSE \notin Timed => TimerFine(record_owner'[p], Asking(p)', Telling(p)', record_timer'[p])
    BY <1>1, <1>2, <1>3, <1>4, <1>6 DEF PortFine, TimerFine
  <2>3. /\ record_owner'[p] = Self => tape'[p] = deck'[p].id
        /\ Cut(to_caed', "LR", p, deck'[p].id) /\ Cut(to_catch', "UR", p, deck'[p].id)
    BY <1>2, <1>3, <1>6 DEF PortFine, CutsFine
  <2> QED BY <2>1, <2>2, <2>3, PortFinePrimed
<1>9. StreamsInv'
  BY <1>3, <1>4, <1>5, <1>7, <1>8, OnePort
<1>10. Busy' = Busy
  BY <1>1, <1>2, <1>3, <1>4, <1>5, SameBusy DEF InUse
<1> QED BY <1>9, <1>10

(* Nothing the ports depend on changes.                                          *)
LEMMA QuietKeeps ==
  ASSUME TypesInv, StreamsInv, running,
         \A q \in Ports : deck'[q].id = deck[q].id /\
           \/ deck'[q].status = deck[q].status
           \/ deck[q].status \in {"Idle", "Ready"} /\ deck'[q].status = "Idle",
         UNCHANGED <<caedVars, running, tape, to_catch, to_caed>>
  PROVE  StreamsInv' /\ Busy' = Busy
<1>1. UNCHANGED <<record_owner, record_timer>>
  BY DEF caedVars, vars, recVars
<1>2. /\ Ordered(to_caed, CaedPairs)' /\ Ordered(to_catch, CatchPairs)'
      /\ \A q : Asking(q)' = Asking(q) /\ Telling(q)' = Telling(q)
  BY SameAsked, SameTold DEF StreamsInv
<1>3. ASSUME NEW q \in Ports PROVE PortFine(q)' /\ CaedFine(record_owner[q], Asking(q))'
  <2>1. PortFine(q) /\ CaedFine(record_owner[q], Asking(q))
    BY <1>1 DEF StreamsInv
  <2>2. CatchFine(record_owner'[q], Asking(q)', Telling(q)', deck'[q].status)
    BY <1>1, <1>2, <2>1 DEF PortFine, CatchFine, LoadedFine, UnloadedFine, FreeFine
  <2>3. FALSE \notin Timed => TimerFine(record_owner'[q], Asking(q)', Telling(q)', record_timer'[q])
    BY <1>1, <1>2, <2>1 DEF PortFine
  <2>4. /\ record_owner'[q] = Self => tape'[q] = deck'[q].id
        /\ Cut(to_caed', "LR", q, deck'[q].id) /\ Cut(to_catch', "UR", q, deck'[q].id)
    BY <1>1, <2>1 DEF PortFine, CutsFine
  <2>5. CaedFine(record_owner[q], Asking(q))'
    BY <1>1, <1>2, <2>1 DEF CaedFine
  <2> QED BY <2>2, <2>3, <2>4, <2>5, PortFinePrimed
<1>4. StreamsInv'
  BY <1>2, <1>3 DEF StreamsInv
<1>5. Busy' = Busy
  BY <1>1, <1>2 DEF Busy, InUse
<1> QED BY <1>4, <1>5

--------------------------------------------------------------------------------
(* The events, the decks and the timers, one change at a time.                   *)

Same(f, e) == f.id = e.id /\ f.deck = e.deck /\ f.start = e.start /\ f.once = e.once /\ f.multi = e.multi
EventsTyped(ev, dk, U) == /\ ev \in Seq(Events) /\ Unique(ev) /\ U \subseteq Ports /\ dk \in [Ports -> RecordDecks]

WithRml(u, ev, p) == u = Append(ev, RmlStarted(p))
NoDynamic(ev) == \A j \in DOMAIN ev : ~IsDynamic(ev[j])
OnlyPending(dk, p) == \A q \in Ports : dk[q].pending => q = p
NoClaim(ev, p, lk) == \A j \in DOMAIN ev : ev[j].deck = p => ~Claims(ev[j], lk)

LEMMA OnDecks ==
  ASSUME NEW ev, NEW dk, NEW U, EventsTyped(ev, dk, U)
  PROVE  \A j \in DOMAIN ev : ev[j] \in Events /\ ev[j].deck \in Ports /\ ev[j].id \in Nat
<1>1. \A j \in DOMAIN ev : ev[j] \in Events
  BY LenProperties, ElementOfSeq DEF EventsTyped
<1> QED BY <1>1, FieldTypes

LEMMA SetDeck ==
  ASSUME NEW dk \in [Ports -> RecordDecks], NEW p \in Ports, NEW d, NEW c, c = [dk EXCEPT ![p] = d]
  PROVE  c[p] = d /\ \A q \in Ports : q # p => c[q] = dk[q]
OBVIOUS

(* On a deck that is not in use, only the event that waits there is not idle.    *)
LEMMA OneWaits ==
  ASSUME NEW ev, NEW dk, NEW lk, NEW U, EventsTyped(ev, dk, U), EventsFine(ev, dk, lk, U),
         NEW j \in DOMAIN ev, ev[j].deck \notin U
  PROVE  /\ ev[j].status # "Idle" => Claims(ev[j], lk)
         /\ \E n \in DOMAIN Schedule : Scheduled(ev[j], n)
<1>1. ev[j].deck \in Ports
  BY LenProperties, ElementOfSeq, FieldTypes DEF EventsTyped
<1>2. \E n \in DOMAIN Schedule : Scheduled(ev[j], n)
  BY DEF EventsFine, Known, ByRml
<1>3. ASSUME ev[j].status # "Idle" PROVE Claims(ev[j], lk)
  <2>1. dk[ev[j].deck].id = ev[j].id /\ dk[ev[j].deck].status = "Waiting"
    BY <1>3 DEF EventsFine, Shown
  <2>2. PICK k \in DOMAIN ev : Claims(ev[k], lk) /\ ev[k].id = dk[ev[j].deck].id
    BY <1>1, <2>1 DEF EventsFine, Awaited
  <2>3. k = j
    BY <2>1, <2>2 DEF EventsTyped, Unique
  <2> QED BY <2>2, <2>3
<1> QED BY <1>2, <1>3

LEMMA EvStart ==
  ASSUME NEW ev, NEW dk, NEW lk, NEW U, EventsTyped(ev, dk, U), EventsFine(ev, dk, lk, U),
         NEW k \in DOMAIN ev, NEW p, p = ev[k].deck, p \notin U, ev[k].id \notin lk,
         \A j \in DOMAIN ev : j # k /\ ev[j].deck = p => ~Claims(ev[j], lk),
         NEW f \in Events, Same(f, ev[k]), f.status = "Recording", ~f.window, ~f.delay,
         NEW d, d.id = ev[k].id, d.pending = dk[p].pending,
         NEW u, u = [ev EXCEPT ![k] = f], NEW c, c = [dk EXCEPT ![p] = d]
  PROVE  EventsFine(u, c, lk, U \cup {p})
<1>1. /\ DOMAIN u = DOMAIN ev /\ u[k] = f /\ (\A j \in DOMAIN ev : j # k => u[j] = ev[j]) /\ Len(u) = Len(ev)
  BY SetEntry DEF EventsTyped
<1>2. p \in Ports /\ c[p] = d /\ (\A q \in Ports : q # p => c[q] = dk[q]) /\ U \subseteq Ports
      /\ \A j \in DOMAIN ev : ev[j].deck \in Ports
  BY OnDecks, SetDeck DEF EventsTyped
<1>3. \A j \in DOMAIN ev : Same(u[j], ev[j])
  BY <1>1 DEF Same
<1>4. \A j \in DOMAIN ev : ev[j].deck = p => /\ j # k => ev[j].status = "Idle"
                                             /\ \E n \in DOMAIN Schedule : Scheduled(ev[j], n)
  BY OneWaits
<1>5. ~Claims(f, lk)
  BY DEF Claims, Same
<1>6. \A j \in DOMAIN ev : Claims(u[j], lk) => j # k /\ Claims(ev[j], lk) /\ ev[j].deck # p
  BY <1>1, <1>5
<1>7. Known(u, c, U \cup {p})
  <2> SUFFICES ASSUME NEW j \in DOMAIN u
               PROVE (\E n \in DOMAIN Schedule : Scheduled(u[j], n)) \/ ByRml(u, c, U \cup {p}, j)
    BY DEF Known
  <2>1. CASE \E n \in DOMAIN Schedule : Scheduled(ev[j], n)
    BY <1>1, <1>3, <2>1 DEF Scheduled, Same
  <2>2. CASE ByRml(ev, dk, U, j)
    <3>1. j # k /\ ev[j].deck # p
      BY <2>2 DEF ByRml
    <3> QED BY <1>1, <1>2, <2>2, <3>1 DEF ByRml
  <2> QED BY <1>1, <2>1, <2>2 DEF EventsFine, Known
<1>8. OneTimer(u, lk)
  BY <1>1 DEF EventsFine, OneTimer
<1>9. TimersListed(u, lk)
  BY <1>1, <1>3 DEF EventsFine, TimersListed, Same
<1>10. OneClaim(u, lk, U \cup {p})
  BY <1>1, <1>3, <1>6 DEF EventsFine, OneClaim, Same
<1>11. Awaited(u, c, lk, U \cup {p})
  <2> SUFFICES ASSUME NEW q \in Ports \ (U \cup {p}), c[q].status = "Waiting"
               PROVE  \E j \in DOMAIN u : Claims(u[j], lk) /\ u[j].deck = q /\ u[j].id = c[q].id
    BY DEF Awaited
  <2>1. q # p /\ c[q] = dk[q] /\ q \in Ports \ U
    BY <1>2
  <2>2. PICK j \in DOMAIN ev : Claims(ev[j], lk) /\ ev[j].deck = q /\ ev[j].id = dk[q].id
    BY <2>1 DEF EventsFine, Awaited
  <2> QED BY <1>1, <2>1, <2>2
<1>12. Shown(u, c, U \cup {p})
  <2> SUFFICES ASSUME NEW j \in DOMAIN u, u[j].status # "Idle"
               PROVE  /\ c[u[j].deck].id = u[j].id
                      /\ u[j].status = IF u[j].deck \in U \cup {p} THEN "Recording" ELSE "Waiting"
                      /\ u[j].status = "Waiting" => c[u[j].deck].status = "Waiting"
    BY DEF Shown
  <2>1. CASE j = k
    BY <1>1, <1>2, <2>1 DEF Same
  <2>2. CASE j # k
    <3>1. u[j] = ev[j] /\ ev[j].deck # p /\ c[ev[j].deck] = dk[ev[j].deck]
      BY <1>1, <1>2, <1>4, <2>2
    <3> QED BY <1>1, <3>1 DEF EventsFine, Shown
  <2> QED BY <2>1, <2>2
<1>13. Credited(u, c, U \cup {p})
  <2>1. \E n \in DOMAIN Schedule : Schedule[n].id = c[p].id /\ Schedule[n].deck = p
    BY <1>2, <1>4 DEF Scheduled
  <2>2. ASSUME NEW q \in U
        PROVE  \/ \E n \in DOMAIN Schedule : Schedule[n].id = c[q].id /\ Schedule[n].deck = q
               \/ c[q].id = Base /\ \E j \in DOMAIN u : u[j].id = Base /\ u[j].deck = q
    BY <1>1, <1>2, <1>3 DEF EventsFine, Credited, Same
  <2> QED BY <2>1, <2>2 DEF Credited
<1>14. OneByRml(u, c)
  <2>1. \A q \in Ports : c[q].pending = dk[q].pending
    BY <1>2
  <2> QED BY <1>1, <1>3, <2>1 DEF EventsFine, OneByRml, Same
<1> QED BY <1>7, <1>8, <1>9, <1>10, <1>11, <1>12, <1>13, <1>14 DEF EventsFine

LEMMA EvOpen ==
  ASSUME NEW ev, NEW dk, NEW lk, NEW U, EventsTyped(ev, dk, U), EventsFine(ev, dk, lk, U),
         NEW k \in DOMAIN ev, NEW p, p = ev[k].deck, p \notin U,
         NoClaim(ev, p, lk),
         NEW f \in Events, Same(f, ev[k]), f.status = "Waiting", f.window, ~f.delay,
         NEW d, d.id = ev[k].id, d.pending = dk[p].pending, d.status = "Waiting",
         NEW u, u = [ev EXCEPT ![k] = f], NEW c, c = [dk EXCEPT ![p] = d]
  PROVE  EventsFine(u, c, lk, U)
<1>1. /\ DOMAIN u = DOMAIN ev /\ u[k] = f /\ (\A j \in DOMAIN ev : j # k => u[j] = ev[j]) /\ Len(u) = Len(ev)
  BY SetEntry DEF EventsTyped
<1>2. p \in Ports /\ c[p] = d /\ (\A q \in Ports : q # p => c[q] = dk[q]) /\ U \subseteq Ports
      /\ \A j \in DOMAIN ev : ev[j].deck \in Ports
  BY OnDecks, SetDeck DEF EventsTyped
<1>3. \A j \in DOMAIN ev : Same(u[j], ev[j])
  BY <1>1 DEF Same
<1>4. \A j \in DOMAIN ev : ev[j].deck = p => ev[j].status = "Idle" /\ ~Claims(ev[j], lk)
  BY OneWaits DEF NoClaim
<1>5. ev[k].id \notin lk
  BY <1>4 DEF Claims
<1>6. Known(u, c, U)
  <2> SUFFICES ASSUME NEW j \in DOMAIN u
               PROVE (\E n \in DOMAIN Schedule : Scheduled(u[j], n)) \/ ByRml(u, c, U, j)
    BY DEF Known
  <2>1. CASE \E n \in DOMAIN Schedule : Scheduled(ev[j], n)
    BY <1>1, <1>3, <2>1 DEF Scheduled, Same
  <2>2. CASE ByRml(ev, dk, U, j)
    <3>1. j # k /\ ev[j].deck # p
      BY <2>2 DEF ByRml
    <3> QED BY <1>1, <1>2, <2>2, <3>1 DEF ByRml
  <2> QED BY <1>1, <2>1, <2>2 DEF EventsFine, Known
<1>7. OneTimer(u, lk)
  BY <1>1, <1>5 DEF EventsFine, OneTimer, Same
<1>8. TimersListed(u, lk)
  BY <1>1, <1>3 DEF EventsFine, TimersListed, Same
<1>9. \A j \in DOMAIN ev : j # k /\ Claims(u[j], lk) => Claims(ev[j], lk) /\ ev[j].deck # p
  BY <1>1, <1>4
<1>10. OneClaim(u, lk, U)
  BY <1>1, <1>3, <1>9 DEF EventsFine, OneClaim, Same
<1>11. Awaited(u, c, lk, U)
  <2> SUFFICES ASSUME NEW q \in Ports \ U, c[q].status = "Waiting"
               PROVE  \E j \in DOMAIN u : Claims(u[j], lk) /\ u[j].deck = q /\ u[j].id = c[q].id
    BY DEF Awaited
  <2>1. CASE q = p
    <3>1. Claims(u[k], lk) /\ u[k].deck = q /\ u[k].id = c[q].id
      BY <1>1, <1>2, <2>1 DEF Claims, Same
    <3> QED BY <1>1, <3>1
  <2>2. CASE q # p
    <3>1. PICK j \in DOMAIN ev : Claims(ev[j], lk) /\ ev[j].deck = q /\ ev[j].id = dk[q].id
      BY <1>2, <2>2 DEF EventsFine, Awaited
    <3> QED BY <1>1, <1>2, <2>2, <3>1
  <2> QED BY <2>1, <2>2
<1>12. Shown(u, c, U)
  <2> SUFFICES ASSUME NEW j \in DOMAIN u, u[j].status # "Idle"
               PROVE  /\ c[u[j].deck].id = u[j].id
                      /\ u[j].status = IF u[j].deck \in U THEN "Recording" ELSE "Waiting"
                      /\ u[j].status = "Waiting" => c[u[j].deck].status = "Waiting"
    BY DEF Shown
  <2>1. CASE j = k
    BY <1>1, <1>2, <2>1 DEF Same
  <2>2. CASE j # k
    <3>1. u[j] = ev[j] /\ ev[j].deck # p /\ c[ev[j].deck] = dk[ev[j].deck]
      BY <1>1, <1>2, <1>4, <2>2
    <3> QED BY <1>1, <3>1 DEF EventsFine, Shown
  <2> QED BY <2>1, <2>2
<1>13. Credited(u, c, U)
  <2> SUFFICES ASSUME NEW q \in U
      PROVE  \/ \E n \in DOMAIN Schedule : Schedule[n].id = c[q].id /\ Schedule[n].deck = q
             \/ c[q].id = Base /\ \E j \in DOMAIN u : u[j].id = Base /\ u[j].deck = q
    BY DEF Credited
  <2> QED BY <1>1, <1>2, <1>3 DEF EventsFine, Credited, Same
<1>14. OneByRml(u, c)
  <2>1. \A q \in Ports : c[q].pending = dk[q].pending
    BY <1>2
  <2> QED BY <1>1, <1>3, <2>1 DEF EventsFine, OneByRml, Same
<1> QED BY <1>6, <1>7, <1>8, <1>10, <1>11, <1>12, <1>13, <1>14 DEF EventsFine

(* The GPI line of an event in its window: the delay before it starts begins.    *)
LEMMA EvDelay ==
  ASSUME NEW ev, NEW dk, NEW lk, NEW U, EventsTyped(ev, dk, U), EventsFine(ev, dk, lk, U),
         NEW k \in DOMAIN ev, ev[k].window,
         NEW f \in Events, Same(f, ev[k]), f.status = ev[k].status, ~f.window, f.delay,
         NEW u, u = [ev EXCEPT ![k] = f]
  PROVE  EventsFine(u, dk, lk, U)
<1>1. /\ DOMAIN u = DOMAIN ev /\ u[k] = f /\ (\A j \in DOMAIN ev : j # k => u[j] = ev[j]) /\ Len(u) = Len(ev)
  BY SetEntry DEF EventsTyped
<1>2. \A j \in DOMAIN ev : Same(u[j], ev[j]) /\ (Claims(u[j], lk) <=> Claims(ev[j], lk)) /\ u[j].status = ev[j].status
  BY <1>1 DEF Same, Claims
<1>3. Known(u, dk, U)
  <2> SUFFICES ASSUME NEW j \in DOMAIN u
               PROVE (\E n \in DOMAIN Schedule : Scheduled(u[j], n)) \/ ByRml(u, dk, U, j)
    BY DEF Known
  <2>1. CASE \E n \in DOMAIN Schedule : Scheduled(ev[j], n)
    BY <1>1, <1>2, <2>1 DEF Scheduled, Same
  <2>2. CASE ByRml(ev, dk, U, j)
    BY <1>1, <2>2 DEF ByRml
  <2> QED BY <1>1, <2>1, <2>2 DEF EventsFine, Known
<1>4. OneTimer(u, lk)
  BY <1>1 DEF EventsFine, OneTimer, Same
<1>5. TimersListed(u, lk)
  BY <1>1, <1>2 DEF EventsFine, TimersListed, Same
<1>6. OneClaim(u, lk, U)
  BY <1>1, <1>2 DEF EventsFine, OneClaim, Same
<1>7. Awaited(u, dk, lk, U)
  <2> SUFFICES ASSUME NEW q \in Ports \ U, dk[q].status = "Waiting"
               PROVE  \E j \in DOMAIN u : Claims(u[j], lk) /\ u[j].deck = q /\ u[j].id = dk[q].id
    BY DEF Awaited
  <2>1. PICK j \in DOMAIN ev : Claims(ev[j], lk) /\ ev[j].deck = q /\ ev[j].id = dk[q].id
    BY DEF EventsFine, Awaited
  <2> QED BY <1>1, <1>2, <2>1 DEF Same
<1>8. Shown(u, dk, U)
  BY <1>1, <1>2 DEF EventsFine, Shown, Same
<1>9. Credited(u, dk, U)
  <2> SUFFICES ASSUME NEW q \in U
      PROVE  \/ \E n \in DOMAIN Schedule : Schedule[n].id = dk[q].id /\ Schedule[n].deck = q
             \/ dk[q].id = Base /\ \E j \in DOMAIN u : u[j].id = Base /\ u[j].deck = q
    BY DEF Credited
  <2> QED BY <1>1, <1>2 DEF EventsFine, Credited, Same
<1>10. OneByRml(u, dk)
  BY <1>1, <1>2 DEF EventsFine, OneByRml, Same
<1> QED BY <1>3, <1>4, <1>5, <1>6, <1>7, <1>8, <1>9, <1>10 DEF EventsFine

(* A window closes, or the wait for it ends: the deck is free again.             *)
LEMMA EvClose ==
  ASSUME NEW ev, NEW dk, NEW lk, NEW U, EventsTyped(ev, dk, U), EventsFine(ev, dk, lk, U),
         NEW k \in DOMAIN ev, Claims(ev[k], lk), NEW p, p = ev[k].deck,
         NEW f \in Events, Same(f, ev[k]), f.status = "Idle", f.window => ev[k].window, f.delay => ev[k].delay,
         NEW d, d.pending = dk[p].pending, d.status = "Idle",
         NEW l, l \subseteq lk, \A id \in lk : id # ev[k].id => id \in l,
         NEW u, u = [ev EXCEPT ![k] = f], NEW c, c = [dk EXCEPT ![p] = d]
  PROVE  EventsFine(u, c, l, U)
<1>0. p \notin U /\ \A j \in DOMAIN ev : Claims(ev[j], lk) /\ ev[j].deck = p => j = k
  BY DEF EventsFine, OneClaim
<1>1. /\ DOMAIN u = DOMAIN ev /\ u[k] = f /\ (\A j \in DOMAIN ev : j # k => u[j] = ev[j]) /\ Len(u) = Len(ev)
  BY SetEntry DEF EventsTyped
<1>2. p \in Ports /\ c[p] = d /\ (\A q \in Ports : q # p => c[q] = dk[q]) /\ U \subseteq Ports
      /\ \A j \in DOMAIN ev : ev[j].deck \in Ports
  BY OnDecks, SetDeck DEF EventsTyped
<1>3. \A j \in DOMAIN ev : Same(u[j], ev[j])
  BY <1>1 DEF Same
<1>4. \A j \in DOMAIN ev : ev[j].deck = p => u[j].status = "Idle"
  <2>1. \A j \in DOMAIN ev : ev[j].deck = p /\ ev[j].status # "Idle" => j = k
    BY <1>0, OneWaits
  <2> QED BY <1>1, <2>1
<1>5. /\ \A j \in DOMAIN ev : Claims(u[j], l) => Claims(ev[j], lk)
      /\ \A j \in DOMAIN ev : j # k /\ Claims(ev[j], lk) => Claims(u[j], l)
  <2>1. \A j \in DOMAIN ev : j # k => ev[j].id # ev[k].id
    BY DEF EventsTyped, Unique
  <2> QED BY <1>1, <2>1 DEF Claims, Same
<1>6. Known(u, c, U)
  <2> SUFFICES ASSUME NEW j \in DOMAIN u
               PROVE (\E n \in DOMAIN Schedule : Scheduled(u[j], n)) \/ ByRml(u, c, U, j)
    BY DEF Known
  <2>1. CASE \E n \in DOMAIN Schedule : Scheduled(ev[j], n)
    BY <1>1, <1>3, <2>1 DEF Scheduled, Same
  <2>2. CASE ByRml(ev, dk, U, j)
    <3>1. j # k /\ ev[j].deck # p
      BY <1>0, <2>2 DEF ByRml
    <3> QED BY <1>1, <1>2, <2>2, <3>1 DEF ByRml
  <2> QED BY <1>1, <2>1, <2>2 DEF EventsFine, Known
<1>7. OneTimer(u, l)
  BY <1>1, <1>3 DEF EventsFine, OneTimer, Same
<1>8. TimersListed(u, l)
  BY <1>1, <1>3 DEF EventsFine, TimersListed, Same
<1>9. OneClaim(u, l, U)
  BY <1>1, <1>3, <1>5 DEF EventsFine, OneClaim, Same
<1>10. Awaited(u, c, l, U)
  <2> SUFFICES ASSUME NEW q \in Ports \ U, c[q].status = "Waiting"
               PROVE  \E j \in DOMAIN u : Claims(u[j], l) /\ u[j].deck = q /\ u[j].id = c[q].id
    BY DEF Awaited
  <2>1. q # p /\ c[q] = dk[q]
    BY <1>2
  <2>2. PICK j \in DOMAIN ev : Claims(ev[j], lk) /\ ev[j].deck = q /\ ev[j].id = dk[q].id
    BY <2>1 DEF EventsFine, Awaited
  <2> QED BY <1>1, <1>5, <2>1, <2>2
<1>11. Shown(u, c, U)
  <2> SUFFICES ASSUME NEW j \in DOMAIN u, u[j].status # "Idle"
               PROVE  /\ c[u[j].deck].id = u[j].id
                      /\ u[j].status = IF u[j].deck \in U THEN "Recording" ELSE "Waiting"
                      /\ u[j].status = "Waiting" => c[u[j].deck].status = "Waiting"
    BY DEF Shown
  <2>1. u[j] = ev[j] /\ ev[j].deck # p /\ c[ev[j].deck] = dk[ev[j].deck]
    BY <1>1, <1>2, <1>4
  <2> QED BY <1>1, <2>1 DEF EventsFine, Shown
<1>12. Credited(u, c, U)
  <2> SUFFICES ASSUME NEW q \in U
      PROVE  \/ \E n \in DOMAIN Schedule : Schedule[n].id = c[q].id /\ Schedule[n].deck = q
             \/ c[q].id = Base /\ \E j \in DOMAIN u : u[j].id = Base /\ u[j].deck = q
    BY DEF Credited
  <2> QED BY <1>0, <1>1, <1>2, <1>3 DEF EventsFine, Credited, Same
<1>13. OneByRml(u, c)
  <2>1. \A q \in Ports : c[q].pending = dk[q].pending
    BY <1>2
  <2> QED BY <1>1, <1>3, <2>1 DEF EventsFine, OneByRml, Same
<1> QED BY <1>6, <1>7, <1>8, <1>9, <1>10, <1>11, <1>12, <1>13 DEF EventsFine

(* A deck changes in what no event depends on.                                   *)
LEMMA EvDeck ==
  ASSUME NEW ev, NEW dk, NEW lk, NEW U, EventsTyped(ev, dk, U), EventsFine(ev, dk, lk, U), NEW c,
         \A q \in Ports : c[q].id = dk[q].id,
         \A q \in Ports : q \notin U => (c[q].status = "Waiting" <=> dk[q].status = "Waiting"), OneByRml(ev, c)
  PROVE  EventsFine(ev, c, lk, U)
<1>1. U \subseteq Ports /\ \A j \in DOMAIN ev : ev[j].deck \in Ports
  BY OnDecks DEF EventsTyped
<1>2. Known(ev, c, U)
  BY <1>1 DEF EventsFine, Known, ByRml
<1>3. Awaited(ev, c, lk, U)
  BY <1>1 DEF EventsFine, Awaited
<1>4. Shown(ev, c, U)
  BY <1>1 DEF EventsFine, Shown
<1>5. Credited(ev, c, U)
  BY <1>1 DEF EventsFine, Credited
<1> QED BY <1>2, <1>3, <1>4, <1>5 DEF EventsFine

(* A recording by RML on a deck that nothing claims, when there is no other.     *)
LEMMA EvRml ==
  ASSUME NEW ev, NEW dk, NEW lk, NEW U, EventsTyped(ev, dk, U), EventsFine(ev, dk, lk, U),
         NEW p \in Ports, p \notin U, NoClaim(ev, p, lk),
         NoDynamic(ev), NEW u, WithRml(u, ev, p),
         NEW c, c[p].id = Base, \A q \in Ports : q # p => c[q] = dk[q], OnlyPending(c, p)
  PROVE  EventsFine(u, c, lk, U \cup {p})
<1> DEFINE e == RmlStarted(p)
           n == Len(ev) + 1
<1>0. /\ e.id = Base /\ e.deck = p /\ e.start = "hard" /\ e.once /\ ~e.window /\ ~e.delay /\ e.status = "Recording"
      /\ e \in Events
  <2>1. e \in Events
    BY RmlEventType, FieldTypes DEF RmlStarted
  <2>2. /\ e.id = Base /\ e.deck = p /\ e.start = "hard" /\ e.once /\ ~e.window /\ ~e.delay
        /\ e.status = "Recording"
    BY DEF RmlStarted, Recorded, RmlEvent
  <2> QED BY <2>1, <2>2
<1> HIDE DEF e
<1>1. /\ DOMAIN u = DOMAIN ev \cup {n} /\ u[n] = e /\ n \notin DOMAIN ev
      /\ (\A j \in DOMAIN ev : u[j] = ev[j]) /\ Len(u) = n
  <2>1. u = Append(ev, e) /\ ev \in Seq(Events)
    BY DEF e, EventsTyped, WithRml
  <2> QED BY <1>0, <2>1, AppendFacts
<1> HIDE DEF n
<1>2. U \subseteq Ports /\ \A j \in DOMAIN ev : ev[j].deck \in Ports
  BY OnDecks DEF EventsTyped
<1>3. \A j \in DOMAIN ev : ev[j].id # Base /\ \E m \in DOMAIN Schedule : Scheduled(ev[j], m)
  <2>1. \A j \in DOMAIN ev : ev[j].id # Base
    BY CatchAssumption DEF NoDynamic, IsDynamic
  <2> QED BY <2>1 DEF EventsFine, Known, ByRml
<1>4. \A j \in DOMAIN ev : ev[j].deck = p => ev[j].status = "Idle" /\ ~Claims(ev[j], lk)
  BY OneWaits DEF NoClaim
<1>5. Base \notin lk
  BY <1>3 DEF EventsFine, TimersListed
<1>6. ~Claims(u[n], lk) /\ \A j \in DOMAIN ev : Claims(u[j], lk) => Claims(ev[j], lk) /\ ev[j].deck # p
  BY <1>0, <1>1, <1>4, <1>5 DEF Claims
<1>7. Known(u, c, U \cup {p})
  <2>1. ByRml(u, c, U \cup {p}, n)
    BY <1>0, <1>1, <1>2 DEF ByRml
  <2>2. \A j \in DOMAIN ev : \E m \in DOMAIN Schedule : Scheduled(u[j], m)
    BY <1>1, <1>3
  <2> QED BY <1>1, <2>1, <2>2 DEF Known
<1>8. OneTimer(u, lk)
  BY <1>0, <1>1 DEF EventsFine, OneTimer
<1>9. TimersListed(u, lk)
  BY <1>1 DEF EventsFine, TimersListed
<1>10. OneClaim(u, lk, U \cup {p})
  BY <1>1, <1>6 DEF EventsFine, OneClaim
<1>11. Awaited(u, c, lk, U \cup {p})
  <2> SUFFICES ASSUME NEW q \in Ports \ (U \cup {p}), c[q].status = "Waiting"
               PROVE  \E j \in DOMAIN u : Claims(u[j], lk) /\ u[j].deck = q /\ u[j].id = c[q].id
    BY DEF Awaited
  <2>1. q # p /\ c[q] = dk[q] /\ q \in Ports \ U
    BY <1>2
  <2>2. PICK j \in DOMAIN ev : Claims(ev[j], lk) /\ ev[j].deck = q /\ ev[j].id = dk[q].id
    BY <2>1 DEF EventsFine, Awaited
  <2> QED BY <1>1, <2>1, <2>2
<1>12. Shown(u, c, U \cup {p})
  <2> SUFFICES ASSUME NEW j \in DOMAIN u, u[j].status # "Idle"
               PROVE  /\ c[u[j].deck].id = u[j].id
                      /\ u[j].status = IF u[j].deck \in U \cup {p} THEN "Recording" ELSE "Waiting"
                      /\ u[j].status = "Waiting" => c[u[j].deck].status = "Waiting"
    BY DEF Shown
  <2>1. CASE j = n
    BY <1>0, <1>1, <1>2, <2>1
  <2>2. CASE j # n
    <3>1. j \in DOMAIN ev /\ u[j] = ev[j] /\ ev[j].deck # p /\ c[ev[j].deck] = dk[ev[j].deck]
      BY <1>1, <1>2, <1>4, <2>2
    <3> QED BY <3>1 DEF EventsFine, Shown
  <2> QED BY <2>1, <2>2
<1>13. Credited(u, c, U \cup {p})
  <2>1. c[p].id = Base /\ \E j \in DOMAIN u : u[j].id = Base /\ u[j].deck = p
    BY <1>0, <1>1, <1>2
  <2>2. ASSUME NEW q \in U
        PROVE  \/ \E m \in DOMAIN Schedule : Schedule[m].id = c[q].id /\ Schedule[m].deck = q
               \/ c[q].id = Base /\ \E j \in DOMAIN u : u[j].id = Base /\ u[j].deck = q
    BY <1>1, <1>2 DEF EventsFine, Credited
  <2> QED BY <2>1, <2>2 DEF Credited
<1>14. OneByRml(u, c)
  BY <1>0, <1>1, <1>3 DEF OneByRml, OnlyPending
<1> QED BY <1>7, <1>8, <1>9, <1>10, <1>11, <1>12, <1>13, <1>14 DEF EventsFine

(* u is the list ev without the event id, which has no claim, or at most a       *)
(* window that stays open.                                                       *)
LeftOut(u, ev, id) == /\ \A j \in DOMAIN u : \E i \in DOMAIN ev : ev[i].id # id /\ u[j] = ev[i]
                      /\ \A i \in DOMAIN ev : ev[i].id # id => \E j \in DOMAIN u : u[j] = ev[i]
MayGo(ev, id, lk) == \A j \in DOMAIN ev : ~IsDynamic(ev[j]) /\ (ev[j].id = id => ~Claims(ev[j], lk))
MayChange(ev, id) == \A j \in DOMAIN ev : ~IsDynamic(ev[j]) /\ (ev[j].id = id => ~ev[j].delay)
Outlives(l, lk, ev, id) == \A x : x \in l <=> x \in lk \/ (x = id /\ \E i \in DOMAIN ev : ev[i].id = id /\ ev[i].window)
Updated(u, w, n) == u = Append(w, Schedule[n])

(* An event that claims nothing is taken from the list, when there is no         *)
(* recording by RML.                                                             *)
LEMMA EvRemove ==
  ASSUME NEW ev, NEW dk, NEW lk, NEW U, EventsTyped(ev, dk, U), EventsFine(ev, dk, lk, U),
         NEW id, MayGo(ev, id, lk), NEW u \in Seq(Events), Unique(u), LeftOut(u, ev, id)
  PROVE  EventsFine(u, dk, lk, U)
<1> USE DEF MayGo, LeftOut
<1>1. \A j \in DOMAIN ev : ev[j].id # Base
  BY CatchAssumption DEF IsDynamic
<1>2. Known(u, dk, U)
  BY <1>1 DEF EventsFine, Known, ByRml
<1>3. OneTimer(u, lk)
  BY DEF EventsFine, OneTimer
<1>4. TimersListed(u, lk)
  BY DEF EventsFine, TimersListed, Claims
<1>5. OneClaim(u, lk, U)
  BY DEF EventsFine, OneClaim, Unique
<1>6. Awaited(u, dk, lk, U)
  <2> SUFFICES ASSUME NEW q \in Ports \ U, dk[q].status = "Waiting"
               PROVE  \E j \in DOMAIN u : Claims(u[j], lk) /\ u[j].deck = q /\ u[j].id = dk[q].id
    BY DEF Awaited
  <2>1. PICK i \in DOMAIN ev : Claims(ev[i], lk) /\ ev[i].deck = q /\ ev[i].id = dk[q].id
    BY DEF EventsFine, Awaited
  <2>2. PICK j \in DOMAIN u : u[j] = ev[i]
    BY <2>1
  <2> QED BY <2>1, <2>2
<1>7. Shown(u, dk, U)
  BY DEF EventsFine, Shown
<1>8. Credited(u, dk, U)
  BY <1>1 DEF EventsFine, Credited
<1>9. OneByRml(u, dk)
  BY <1>1 DEF EventsFine, OneByRml
<1> QED BY <1>2, <1>3, <1>4, <1>5, <1>6, <1>7, <1>8, <1>9 DEF EventsFine

(* An event is replaced by a fresh copy at the end of the list.  The timer of a  *)
(* window that was open stays and claims the deck in its place.                  *)
LEMMA EvUpdate ==
  ASSUME NEW ev, NEW dk, NEW lk, NEW U, EventsTyped(ev, dk, U), EventsFine(ev, dk, lk, U),
         NEW n \in DOMAIN Schedule, NEW id, id = Schedule[n].id,
         MayChange(ev, id), NEW w \in Seq(Events), LeftOut(w, ev, id), NEW u, Updated(u, w, n), Unique(u),
         NEW l, Outlives(l, lk, ev, id)
  PROVE  EventsFine(u, dk, l, U)
<1> USE DEF MayChange, LeftOut, Updated, Outlives
<1> DEFINE m == Len(w) + 1
           e == Schedule[n]
<1>0. e \in Events /\ e.id = id /\ e.status = "Idle" /\ ~e.window /\ ~e.delay
  BY ScheduleFacts DEF Fresh
<1> HIDE DEF e
<1>1. /\ DOMAIN u = DOMAIN w \cup {m} /\ u[m] = e /\ m \notin DOMAIN w /\ (\A j \in DOMAIN w : u[j] = w[j])
  <2>1. u = Append(w, e)
    BY DEF e
  <2> QED BY <1>0, <2>1, AppendFacts
<1> HIDE DEF m
<1>2. \A i \in DOMAIN ev : /\ ev[i].id # Base /\ \E x \in DOMAIN Schedule : Scheduled(ev[i], x)
                           /\ ev[i].id = id => ev[i].deck = e.deck
  <2>1. \A i \in DOMAIN ev : ev[i].id # Base
    BY CatchAssumption DEF IsDynamic
  <2>2. \A i \in DOMAIN ev : \E x \in DOMAIN Schedule : Scheduled(ev[i], x)
    BY <2>1 DEF EventsFine, Known, ByRml
  <2>3. \A i \in DOMAIN ev : ev[i].id = id => ev[i].deck = e.deck
    <3> SUFFICES ASSUME NEW i \in DOMAIN ev, ev[i].id = id PROVE ev[i].deck = Schedule[n].deck
      BY DEF e
    <3>1. PICK x \in DOMAIN Schedule : Scheduled(ev[i], x)
      BY <2>2
    <3>2. x = n
      BY <3>1, ScheduleFacts DEF Scheduled, Unique
    <3> QED BY <3>1, <3>2 DEF Scheduled
  <2> QED BY <2>1, <2>2, <2>3
<1>3. \A j \in DOMAIN w : \E i \in DOMAIN ev :
         ev[i].id # id /\ u[j] = ev[i] /\ (Claims(u[j], l) <=> Claims(ev[i], lk))
  BY <1>1, SMTT(30) DEF Claims
<1>4. \A i \in DOMAIN ev : ev[i].id # id /\ Claims(ev[i], lk) => \E j \in DOMAIN u : u[j] = ev[i] /\ Claims(u[j], l)
  BY <1>1 DEF Claims
<1>5. Claims(u[m], l) <=> \E i \in DOMAIN ev : ev[i].id = id /\ Claims(ev[i], lk)
  <2>1. id \in lk => \E i \in DOMAIN ev : ev[i].id = id
    BY DEF EventsFine, TimersListed
  <2> QED BY <1>0, <1>1, <2>1 DEF Claims
<1>6. Known(u, dk, U)
  <2>1. Scheduled(u[m], n)
    BY <1>1 DEF Scheduled, e
  <2>2. \A j \in DOMAIN w : \E x \in DOMAIN Schedule : Scheduled(u[j], x)
    BY <1>2, <1>3
  <2> QED BY <1>1, <2>1, <2>2 DEF Known
<1>7. OneTimer(u, l)
  <2>1. \A j \in DOMAIN w : ~(u[j].window /\ u[j].delay) /\ (u[j].window \/ u[j].delay => u[j].id \notin l)
    BY <1>3, ZenonT(60) DEF EventsFine, OneTimer
  <2> QED BY <1>0, <1>1, <2>1 DEF OneTimer
<1>8. TimersListed(u, l)
  <2> SUFFICES ASSUME NEW x \in l PROVE \E j \in DOMAIN u : u[j].id = x
    BY DEF TimersListed
  <2>1. CASE x = id
    BY <1>0, <1>1, <2>1
  <2>2. CASE x # id
    <3>1. PICK i \in DOMAIN ev : ev[i].id = x
      BY <2>2 DEF EventsFine, TimersListed
    <3> QED BY <1>1, <2>2, <3>1
  <2> QED BY <2>1, <2>2
<1>9. \A j \in DOMAIN u : Claims(u[j], l) =>
         \E i \in DOMAIN ev : ev[i].id = u[j].id /\ ev[i].deck = u[j].deck /\ Claims(ev[i], lk)
  <2> SUFFICES ASSUME NEW j \in DOMAIN u, Claims(u[j], l)
               PROVE  \E i \in DOMAIN ev : ev[i].id = u[j].id /\ ev[i].deck = u[j].deck /\ Claims(ev[i], lk)
    OBVIOUS
  <2>1. CASE j = m
    <3>1. PICK i \in DOMAIN ev : ev[i].id = id /\ Claims(ev[i], lk)
      BY <1>5, <2>1
    <3> QED BY <1>0, <1>1, <1>2, <2>1, <3>1
  <2>2. CASE j \in DOMAIN w
    <3>1. PICK i \in DOMAIN ev : u[j] = ev[i] /\ (Claims(u[j], l) <=> Claims(ev[i], lk))
      BY <1>3, <2>2
    <3> QED BY <3>1
  <2> QED BY <1>1, <2>1, <2>2
<1>10. OneClaim(u, l, U)
  <2>1. \A j \in DOMAIN u : Claims(u[j], l) => u[j].deck \notin U
    BY <1>9 DEF EventsFine, OneClaim
  <2>2. ASSUME NEW j \in DOMAIN u, NEW k \in DOMAIN u, Claims(u[j], l), Claims(u[k], l), u[j].deck = u[k].deck
        PROVE  j = k
    <3>1. PICK a \in DOMAIN ev : ev[a].id = u[j].id /\ ev[a].deck = u[j].deck /\ Claims(ev[a], lk)
      BY <1>9, <2>2
    <3>2. PICK b \in DOMAIN ev : ev[b].id = u[k].id /\ ev[b].deck = u[k].deck /\ Claims(ev[b], lk)
      BY <1>9, <2>2
    <3>3. a = b
      BY <2>2, <3>1, <3>2 DEF EventsFine, OneClaim
    <3> QED BY <3>1, <3>2, <3>3 DEF Unique
  <2> QED BY <2>1, <2>2 DEF OneClaim
<1>11. Awaited(u, dk, l, U)
  <2> SUFFICES ASSUME NEW q \in Ports \ U, dk[q].status = "Waiting"
               PROVE  \E j \in DOMAIN u : Claims(u[j], l) /\ u[j].deck = q /\ u[j].id = dk[q].id
    BY DEF Awaited
  <2>1. PICK i \in DOMAIN ev : Claims(ev[i], lk) /\ ev[i].deck = q /\ ev[i].id = dk[q].id
    BY DEF EventsFine, Awaited
  <2>2. CASE ev[i].id = id
    <3>1. Claims(u[m], l) /\ u[m].deck = q /\ u[m].id = dk[q].id
      BY <1>0, <1>1, <1>2, <1>5, <2>1, <2>2
    <3> QED BY <1>1, <3>1
  <2>3. CASE ev[i].id # id
    BY <1>4, <2>1, <2>3
  <2> QED BY <2>2, <2>3
<1>12. Shown(u, dk, U)
  <2>1. \A j \in DOMAIN u : u[j].status # "Idle" => \E i \in DOMAIN ev : u[j] = ev[i]
    BY <1>0, <1>1, <1>3
  <2> QED BY <2>1 DEF EventsFine, Shown
<1>13. Credited(u, dk, U)
  BY <1>2 DEF EventsFine, Credited
<1>14. OneByRml(u, dk)
  <2>1. \A j \in DOMAIN u : u[j].id # Base
    <3>1. u[m].id # Base
      BY <1>0, <1>1, ScheduleFacts, CatchAssumption
    <3>2. ASSUME NEW j \in DOMAIN w PROVE u[j].id # Base
      <4>1. PICK i \in DOMAIN ev : u[j] = ev[i]
        BY <1>3
      <4> QED BY <1>2, <4>1
    <3> QED BY <1>1, <3>1, <3>2
  <2> QED BY <2>1 DEF EventsFine, OneByRml
<1> QED BY <1>6, <1>7, <1>8, <1>10, <1>11, <1>12, <1>13, <1>14 DEF EventsFine

(* The daemon starts with the schedule and idle decks.                           *)
LEMMA EvInit ==
  ASSUME NEW dk, dk = [p \in Ports |-> IdleDeck]
  PROVE  EventsFine(Schedule, dk, {}, {})
<1>1. \A p \in Ports : dk[p].status = "Idle" /\ ~dk[p].pending
  BY DEF IdleDeck
<1>2. \A k \in DOMAIN Schedule : Schedule[k].status = "Idle" /\ ~Schedule[k].window /\ ~Schedule[k].delay
  BY ScheduleFacts DEF Fresh
<1>3. \A k \in DOMAIN Schedule : Scheduled(Schedule[k], k)
  BY DEF Scheduled
<1>4. Known(Schedule, dk, {})
  BY <1>3 DEF Known
<1>5. OneTimer(Schedule, {}) /\ TimersListed(Schedule, {}) /\ OneClaim(Schedule, {}, {})
  BY <1>2 DEF OneTimer, TimersListed, OneClaim, Claims
<1>6. Awaited(Schedule, dk, {}, {}) /\ Shown(Schedule, dk, {}) /\ Credited(Schedule, dk, {}) /\ OneByRml(Schedule, dk)
  BY <1>1, <1>2 DEF Awaited, Shown, Credited, OneByRml
<1> QED BY <1>4, <1>5, <1>6 DEF EventsFine

--------------------------------------------------------------------------------
(* recordUnloadedData(): a deck goes out of use.                                 *)

(* The event a deck in use names is on that deck.                                *)
LEMMA CreditedEvent ==
  ASSUME NEW ev, NEW dk, NEW lk, NEW U, EventsTyped(ev, dk, U), EventsFine(ev, dk, lk, U),
         NEW p \in U, NEW k \in DOMAIN ev, ev[k].id = dk[p].id
  PROVE  ev[k].deck = p
<1>1. CASE \E n \in DOMAIN Schedule : Schedule[n].id = dk[p].id /\ Schedule[n].deck = p
  <2>1. PICK n \in DOMAIN Schedule : Schedule[n].id = dk[p].id /\ Schedule[n].deck = p
    BY <1>1
  <2>2. ev[k].id # Base
    BY <2>1, ScheduleFacts, CatchAssumption
  <2>3. PICK x \in DOMAIN Schedule : Scheduled(ev[k], x)
    BY <2>2 DEF EventsFine, Known, ByRml
  <2>4. x = n
    BY <2>1, <2>3, ScheduleFacts DEF Scheduled, Unique
  <2> QED BY <2>1, <2>3, <2>4 DEF Scheduled
<1>2. CASE dk[p].id = Base /\ \E j \in DOMAIN ev : ev[j].id = Base /\ ev[j].deck = p
  BY <1>2 DEF EventsTyped, Unique
<1> QED BY <1>1, <1>2 DEF EventsFine, Credited

(* What becomes of the events: those of other decks stay as they are, none is    *)
(* new, and the one that was recorded is idle or, recorded once, gone.           *)
Copy(f, e) == Same(f, e) /\ f.window = e.window /\ f.delay = e.delay /\ f.status \in {"Idle", e.status}
NoneNew(u, ev, id) ==
  \A j \in DOMAIN u : \E i \in DOMAIN ev : /\ Copy(u[j], ev[i]) /\ (i = Len(ev) => j = Len(u))
                                           /\ ev[i].id = id => u[j].status = "Idle" /\ ~ev[i].once
OthersStay(u, ev, p) == \A i \in DOMAIN ev : ev[i].deck # p => \E j \in DOMAIN u : Copy(u[j], ev[i])

LEMMA StillUnclaimed ==
  ASSUME NEW ev, NEW dk, NEW lk, NEW U, EventsFine(ev, dk, lk, U), NEW p \in U, NEW u, NoneNew(u, ev, dk[p].id)
  PROVE  NoClaim(u, p, lk)
<1> SUFFICES ASSUME NEW j \in DOMAIN u, u[j].deck = p, Claims(u[j], lk) PROVE FALSE
  BY DEF NoClaim
<1>1. PICK i \in DOMAIN ev : Copy(u[j], ev[i])
  BY DEF NoneNew
<1>2. Claims(ev[i], lk) /\ ev[i].deck = p
  BY <1>1 DEF Copy, Same, Claims
<1> QED BY <1>2 DEF EventsFine, OneClaim

LEMMA EvUnload ==
  ASSUME NEW ev, NEW dk, NEW lk, NEW U, EventsTyped(ev, dk, U), EventsFine(ev, dk, lk, U),
         NEW p \in U, NEW u \in Seq(Events), Unique(u), NoneNew(u, ev, dk[p].id), OthersStay(u, ev, p),
         NEW c, c[p].status = "Idle", c[p].pending = dk[p].pending, \A q \in Ports : q # p => c[q] = dk[q]
  PROVE  EventsFine(u, c, lk, U \ {p})
<1>1. \A j \in DOMAIN u : \E i \in DOMAIN ev : /\ Copy(u[j], ev[i]) /\ (i = Len(ev) => j = Len(u))
                                               /\ ev[i].id = dk[p].id => u[j].status = "Idle" /\ ~ev[i].once
  BY DEF NoneNew
<1>2. U \subseteq Ports /\ p \in Ports /\ \A j \in DOMAIN ev : ev[j].deck \in Ports
  BY OnDecks DEF EventsTyped
<1>3. \A f, e : Copy(f, e) => (Claims(f, lk) <=> Claims(e, lk))
  BY DEF Copy, Same, Claims
<1>4. Known(u, c, U \ {p})
  <2> SUFFICES ASSUME NEW j \in DOMAIN u
               PROVE (\E n \in DOMAIN Schedule : Scheduled(u[j], n)) \/ ByRml(u, c, U \ {p}, j)
    BY DEF Known
  <2>0. PICK i \in DOMAIN ev : /\ Copy(u[j], ev[i]) /\ (i = Len(ev) => j = Len(u))
                               /\ ev[i].id = dk[p].id => u[j].status = "Idle" /\ ~ev[i].once
    BY <1>1
  <2>1. CASE \E n \in DOMAIN Schedule : Scheduled(ev[i], n)
    BY <2>0, <2>1 DEF Scheduled, Copy, Same
  <2>2. CASE ByRml(ev, dk, U, i)
    <3>1. ev[i].deck # p
      BY <2>0, <2>2 DEF ByRml
    <3>2. c[ev[i].deck] = dk[ev[i].deck]
      BY <1>2, <3>1
    <3> QED BY <2>0, <2>2, <3>1, <3>2 DEF ByRml, Copy, Same
  <2> QED BY <2>1, <2>2 DEF EventsFine, Known
<1>5. OneTimer(u, lk)
  <2>1. \A j \in DOMAIN u : \E i \in DOMAIN ev : u[j].window = ev[i].window /\ u[j].delay = ev[i].delay /\ u[j].id = ev[i].id
    BY <1>1 DEF Copy, Same
  <2> QED BY <2>1 DEF EventsFine, OneTimer
<1>6. TimersListed(u, lk)
  <2> SUFFICES ASSUME NEW id \in lk PROVE \E j \in DOMAIN u : u[j].id = id
    BY DEF TimersListed
  <2>1. PICK i \in DOMAIN ev : ev[i].id = id
    BY DEF EventsFine, TimersListed
  <2>2. ev[i].deck # p
    BY <2>1 DEF EventsFine, OneClaim, Claims
  <2>3. PICK j \in DOMAIN u : Copy(u[j], ev[i])
    BY <2>2 DEF OthersStay
  <2> QED BY <2>1, <2>3 DEF Copy, Same
<1>7. \A j \in DOMAIN u : Claims(u[j], lk) =>
         \E i \in DOMAIN ev : Claims(ev[i], lk) /\ ev[i].id = u[j].id /\ ev[i].deck = u[j].deck
  BY <1>1, <1>3 DEF Copy, Same
<1>0. \A j \in DOMAIN u : Claims(u[j], lk) => u[j].deck \notin U
  BY <1>7 DEF EventsFine, OneClaim
<1>8. OneClaim(u, lk, U \ {p})
  <2>1. \A j \in DOMAIN u : Claims(u[j], lk) => u[j].deck \notin U
    BY <1>0
  <2>2. ASSUME NEW j \in DOMAIN u, NEW k \in DOMAIN u, Claims(u[j], lk), Claims(u[k], lk), u[j].deck = u[k].deck
        PROVE  j = k
    <3>1. PICK a \in DOMAIN ev : ev[a].id = u[j].id /\ ev[a].deck = u[j].deck /\ Claims(ev[a], lk)
      BY <1>7, <2>2
    <3>2. PICK b \in DOMAIN ev : ev[b].id = u[k].id /\ ev[b].deck = u[k].deck /\ Claims(ev[b], lk)
      BY <1>7, <2>2
    <3>3. a = b
      BY <2>2, <3>1, <3>2 DEF EventsFine, OneClaim
    <3> QED BY <3>1, <3>2, <3>3 DEF Unique
  <2> QED BY <2>1, <2>2 DEF OneClaim
<1>9. Awaited(u, c, lk, U \ {p})
  <2> SUFFICES ASSUME NEW q \in Ports \ (U \ {p}), c[q].status = "Waiting"
               PROVE  \E j \in DOMAIN u : Claims(u[j], lk) /\ u[j].deck = q /\ u[j].id = c[q].id
    BY DEF Awaited
  <2>1. q # p /\ q \in Ports \ U /\ c[q] = dk[q]
    BY <1>2
  <2>2. PICK i \in DOMAIN ev : Claims(ev[i], lk) /\ ev[i].deck = q /\ ev[i].id = dk[q].id
    BY <2>1 DEF EventsFine, Awaited
  <2>3. PICK j \in DOMAIN u : Copy(u[j], ev[i])
    BY <2>1, <2>2 DEF OthersStay
  <2>4. Claims(u[j], lk)
    BY <1>3, <2>2, <2>3
  <2> QED BY <2>1, <2>2, <2>3, <2>4 DEF Copy, Same
<1>10. Shown(u, c, U \ {p})
  <2> SUFFICES ASSUME NEW j \in DOMAIN u, u[j].status # "Idle"
               PROVE  /\ c[u[j].deck].id = u[j].id
                      /\ u[j].status = IF u[j].deck \in U \ {p} THEN "Recording" ELSE "Waiting"
                      /\ u[j].status = "Waiting" => c[u[j].deck].status = "Waiting"
    BY DEF Shown
  <2>1. PICK i \in DOMAIN ev : Copy(u[j], ev[i]) /\ (ev[i].id = dk[p].id => u[j].status = "Idle")
    BY <1>1
  <2>2. u[j].status = ev[i].status /\ u[j].deck = ev[i].deck /\ u[j].id = ev[i].id /\ ev[i].status # "Idle"
    BY <2>1 DEF Copy, Same
  <2>3. /\ dk[ev[i].deck].id = ev[i].id
        /\ ev[i].status = IF ev[i].deck \in U THEN "Recording" ELSE "Waiting"
        /\ ev[i].status = "Waiting" => dk[ev[i].deck].status = "Waiting"
    BY <2>2 DEF EventsFine, Shown
  <2>4. ev[i].deck # p
    BY <2>1, <2>3
  <2>5. c[ev[i].deck] = dk[ev[i].deck]
    BY <1>2, <2>4
  <2> QED BY <2>2, <2>3, <2>4, <2>5
<1>11. Credited(u, c, U \ {p})
  <2> SUFFICES ASSUME NEW q \in U \ {p}
      PROVE  \/ \E n \in DOMAIN Schedule : Schedule[n].id = c[q].id /\ Schedule[n].deck = q
             \/ c[q].id = Base /\ \E j \in DOMAIN u : u[j].id = Base /\ u[j].deck = q
    BY DEF Credited
  <2>1. c[q] = dk[q]
    BY <1>2
  <2>2. CASE dk[q].id = Base /\ \E k \in DOMAIN ev : ev[k].id = Base /\ ev[k].deck = q
    <3>1. PICK k \in DOMAIN ev : ev[k].id = Base /\ ev[k].deck = q
      BY <2>2
    <3>2. PICK j \in DOMAIN u : Copy(u[j], ev[k])
      BY <3>1 DEF OthersStay
    <3> QED BY <2>1, <2>2, <3>1, <3>2 DEF Copy, Same
  <2> QED BY <2>1, <2>2 DEF EventsFine, Credited
<1>12. OneByRml(u, c)
  <2>1. \A q \in Ports : c[q].pending = dk[q].pending
    BY <1>2
  <2>2. \A j \in DOMAIN u : \E i \in DOMAIN ev : u[j].id = ev[i].id /\ u[j].deck = ev[i].deck
    BY <1>1 DEF Copy, Same
  <2>3. ASSUME NEW j \in DOMAIN u, NEW q \in Ports, u[j].id = Base, c[q].pending PROVE q = u[j].deck
    BY <2>1, <2>2, <2>3 DEF EventsFine, OneByRml
  <2> QED BY <2>1, <2>3 DEF EventsFine, OneByRml
<1> QED BY <1>4, <1>5, <1>6, <1>8, <1>9, <1>10, <1>11, <1>12 DEF EventsFine

(* Idled() is such a list, and so is the list when the event is not in it.       *)
LEMMA IdledIs ==
  ASSUME NEW ev \in Seq(Events), Unique(ev), NEW k \in DOMAIN ev, NEW p, ev[k].deck = p, NEW u, u = Idled(ev, k)
  PROVE  /\ u \in Seq(Events) /\ Unique(u) /\ NoneNew(u, ev, ev[k].id) /\ OthersStay(u, ev, p)
         /\ ~ev[k].once => k \in DOMAIN u /\ u[k].id = ev[k].id /\ Same(u[k], ev[k]) /\ u[k].delay = ev[k].delay
<1>1. u \in Seq(Events) /\ Unique(u)
  BY RemainingType, UniqueIdled
<1>2. Len(ev) \in Nat /\ DOMAIN ev = 1..Len(ev) /\ \A i \in DOMAIN ev : ev[i] \in Events
  BY LenProperties, ElementOfSeq
<1>3. \A e \in Events : /\ Copy(e, e) /\ Copy([e EXCEPT !.status = "Idle"], e)
                        /\ [e EXCEPT !.status = "Idle"].status = "Idle"
  BY DEF Copy, Same, Events
<1>4. \A i \in DOMAIN ev : i # k => ev[i].id # ev[k].id
  BY DEF Unique
<1>5. CASE ev[k].once
  <2> DEFINE r == RemoveAt(ev, k)
  <2>1. /\ r \in Seq(Events) /\ Len(r) = Len(ev) - 1 /\ DOMAIN r = 1..(Len(ev) - 1)
        /\ \A j \in 1..(Len(ev) - 1) : r[j] = IF j < k THEN ev[j] ELSE ev[j + 1]
    BY RemoveAtFacts
  <2>2. Remaining(ev, k) = r
    BY <1>5 DEF Remaining
  <2> HIDE DEF r
  <2>3. /\ DOMAIN u = DOMAIN r /\ Len(u) = Len(ev) - 1
        /\ \A j \in DOMAIN r : u[j] = IF j = k THEN [r[j] EXCEPT !.status = "Idle"] ELSE r[j]
    <3>1. Len(u) = Len(Remaining(ev, k))
      BY RemainingType
    <3> QED BY <2>1, <2>2, <3>1 DEF Idled
  <2>4. ASSUME NEW j \in DOMAIN u
        PROVE  \E i \in DOMAIN ev : Copy(u[j], ev[i]) /\ i # k /\ (i = Len(ev) => j = Len(u))
    <3>1. CASE j < k
      <4>1. j \in DOMAIN ev /\ j # k /\ j # Len(ev) /\ r[j] = ev[j] /\ u[j] = ev[j]
        BY <1>2, <2>1, <2>3, <3>1
      <4> QED BY <1>2, <1>3, <4>1
    <3>2. CASE ~(j < k)
      <4>1. j + 1 \in DOMAIN ev /\ j + 1 # k /\ r[j] = ev[j + 1] /\ (j + 1 = Len(ev) => j = Len(u))
        BY <1>2, <2>1, <2>3, <3>2
      <4>2. Copy(u[j], ev[j + 1])
        BY <1>2, <1>3, <2>3, <4>1
      <4> QED BY <4>1, <4>2
    <3> QED BY <3>1, <3>2
  <2>5. NoneNew(u, ev, ev[k].id)
    BY <1>4, <2>4 DEF NoneNew
  <2>6. OthersStay(u, ev, p)
    <3> SUFFICES ASSUME NEW i \in DOMAIN ev, ev[i].deck # p PROVE \E j \in DOMAIN u : Copy(u[j], ev[i])
      BY DEF OthersStay
    <3>0. i # k
      OBVIOUS
    <3>1. CASE i < k
      <4>1. i \in DOMAIN u /\ u[i] = ev[i]
        BY <1>2, <2>1, <2>3, <3>1
      <4> QED BY <1>2, <1>3, <4>1
    <3>2. CASE i > k
      <4>1. i - 1 \in DOMAIN u /\ ~(i - 1 < k) /\ i - 1 + 1 = i
        BY <1>2, <2>1, <2>3, <3>2
      <4>2. r[i - 1] = ev[i]
        BY <2>1, <2>3, <4>1
      <4>3. Copy(u[i - 1], ev[i])
        BY <1>2, <1>3, <2>3, <4>1, <4>2
      <4> QED BY <4>1, <4>3
    <3> QED BY <1>2, <3>0, <3>1, <3>2
  <2> QED BY <1>1, <1>5, <2>5, <2>6
<1>6. CASE ~ev[k].once
  <2>1. Remaining(ev, k) = ev
    BY <1>6 DEF Remaining
  <2>2. /\ DOMAIN u = DOMAIN ev /\ Len(u) = Len(ev)
        /\ \A j \in DOMAIN ev : u[j] = IF j = k THEN [ev[j] EXCEPT !.status = "Idle"] ELSE ev[j]
    <3>1. Len(u) = Len(Remaining(ev, k))
      BY RemainingType
    <3> QED BY <2>1, <3>1 DEF Idled
  <2>3. \A j \in DOMAIN ev : Copy(u[j], ev[j]) /\ (ev[j].id = ev[k].id => u[j].status = "Idle" /\ ~ev[j].once)
    BY <1>2, <1>3, <1>4, <1>6, <2>2, ZenonT(60)
  <2>4. NoneNew(u, ev, ev[k].id)
    BY <2>2, <2>3 DEF NoneNew
  <2>5. OthersStay(u, ev, p)
    BY <2>2, <2>3 DEF OthersStay
  <2>6. k \in DOMAIN u /\ u[k].id = ev[k].id /\ Same(u[k], ev[k]) /\ u[k].delay = ev[k].delay
    BY <2>2, <2>3 DEF Copy, Same
  <2> QED BY <1>1, <2>4, <2>5, <2>6
<1> QED BY <1>5, <1>6

LEMMA UnlistedIs ==
  ASSUME NEW ev, NEW id, NEW p, \A k \in DOMAIN ev : ev[k].id # id
  PROVE  NoneNew(ev, ev, id) /\ OthersStay(ev, ev, p)
BY DEF NoneNew, OthersStay, Copy, Same

(* An event that has been purged does not pass its window on.                    *)
LEMMA PurgedEnds ==
  ASSUME Timely, NEW ev, NEW dk, NEW lk, NEW U, EventsTyped(ev, dk, U), EventsFine(ev, dk, lk, U),
         NEW k \in DOMAIN ev, Restarts(NextOf(ev, k))
  PROVE  ~ev[k].once /\ NextOf(ev, k) = ev[k]
<1>1. Len(ev) \in Nat /\ DOMAIN ev = 1..Len(ev) /\ ev \in Seq(Events)
  BY LenProperties DEF EventsTyped
<1>2. ASSUME ev[k].once PROVE FALSE
  <2>1. \A i \in DOMAIN ev : Restarts(ev[i]) => \E n \in DOMAIN Schedule : Scheduled(ev[i], n) /\ Restarts(Schedule[n])
    BY DEF EventsFine, Known, ByRml, Restarts, Scheduled
  <2>2. PICK i \in DOMAIN ev : NextOf(ev, k) = ev[i] /\ (i = k \/ k # Len(ev))
    <3>1. Remaining(ev, k) = RemoveAt(ev, k)
      BY <1>2 DEF Remaining
    <3> DEFINE r == RemoveAt(ev, k)
    <3>2. DOMAIN r = 1..(Len(ev) - 1) /\ \A j \in 1..(Len(ev) - 1) : r[j] = IF j < k THEN ev[j] ELSE ev[j + 1]
      BY <1>1, RemoveAtFacts
    <3>3. NextOf(ev, k) = IF k \in DOMAIN r THEN r[k] ELSE ev[k]
      BY <3>1 DEF NextOf
    <3> HIDE DEF r
    <3>4. CASE k \in DOMAIN r
      <4>1. r[k] = ev[k + 1] /\ k + 1 \in DOMAIN ev /\ k # Len(ev)
        BY <1>1, <3>2, <3>4
      <4> QED BY <3>3, <3>4, <4>1
    <3>5. CASE k \notin DOMAIN r
      BY <3>3, <3>5
    <3> QED BY <3>4, <3>5
  <2>3. PICK n \in DOMAIN Schedule : Scheduled(ev[i], n) /\ Restarts(Schedule[n])
    BY <2>1, <2>2
  <2>4. CASE \E m \in DOMAIN Schedule : Scheduled(ev[k], m)
    BY <1>2, <2>3, <2>4 DEF Timely, Scheduled
  <2>5. CASE ByRml(ev, dk, U, k)
    <3>1. i = k
      BY <2>2, <2>5 DEF ByRml
    <3> QED BY <2>3, <2>5, <3>1 DEF ByRml, Restarts, Scheduled
  <2> QED BY <2>4, <2>5 DEF EventsFine, Known
<1>3. NextOf(ev, k) = ev[k]
  BY <1>2 DEF NextOf, Remaining
<1> QED BY <1>2, <1>3

(* What rdcatchd has after a deck has gone out of use: nothing sent, or the      *)
(* recording by RML started that was waiting for it.                             *)
After(r, p, lk, U) ==
  /\ r.wild = FALSE
  /\ \E d \in RecordDecks :
       /\ r.deck = [deck EXCEPT ![p] = d] /\ d.status \in {"Idle", "Waiting"}
       /\ \/ r.cmds = <<>> /\ EventsFine(r.events, r.deck, lk, U \ {p})
          \/ r.cmds = Loads(p, Base) /\ d.id = Base /\ EventsFine(r.events, r.deck, lk, U)

LEMMA RmlFits ==
  ASSUME NEW t, NEW r, NEW lk, NEW U, EventsTyped(t.events, t.deck, U), EventsFine(t.events, t.deck, lk, U),
         NEW p \in Ports, p \notin U, NoClaim(t.events, p, lk), NoDynamic(t.events), WithRml(r.events, t.events, p),
         r.deck[p].id = Base, \A q \in Ports : q # p => r.deck[q] = t.deck[q], OnlyPending(r.deck, p)
  PROVE  EventsFine(r.events, r.deck, lk, U \cup {p})
BY EvRml, SMT

Ran(d) == [For(d, Base) EXCEPT !.pending = FALSE]
LEMMA CacheFine ==
  ASSUME NEW lk, NEW U, U \subseteq Ports, NEW p \in U, deck \in [Ports -> RecordDecks], NEW d \in RecordDecks, d.status = "Idle",
         NEW t \in Daemons, t.cmds = <<>>, t.wild = FALSE, t.deck = [deck EXCEPT ![p] = d], Unique(t.events),
         EventsFine(t.events, t.deck, lk, U \ {p}), NoClaim(t.events, p, lk),
         NEW r, r = RunRmlRecordingCache(t, p)
  PROVE  After(r, p, lk, U)
<1>0. p \in Ports /\ p \notin U \ {p} /\ (U \ {p}) \cup {p} = U
  OBVIOUS
<1>1. EventsTyped(t.events, t.deck, U \ {p})
  BY DaemonFields DEF EventsTyped
<1>2. t.deck[p] = d /\ \A q \in Ports : q # p => t.deck[q] = deck[q]
  BY SetDeck
<1>3. CASE ~d.pending
  <2>1. r = t
    <3>1. ~t.deck[p].pending
      BY <1>2, <1>3
    <3> QED BY <1>0, <3>1 DEF RunRmlRecordingCache
  <2> QED BY <2>1 DEF After
<1>4. CASE d.pending
  <2> DEFINE q == StartRmlRecording(t, p)
  <2>1. \A j \in DOMAIN t.events : ~IsDynamic(t.events[j])
    <3> SUFFICES ASSUME NEW j \in DOMAIN t.events, IsDynamic(t.events[j]) PROVE FALSE
      OBVIOUS
    <3>1. CASE \E n \in DOMAIN Schedule : Scheduled(t.events[j], n)
      BY <3>1, ScheduleFacts, CatchAssumption DEF IsDynamic, Scheduled
    <3>2. CASE ByRml(t.events, t.deck, U \ {p}, j)
      <4>1. t.events[j].id = Base /\ t.events[j].deck # p
        BY <3>2 DEF ByRml
      <4> QED BY <1>0, <1>2, <1>4, <4>1 DEF EventsFine, OneByRml
    <3> QED BY <3>1, <3>2 DEF EventsFine, Known
  <2>2. Available(t.deck[p])
    BY <1>2, SMTT(30) DEF Available
  <2>3. /\ q.events = Append(t.events, RmlStarted(p)) /\ q.deck = [t.deck EXCEPT ![p] = For(d, Base)]
        /\ q.cmds = t.cmds \o <<Cmd("LR", p, Base), Cmd("RD", p, Base)>> /\ q.wild = FALSE
    BY <1>0, <1>2, <2>1, <2>2, StartRmlIs, ZenonT(60)
  <2>4. /\ r.events = q.events /\ r.cmds = q.cmds /\ r.wild = q.wild
        /\ r.deck = [q.deck EXCEPT ![p] = [q.deck[p] EXCEPT !.pending = FALSE]]
    <3>1. t.deck[p].pending
      BY <1>2, <1>4
    <3> QED BY <3>1 DEF RunRmlRecordingCache
  <2> HIDE DEF q
  <2>5. t.deck \in [Ports -> RecordDecks] /\ deck \in [Ports -> RecordDecks]
    BY DaemonFields
  <2>6. q.deck[p] = For(d, Base)
    BY <1>0, <2>3, <2>5, ZenonT(60)
  <2>7. r.deck = [t.deck EXCEPT ![p] = Ran(d)] /\ r.deck = [deck EXCEPT ![p] = Ran(d)]
    BY <1>0, <2>3, <2>4, <2>5, <2>6, ZenonT(60) DEF Ran
  <2>8. r.cmds = Loads(p, Base)
    <3> DEFINE c == Loads(p, Base)
    <3>1. c = <<Cmd("LR", p, Base), Cmd("RD", p, Base)>> /\ <<>> \o c = c
      BY DEF Loads
    <3> QED BY <2>3, <2>4, <3>1
  <2>9. Ran(d) \in RecordDecks /\ Ran(d).status = "Idle" /\ Ran(d).id = Base /\ Ran(d).pending = FALSE
    BY CatchAssumption DEF Ran, For, RecordDecks
  <2>10. \A x \in Ports : r.deck[x].pending => x = p
    <3>1. \A x \in Ports : x # p => r.deck[x] = t.deck[x]
      BY <1>0, <2>5, <2>7, SetDeck
    <3> QED BY <1>0, <1>2, <1>4, <3>1 DEF EventsFine, OneByRml
  <2>11. EventsFine(r.events, r.deck, lk, U)
    <3>1. WithRml(r.events, t.events, p)
      BY <2>3, <2>4 DEF WithRml
    <3>2. r.deck[p].id = Base /\ \A x \in Ports : x # p => r.deck[x] = t.deck[x]
      BY <1>0, <2>5, <2>7, <2>9, SetDeck, ZenonT(60)
    <3> DEFINE V == U \ {p}
    <3>3. p \notin V /\ EventsTyped(t.events, t.deck, V) /\ EventsFine(t.events, t.deck, lk, V)
      BY <1>0, <1>1
    <3>5. V \cup {p} = U
      BY <1>0
    <3> HIDE DEF V
    <3>4. EventsFine(r.events, r.deck, lk, V \cup {p})
      <4>1. p \in Ports
        BY <1>0
      <4>2. NoDynamic(t.events) /\ OnlyPending(r.deck, p)
        BY <2>1, <2>10 DEF NoDynamic, OnlyPending
      <4>3. r.deck[p].id = Base
        BY <3>2
      <4>4. \A x \in Ports : x # p => r.deck[x] = t.deck[x]
        BY <3>2
      <4>5. p \notin V
        BY <3>3
      <4>6. EventsTyped(t.events, t.deck, V)
        BY <3>3
      <4>7. EventsFine(t.events, t.deck, lk, V)
        BY <3>3
      <4>8. NoDynamic(t.events)
        BY <4>2
      <4>9. OnlyPending(r.deck, p)
        BY <4>2
      <4> QED BY <3>1, <4>1, <4>3, <4>4, <4>5, <4>6, <4>7, <4>8, <4>9, RmlFits, Zenon
    <3> QED BY <3>4, <3>5
  <2> QED BY <2>3, <2>4, <2>7, <2>8, <2>9, <2>11 DEF After
<1> QED BY <1>3, <1>4

Gone(d) == [d EXCEPT !.status = "Idle", !.aborting = FALSE]
LEMMA UnloadFine ==
  ASSUME Timely, CatchTypeOK, NEW lk, NEW U, EventsTyped(events, deck, U), EventsFine(events, deck, lk, U), NEW p \in U,
         NEW r, r = recordUnloadedData(Daemon, p)
  PROVE  After(r, p, lk, U)
<1>0. /\ Daemon \in Daemons /\ Unique(Daemon.events) /\ Daemon.events = events /\ Daemon.deck = deck
      /\ Daemon.cmds = <<>> /\ Daemon.wild = FALSE /\ p \in Ports /\ U \subseteq Ports
      /\ deck \in [Ports -> RecordDecks] /\ deck[p] \in RecordDecks /\ events \in Seq(Events) /\ Unique(events)
  BY DaemonType DEF EventsTyped
<1> DEFINE k == GetEvent(Daemon, deck[p].id)
<1>1. /\ k = 0 => \A j \in DOMAIN events : events[j].id # deck[p].id
      /\ k # 0 => k \in DOMAIN events /\ events[k].id = deck[p].id
  BY <1>0, GetEventIs
<1>2. r = IF k = 0 THEN UnloadedUnknown(Daemon, p) ELSE UnloadedKnown(Daemon, p, k)
  BY <1>0 DEF recordUnloadedData
<1> HIDE DEF k
<1>3. CASE k = 0
  <2> DEFINE t == IdleUnknown(Daemon, p)
  <2>1. /\ t \in Daemons /\ t.events = events /\ t.deck = [deck EXCEPT ![p] = Gone(deck[p])]
        /\ t.cmds = <<>> /\ t.wild = FALSE /\ r = RunRmlRecordingCache(t, p)
    BY <1>0, <1>2, <1>3, IdleUnknownIs DEF Gone
  <2> HIDE DEF t
  <2>2. Gone(deck[p]) \in RecordDecks /\ Gone(deck[p]).status = "Idle" /\ Gone(deck[p]).pending = deck[p].pending
    BY <1>0 DEF Gone, RecordDecks
  <2>3. NoneNew(events, events, deck[p].id) /\ OthersStay(events, events, p)
    BY <1>1, <1>3, UnlistedIs
  <2>4. /\ EventsFine(t.events, t.deck, lk, U \ {p})
        /\ NoClaim(t.events, p, lk)
    <3>1. t.events \in Seq(Events) /\ Unique(t.events) /\ NoneNew(t.events, events, deck[p].id) /\ OthersStay(t.events, events, p)
      BY <1>0, <2>1, <2>3
    <3>2. t.deck[p].status = "Idle" /\ t.deck[p].pending = deck[p].pending /\ \A q \in Ports : q # p => t.deck[q] = deck[q]
      BY <1>0, <2>1, <2>2, SetDeck
    <3>3. EventsFine(t.events, t.deck, lk, U \ {p})
      BY <3>1, <3>2, EvUnload, Zenon
    <3>4. NoClaim(t.events, p, lk)
      BY <3>1, StillUnclaimed, Zenon
    <3> QED BY <3>3, <3>4
  <2>5. Unique(t.events)
    BY <1>0, <2>1
  <2> QED BY <1>0, <2>1, <2>2, <2>4, <2>5, CacheFine, Zenon
<1>4. CASE k # 0
  <2> DEFINE t == IdleOf(Daemon, p, k)
             d == AfterUnload(deck[p])
  <2>1. k \in DOMAIN events /\ events[k].id = deck[p].id /\ events[k].deck = p
    BY <1>1, <1>4, CreditedEvent
  <2>2. /\ t \in Daemons /\ t.events = Idled(events, k) /\ t.deck = [deck EXCEPT ![p] = d]
        /\ t.cmds = <<>> /\ t.wild = FALSE
    <3>1. k \in DOMAIN Daemon.events /\ Daemon \in Daemons /\ p \in Ports
      BY <1>0, <2>1
    <3>2. /\ t \in Daemons /\ t.events = Idled(Daemon.events, k)
          /\ t.deck = [Daemon.deck EXCEPT ![p] = AfterUnload(Daemon.deck[p])]
          /\ t.cmds = Daemon.cmds /\ t.wild = Daemon.wild
      BY <3>1, IdleOfIs
    <3> HIDE DEF t
    <3>3. Daemon.events = events /\ Daemon.deck = deck /\ Daemon.cmds = <<>> /\ Daemon.wild = FALSE
      BY <1>0
    <3> QED BY <3>2, <3>3
  <2>3. r = IF Restarts(NextOf(events, k)) THEN EngineData(t, NextOf(events, k).id)
            ELSE RunRmlRecordingCache(t, p)
    BY <1>0, <1>2, <1>4, <2>1, UnloadedKnownIs
  <2>4. d \in RecordDecks /\ d.status = "Idle" /\ d.pending = deck[p].pending
    BY <1>0 DEF AfterUnload, RecordDecks
  <2> HIDE DEF t, d
  <2>5. /\ t.events \in Seq(Events) /\ Unique(t.events) /\ NoneNew(t.events, events, deck[p].id) /\ OthersStay(t.events, events, p)
        /\ ~events[k].once => /\ k \in DOMAIN t.events /\ t.events[k].id = events[k].id
                              /\ Same(t.events[k], events[k])
    BY <1>0, <2>1, <2>2, IdledIs
  <2>6. /\ EventsFine(t.events, t.deck, lk, U \ {p})
        /\ NoClaim(t.events, p, lk)
    <3>1. t.deck[p].status = "Idle" /\ t.deck[p].pending = deck[p].pending /\ \A q \in Ports : q # p => t.deck[q] = deck[q]
      BY <1>0, <2>2, <2>4, SetDeck
    <3>2. EventsFine(t.events, t.deck, lk, U \ {p})
      BY <2>5, <3>1, EvUnload, Zenon
    <3>3. NoClaim(t.events, p, lk)
      BY <2>5, StillUnclaimed, Zenon
    <3> QED BY <3>2, <3>3
  <2>7. CASE ~Restarts(NextOf(events, k))
    <3>1. r = RunRmlRecordingCache(t, p)
      BY <2>3, <2>7
    <3> QED BY <1>0, <2>2, <2>4, <2>5, <2>6, <3>1, CacheFine
  <2>8. CASE Restarts(NextOf(events, k))
    <3>1. ~events[k].once /\ NextOf(events, k) = events[k]
      BY <2>1, <2>8, PurgedEnds
    <3>2. /\ k \in DOMAIN t.events /\ t.events[k].id = events[k].id /\ t.events[k].deck = p
          /\ t.events[k].start = "gpi" /\ r = EngineData(t, t.events[k].id)
      BY <2>1, <2>3, <2>5, <2>8, <3>1 DEF Same, Restarts
    <3> DEFINE e == t.events[k]
    <3>3. GetEvent(t, e.id) = k /\ k # 0
      <4>1. GetEvent(t, e.id) # 0 /\ GetEvent(t, e.id) \in DOMAIN t.events /\ t.events[GetEvent(t, e.id)].id = e.id
        BY <2>2, <2>5, <3>2, GetEventIs
      <4> QED BY <1>4, <2>5, <3>2, <4>1 DEF Unique
    <3>4. r = OpenWindow(t, k)
      BY <2>2, <3>2, <3>3, EngineDataIs
    <3>5. t.deck[p] = d /\ t.deck \in [Ports -> RecordDecks] /\ e \in Events /\ ~e.delay /\ e.id \in Nat
      BY <1>0, <2>2, <2>6, <3>2, SetDeck, DaemonFields, FieldTypes DEF NoClaim, Claims
    <3>6. /\ r.events = [t.events EXCEPT ![k] = Opened(e)] /\ r.deck = [t.deck EXCEPT ![p] = WaitsFor(d, e.id)]
          /\ r.cmds = <<>> /\ r.wild = FALSE
      <4>1. /\ r.events = [t.events EXCEPT ![k] = Opened(e)] /\ r.deck = [t.deck EXCEPT ![p] = WaitsFor(t.deck[p], e.id)]
            /\ r.cmds = t.cmds /\ r.wild = t.wild
        <5>1. e = t.events[k] /\ p = e.deck /\ k \in DOMAIN t.events /\ t \in Daemons
          BY <2>2, <3>2
        <5> HIDE DEF e
        <5> QED BY <3>4, <5>1, OpenWindowIs
      <4> QED BY <2>2, <3>5, <4>1
    <3>7. /\ Opened(e) \in Events /\ Same(Opened(e), e) /\ Opened(e).status = "Waiting" /\ Opened(e).window /\ ~Opened(e).delay
      BY <3>5 DEF Opened, Same, Events
    <3>8. /\ WaitsFor(d, e.id) \in RecordDecks /\ WaitsFor(d, e.id).status = "Waiting" /\ WaitsFor(d, e.id).id = e.id
          /\ WaitsFor(d, e.id).pending = d.pending
      BY <2>4, <3>5 DEF WaitsFor, RecordDecks
    <3>9. r.deck = [deck EXCEPT ![p] = WaitsFor(d, e.id)]
      BY <1>0, <2>2, <3>6
    <3>10. EventsTyped(t.events, t.deck, U \ {p}) /\ p \notin U \ {p} /\ t.deck[p].pending = d.pending
      BY <1>0, <2>5, <3>5 DEF EventsTyped
    <3>11. EventsFine(r.events, r.deck, lk, U \ {p})
      BY <2>6, <3>2, <3>6, <3>7, <3>8, <3>10, EvOpen
    <3> QED BY <3>6, <3>8, <3>9, <3>11 DEF After
  <2> QED BY <2>7, <2>8
<1> QED BY <1>3, <1>4

--------------------------------------------------------------------------------
(* RDCae::readyData() and the ports: the answer about port p is handed over.     *)

LEMMA HandedKeeps ==
  ASSUME TypesInv, StreamsInv, running, to_catch # <<>>, to_catch' = Tail(to_catch), NEW m, m = Head(to_catch), NEW p, p = m.port,
         m.cmd \in {"LR", "RS"}, NEW st, st = IF m.cmd = "LR" THEN "Ready" ELSE "Recording",
         deck' = [deck EXCEPT ![p].status = st], UNCHANGED <<caedVars, running, tape, to_caed>>
  PROVE  StreamsInv' /\ Busy' = Busy /\ p \in Busy /\ p \in Ports
<1>0. Carried /\ UNCHANGED <<record_owner, record_timer>> /\ deck \in [Ports -> RecordDecks]
  BY DEF TypesInv, CatchTypeOK, caedVars, vars, recVars
<1>1. /\ Ordered(to_catch, CatchPairs)' /\ m \in Told /\ m.cmd \in Telling(p)
      /\ \A q : Telling(q)' = IF q = p THEN Telling(q) \ {m.cmd} ELSE Telling(q)
      /\ \A c \in Telling(p) : c # m.cmd => <<m.cmd, c>> \in CatchPairs
      /\ \A q, id : Cut(to_catch, "UR", q, id) => Cut(to_catch', "UR", q, id)
  BY <1>0, HandedStream DEF StreamsInv
<1>2. p \in Ports
  BY <1>1 DEF Told
<1>3. Ordered(to_caed, CaedPairs)' /\ \A q : Asking(q)' = Asking(q)
  BY SameAsked DEF StreamsInv
<1>4. deck'[p].status = st /\ deck'[p].id = deck[p].id /\ \A q \in Ports : q # p => deck'[q] = deck[q]
  BY <1>0, <1>2 DEF RecordDecks
<1>5. Elsewhere(p)
  BY <1>0, <1>1, <1>3, <1>4 DEF Elsewhere
<1>6. CaedFine(record_owner[p], Asking(p)) /\ PortFine(p)
  BY <1>2 DEF StreamsInv
<1>7. CaedFine(record_owner'[p], Asking(p)')
  BY <1>0, <1>3, <1>6
<1>8. "LR" \in Telling(p) => m.cmd = "LR"
  BY <1>1 DEF CatchPairs
<1>9. "UR" \in Telling(p) => m.cmd = "RS"
  BY <1>1 DEF CatchPairs
<1>10. CatchFine(record_owner'[p], Asking(p)', Telling(p)', deck'[p].status) /\ InUse(record_owner[p], Asking(p), Telling(p))
  <2>1. CASE m.cmd = "LR"
    <3>1. "UR" \notin Telling(p) /\ record_owner[p] = Self /\ LoadedFine(Asking(p), Telling(p), deck[p].status)
      BY <1>1, <1>6, <1>9, <2>1 DEF PortFine, CatchFine, FreeFine
    <3>2. LoadedFine(Asking(p), Telling(p) \ {"LR"}, "Ready")
      BY <1>1, <2>1, <3>1 DEF LoadedFine
    <3> QED BY <1>0, <1>1, <1>3, <1>4, <2>1, <3>1, <3>2 DEF CatchFine, InUse
  <2>2. CASE m.cmd = "RS"
    <3>1. CASE record_owner[p] = Self
      <4>1. LoadedFine(Asking(p), Telling(p), deck[p].status) /\ "LR" \notin Telling(p)
        BY <1>6, <1>8, <2>2, <3>1 DEF PortFine, CatchFine
      <4>2. LoadedFine(Asking(p), Telling(p) \ {"RS"}, "Recording")
        BY <1>1, <2>2, <4>1 DEF LoadedFine
      <4> QED BY <1>0, <1>1, <1>3, <1>4, <2>2, <3>1, <4>2 DEF CatchFine, InUse
    <3>2. CASE record_owner[p] # Self
      <4>1. "UR" \in Telling(p) /\ UnloadedFine(Asking(p), Telling(p), deck[p].status)
        BY <1>1, <1>6, <3>2 DEF PortFine, CatchFine, FreeFine
      <4>2. UnloadedFine(Asking(p), Telling(p) \ {"RS"}, "Recording") /\ "UR" \in Telling(p) \ {"RS"}
        BY <4>1 DEF UnloadedFine
      <4> QED BY <1>0, <1>1, <1>3, <1>4, <2>2, <3>2, <4>1, <4>2 DEF CatchFine, InUse
    <3> QED BY <3>1, <3>2
  <2> QED BY <2>1, <2>2
<1>11. PortFine(p)'
  <2>1. FALSE \notin Timed => TimerFine(record_owner'[p], Asking(p)', Telling(p)', record_timer'[p])
    BY <1>0, <1>1, <1>3, <1>6 DEF PortFine, TimerFine
  <2>2. /\ record_owner'[p] = Self => tape'[p] = deck'[p].id
        /\ Cut(to_caed', "LR", p, deck'[p].id) /\ Cut(to_catch', "UR", p, deck'[p].id)
    BY <1>0, <1>1, <1>4, <1>6 DEF PortFine, CutsFine
  <2> QED BY <1>10, <2>1, <2>2, PortFinePrimed
<1>12. StreamsInv'
  BY <1>1, <1>3, <1>5, <1>7, <1>11, OnePort
<1>13. p \in Busy
  BY <1>2, <1>10 DEF Busy
<1>14. Busy' = Busy
  <2>1. InUse(record_owner'[p], Asking(p)', Telling(p)')
    BY <1>0, <1>1, <1>3, <1>10 DEF InUse
  <2> QED BY <1>5, <1>13, <2>1, SameBusy
<1> QED BY <1>2, <1>12, <1>13, <1>14

(* A stop is reported: the port is to be unloaded.                               *)
LEMMA StoppedKeeps ==
  ASSUME TypesInv, StreamsInv, running, to_catch # <<>>, to_catch' = Tail(to_catch), NEW m, m = Head(to_catch), NEW p, p = m.port,
         m.cmd = "SR", to_caed' = to_caed \o <<Cmd("UR", p, 0)>>, UNCHANGED <<caedVars, running, tape, deck>>
  PROVE  StreamsInv' /\ Busy' = Busy
<1>0. Carried /\ UNCHANGED <<record_owner, record_timer>>
  BY DEF TypesInv, caedVars, vars, recVars
<1>1. /\ Ordered(to_catch, CatchPairs)' /\ m \in Told /\ m.cmd \in Telling(p)
      /\ \A q : Telling(q)' = IF q = p THEN Telling(q) \ {m.cmd} ELSE Telling(q)
      /\ \A c \in Telling(p) : c # m.cmd => <<m.cmd, c>> \in CatchPairs
      /\ \A q, id : Cut(to_catch, "UR", q, id) => Cut(to_catch', "UR", q, id)
  BY <1>0, HandedStream DEF StreamsInv
<1>2. p \in Ports
  BY <1>1 DEF Told
<1>3. CaedFine(record_owner[p], Asking(p)) /\ PortFine(p)
  BY <1>2 DEF StreamsInv
<1>4. Telling(p) \subseteq {"SR", "RS"} /\ "SR" \in Telling(p)
  BY <1>1, SubsetsOfCommands DEF CatchPairs
<1>5. record_owner[p] = Self /\ LoadedFine(Asking(p), Telling(p), deck[p].status)
  BY <1>3, <1>4 DEF PortFine, CatchFine, FreeFine
<1>6. Asking(p) \subseteq {"RD"}
  BY <1>3, <1>4, <1>5, SubsetsOfCommands DEF CaedFine, LoadedFine
<1>7. /\ Ordered(to_caed, CaedPairs)'
      /\ \A q : Asking(q)' = IF q = p THEN Asking(q) \cup {"UR"} ELSE Asking(q)
      /\ \A q, i : Cut(to_caed, "LR", q, i) => Cut(to_caed', "LR", q, i)
  <2>1. \A c \in Asking(p) : <<c, "UR">> \in CaedPairs
    BY <1>6 DEF CaedPairs
  <2> QED BY <1>0, <1>2, <2>1, AskedStream DEF StreamsInv
<1>8. Elsewhere(p)
  BY <1>0, <1>1, <1>7 DEF Elsewhere
<1>9. CaedFine(record_owner'[p], Asking(p)')
  BY <1>0, <1>3, <1>5, <1>6, <1>7 DEF CaedFine
<1>10. PortFine(p)'
  <2>1. LoadedFine(Asking(p) \cup {"UR"}, Telling(p) \ {"SR"}, deck[p].status)
    BY <1>4, <1>5, <1>6 DEF LoadedFine
  <2>2. CatchFine(record_owner'[p], Asking(p)', Telling(p)', deck'[p].status)
    BY <1>0, <1>1, <1>5, <1>7, <2>1 DEF CatchFine
  <2>3. FALSE \notin Timed => TimerFine(record_owner'[p], Asking(p)', Telling(p)', record_timer'[p])
    BY <1>7 DEF TimerFine
  <2>4. /\ record_owner'[p] = Self => tape'[p] = deck'[p].id
        /\ Cut(to_caed', "LR", p, deck'[p].id) /\ Cut(to_catch', "UR", p, deck'[p].id)
    BY <1>0, <1>1, <1>3, <1>7 DEF PortFine, CutsFine
  <2> QED BY <2>2, <2>3, <2>4, PortFinePrimed
<1>11. StreamsInv'
  BY <1>1, <1>7, <1>8, <1>9, <1>10, OnePort
<1>12. Busy' = Busy
  <2>1. InUse(record_owner'[p], Asking(p)', Telling(p)') /\ p \in Busy
    BY <1>0, <1>2, <1>5 DEF InUse, Busy
  <2> QED BY <1>8, <2>1, SameBusy
<1> QED BY <1>11, <1>12

(* An unload is reported: it is the last message about the port, which is free.  *)
LEMMA LastAnswer ==
  ASSUME TypesInv, StreamsInv, running, to_catch # <<>>, to_catch' = Tail(to_catch), NEW m, m = Head(to_catch), NEW p, p = m.port,
         m.cmd = "UR"
  PROVE  /\ p \in Busy /\ p \in Ports /\ record_owner[p] # Self /\ Asking(p) = {} /\ NoneLeft(p)
<1> USE DEF NoneLeft
<1>1. /\ Ordered(to_catch, CatchPairs)' /\ m \in Told /\ m.cmd \in Telling(p)
      /\ \A q : Telling(q)' = IF q = p THEN Telling(q) \ {m.cmd} ELSE Telling(q)
      /\ \A c \in Telling(p) : c # m.cmd => <<m.cmd, c>> \in CatchPairs
      /\ \A q, id : Cut(to_catch, "UR", q, id) => Cut(to_catch', "UR", q, id)
  BY HandedStream DEF StreamsInv, TypesInv
<1>2. p \in Ports
  BY <1>1 DEF Told
<1>3. CaedFine(record_owner[p], Asking(p)) /\ PortFine(p)
  BY <1>2 DEF StreamsInv
<1>4. Telling(p) = {"UR"}
  BY <1>1 DEF CatchPairs
<1>5. record_owner[p] # Self /\ UnloadedFine(Asking(p), Telling(p), deck[p].status)
  BY <1>3, <1>4 DEF PortFine, CatchFine, LoadedFine
<1>6. Asking(p) = {}
  BY <1>3, <1>5, SubsetsOfCommands DEF CaedFine, UnloadedFine
<1>7. \A q : Telling(q)' = IF q = p THEN {} ELSE Telling(q)
  BY <1>1, <1>4
<1>8. \A i : Cut(to_catch', "UR", p, i)
  <2>1. "UR" \notin Telling(p)'
    BY <1>7
  <2> QED BY <2>1 DEF Cut, Telling, Has
<1>9. p \in Busy
  BY <1>2, <1>4 DEF Busy, InUse
<1> QED BY <1>1, <1>2, <1>5, <1>6, <1>7, <1>8, <1>9

LEMMA UnloadKeeps ==
  ASSUME TypesInv, StreamsInv, running, NEW p \in Ports, record_owner[p] # Self, Asking(p) = {},
         NEW d, d.status \in {"Idle", "Waiting"}, SetTo(deck', p, d),
         NoneLeft(p), Still, UNCHANGED to_caed
  PROVE  StreamsInv' /\ Busy' = Busy \ {p}
<1> USE DEF SetTo, Still, NoneLeft
<1>1. UNCHANGED <<record_owner, record_timer>> /\ deck \in [Ports -> RecordDecks]
  BY DEF caedVars, vars, recVars, TypesInv, CatchTypeOK
<1>2. Ordered(to_caed, CaedPairs)' /\ \A q : Asking(q)' = Asking(q)
  BY SameAsked DEF StreamsInv
<1>3. deck'[p] = d /\ \A q \in Ports : q # p => deck'[q] = deck[q]
  BY <1>1
<1>4. Elsewhere(p)
  BY <1>1, <1>2, <1>3 DEF Elsewhere
<1>5. CaedFine(record_owner'[p], Asking(p)')
  BY <1>1, <1>2 DEF StreamsInv
<1>6. PortFine(p)'
  <2>1. CatchFine(record_owner'[p], Asking(p)', Telling(p)', deck'[p].status)
    BY <1>1, <1>3 DEF CatchFine, FreeFine
  <2>2. TimerFine(record_owner'[p], Asking(p)', Telling(p)', record_timer'[p])
    BY <1>1 DEF TimerFine
  <2>3. Cut(to_caed', "LR", p, deck'[p].id)
    <3>1. "LR" \notin Asking(p)
      OBVIOUS
    <3> QED BY <3>1 DEF Cut, Asking, Has
  <2> QED BY <1>1, <2>1, <2>2, <2>3, PortFinePrimed
<1>7. StreamsInv'
  BY <1>2, <1>4, <1>5, <1>6, OnePort
<1>8. Busy' = Busy \ {p}
  <2>1. p \notin Busy'
    BY <1>1, <1>2, <1>4, BusyIs DEF InUse
  <2>2. \A q \in Ports : q # p => (q \in Busy' <=> q \in Busy)
    BY <1>4, BusyIs
  <2>3. Busy \subseteq Ports /\ Busy' \subseteq Ports
    BY DEF Busy
  <2> QED BY <2>1, <2>2, <2>3
<1> QED BY <1>7, <1>8
--------------------------------------------------------------------------------
(* rdcatchd's handlers keep the invariant.                                       *)

LEMMA EventsPrimed ==
  ASSUME EventsFine(events', deck', leaked', Busy')
  PROVE  EventsFine(events, deck, leaked, Busy)'
BY DEF EventsFine, Known, Scheduled, ByRml, OneTimer, TimersListed, OneClaim, Claims, Awaited, Shown, Credited, OneByRml

LEMMA InvPrimed ==
  ASSUME wild' = FALSE, StreamsInv', running' => EventsFine(events', deck', leaked', Busy')
  PROVE  CatchInv'
BY EventsPrimed DEF CatchInv

LEMMA Here ==
  ASSUME TypesInv, CatchInv
  PROVE  /\ CatchTypeOK /\ Carried /\ StreamsInv /\ wild = FALSE /\ EventsTyped(events, deck, Busy)
         /\ running => EventsFine(events, deck, leaked, Busy)
         /\ \A k \in DOMAIN events : events[k] \in Events /\ events[k].deck \in Ports /\ events[k].id \in Nat
         /\ \A p \in Ports : deck[p] \in RecordDecks
<1>1. CatchTypeOK /\ Carried /\ StreamsInv /\ wild = FALSE
  BY DEF TypesInv, CatchInv, CatchTypeOK
<1>2. EventsTyped(events, deck, Busy)
  BY <1>1 DEF EventsTyped, CatchTypeOK, Unique, Busy
<1> QED BY <1>1, <1>2, OnDecks, DaemonType DEF CatchInv

LEMMA LeftIs ==
  ASSUME Carried, NEW ev, NEW dk, Left(ev, dk, <<>>)
  PROVE  UNCHANGED <<caedVars, running, tape, to_catch, to_caed>> /\ deck' = dk
<1>1. to_caed \o <<>> = to_caed
  BY DEF Carried
<1> QED BY <1>1 DEF Left

LEMMA LeftFine ==
  ASSUME NEW ev, NEW dk, NEW c, Left(ev, dk, c), StreamsInv', NEW U, Busy' = U, EventsFine(ev, dk, leaked', U)
  PROVE  CatchInv'
BY InvPrimed DEF Left

(* A recording is started on the deck of an event that no other claims.          *)
LEMMA StartFine ==
  ASSUME TypesInv, CatchInv, running, NEW k \in DOMAIN events, NEW e, e = events[k], NEW p, p = e.deck,
         p \notin Busy, e.id \notin leaked, \A j \in DOMAIN events : j # k /\ events[j].deck = p => ~Claims(events[j], leaked),
         NEW f \in Events, Same(f, e), f.status = "Recording", ~f.window, ~f.delay,
         Left([events EXCEPT ![k] = f], [deck EXCEPT ![p] = For(deck[p], e.id)], Loads(p, e.id)), UNCHANGED leaked
  PROVE  CatchInv'
<1> DEFINE u == [events EXCEPT ![k] = f]
           d == For(deck[p], e.id)
           c == [deck EXCEPT ![p] = d]
<1>1. p \in Ports /\ e.id \in Nat /\ deck[p] \in RecordDecks /\ StreamsInv
  BY Here
<1>2. d.id = e.id /\ d.pending = deck[p].pending /\ d.status = deck[p].status
  BY <1>1 DEF For, RecordDecks
<1>3. EventsTyped(events, deck, Busy) /\ EventsFine(events, deck, leaked, Busy)
  BY Here
<1>4. /\ record_owner[p] # Self /\ Asking(p) \subseteq {"SR"} /\ Telling(p) = {} /\ d.status \in {"Idle", "Waiting"}
      /\ \A id : Cut(to_catch, "UR", p, id)
  BY <1>1, <1>2, FreePort
<1>5. /\ deck' = c /\ to_caed' = to_caed \o Loads(p, e.id) /\ UNCHANGED <<caedVars, running, tape>>
      /\ UNCHANGED to_catch /\ Left(u, c, Loads(p, e.id))
  BY DEF Left
<1> HIDE DEF u, d
<1>6. EventsFine(u, c, leaked, Busy \cup {p})
  BY <1>2, <1>3, EvStart DEF u
<1> HIDE DEF c
<1>7. Ordered(to_catch, CatchPairs)' /\ \A q : Telling(q)' = IF q = p THEN {} ELSE Telling(q)
  <2>1. Ordered(to_catch, CatchPairs)
    BY <1>1 DEF StreamsInv
  <2> QED BY <1>4, <1>5, <2>1, SameTold
<1>8. StreamsInv' /\ Busy' = Busy \cup {p}
  <2>1. SetTo(deck', p, d)
    BY <1>5 DEF c, SetTo
  <2>2. /\ \A q, i : Cut(to_catch, "UR", q, i) /\ q # p => Cut(to_catch', "UR", q, i)
        /\ \A i : Cut(to_catch', "UR", p, i)
    BY <1>4, <1>5
  <2>8. NoneLeft(p)
    BY <1>7, <2>2 DEF NoneLeft
  <2>3. StreamsInv /\ p \in Ports /\ e.id \in Nat /\ d.id = e.id
    BY <1>1, <1>2
  <2>4. record_owner[p] # Self /\ Asking(p) \subseteq {"SR"} /\ d.status \in {"Idle", "Waiting"}
    BY <1>4
  <2>5. AsksToLoad(p, e.id) /\ Still
    BY <1>5 DEF AsksToLoad, Still
  <2>6. StreamsInv'
    BY <2>1, <2>3, <2>4, <2>5, <2>8, StartKeeps
  <2>7. Busy' = Busy \cup {p}
    BY <2>1, <2>3, <2>4, <2>5, <2>8, StartKeeps
  <2> QED BY <2>6, <2>7
<1>9. EventsFine(u, c, leaked', Busy \cup {p})
  BY <1>6
<1> QED BY <1>5, <1>8, <1>9, LeftFine

(* A window opens or closes, or the wait for one ends, on a deck not in use.     *)
LEMMA DeckFine ==
  ASSUME TypesInv, CatchInv, running, NEW p \in Ports, p \notin Busy, NEW d, d.status \in {"Idle", "Waiting"},
         NEW u, NEW c, SetTo(c, p, d), Left(u, c, <<>>), EventsFine(u, c, leaked', Busy)
  PROVE  CatchInv'
<1>1. Still /\ UNCHANGED <<to_catch, to_caed>> /\ SetTo(deck', p, d)
  BY Here, LeftIs DEF SetTo, Still
<1>0. StreamsInv
  BY Here
<1>2. StreamsInv'
  BY <1>0, <1>1, DeckKeeps
<1>3. Busy' = Busy
  BY <1>0, <1>1, DeckKeeps
<1> QED BY <1>2, <1>3, LeftFine

LEMMA CloseFine ==
  ASSUME TypesInv, CatchInv, running, NEW k \in DOMAIN events, NEW e, e = events[k], NEW p, p = e.deck, Claims(e, leaked),
         NEW f \in Events, Same(f, e), f.status = "Idle", f.window => e.window, f.delay => e.delay,
         Left([events EXCEPT ![k] = f], [deck EXCEPT ![p] = Freed(deck[p])], <<>>),
         leaked' \subseteq leaked, \A id \in leaked : id # e.id => id \in leaked'
  PROVE  CatchInv'
<1> DEFINE u == [events EXCEPT ![k] = f]
           d == Freed(deck[p])
           c == [deck EXCEPT ![p] = d]
<1>1. p \in Ports /\ deck[p] \in RecordDecks /\ EventsTyped(events, deck, Busy) /\ EventsFine(events, deck, leaked, Busy)
  BY Here
<1>2. d.status = "Idle" /\ d.pending = deck[p].pending
  BY <1>1 DEF Freed, RecordDecks
<1>3. p \notin Busy
  BY <1>1 DEF EventsFine, OneClaim
<1>4. Left(u, c, <<>>)
  OBVIOUS
<1> HIDE DEF d, u
<1>5. EventsFine(u, c, leaked', Busy)
  <2>1. ASSUME NEW l, l = leaked' PROVE EventsFine(u, c, l, Busy)
    <3>1. l \subseteq leaked /\ \A id \in leaked : id # e.id => id \in l
      BY <2>1
    <3> QED BY <1>1, <1>2, <3>1, EvClose DEF u
  <2> QED BY <2>1
<1>6. d.status \in {"Idle", "Waiting"} /\ SetTo(c, p, d)
  BY <1>2 DEF SetTo
<1> HIDE DEF c
<1>7. p \in Ports
  BY <1>1
<1> QED BY <1>3, <1>4, <1>5, <1>6, <1>7, DeckFine

(* Decks change in what neither ports nor events depend on.                      *)
LEMMA FreeClaims ==
  ASSUME TypesInv, CatchInv, running, NEW p \in Ports, Unclaimed(p)
  PROVE  NoClaim(events, p, leaked)
<1> SUFFICES ASSUME NEW j \in DOMAIN events, events[j].deck = p, Claims(events[j], leaked) PROVE FALSE
  BY DEF NoClaim
<1>1. EventsFine(events, deck, leaked, Busy)
  BY Here
<1>2. events[j].id \in leaked
  BY DEF Unclaimed, Claims
<1>3. CASE \E n \in DOMAIN Schedule : Scheduled(events[j], n)
  BY <1>2, <1>3 DEF Unclaimed, Scheduled
<1>4. CASE ByRml(events, deck, Busy, j)
  BY <1>1, <1>4 DEF ByRml, EventsFine, OneClaim
<1> QED BY <1>1, <1>3, <1>4 DEF EventsFine, Known

(* RDCae::readyData()                                                            *)
LEMMA AnswerIs ==
  ASSUME TypesInv, readyData, NEW m, m = Head(to_catch), NEW p, p = m.port
  PROVE  /\ running /\ to_catch # <<>> /\ m \in Told /\ p \in Ports /\ to_catch' = Tail(to_catch) /\ Still /\ UNCHANGED leaked
         /\ m.cmd \in {"LR", "RS"} =>
              /\ \E st : /\ st = IF m.cmd = "LR" THEN "Ready" ELSE "Recording"
                         /\ deck' = [deck EXCEPT ![p].status = st]
              /\ UNCHANGED <<events, to_caed>> /\ wild' = FALSE
         /\ m.cmd = "SR" => to_caed' = to_caed \o <<Cmd("UR", p, 0)>> /\ UNCHANGED <<events, deck>> /\ wild' = FALSE
         /\ m.cmd = "UR" => Become(recordUnloadedData(Daemon, p))
<1>1. running /\ to_catch # <<>> /\ to_catch' = Tail(to_catch) /\ Still /\ UNCHANGED leaked /\ Become(Answered(Daemon, m))
  BY DEF readyData, Loop, Still
<1>2. m \in Told /\ p \in Ports
  <2>1. to_catch \in Seq(Told)
    BY DEF TypesInv, Carried
  <2>2. m \in Told
    BY <1>1, <2>1
  <2> QED BY <2>2 DEF Told
<1>3. /\ Daemon \in Daemons /\ Daemon.events = events /\ Daemon.deck = deck
      /\ Daemon.cmds = <<>> /\ Daemon.wild = FALSE
  BY DaemonType DEF TypesInv
<1>4. to_caed \o <<>> = to_caed
  BY DEF TypesInv, Carried
<1>5. CASE m.cmd = "LR"
  <2>1. Answered(Daemon, m) = [Daemon EXCEPT !.deck[p].status = "Ready"]
    BY <1>5 DEF Answered
  <2>2. /\ Answered(Daemon, m).events = events /\ Answered(Daemon, m).cmds = <<>> /\ Answered(Daemon, m).wild = FALSE
        /\ Answered(Daemon, m).deck = [deck EXCEPT ![p].status = "Ready"]
    BY <1>3, <2>1 DEF Daemons
  <2> QED BY <1>1, <1>2, <1>4, <1>5, <2>2 DEF Become
<1>6. CASE m.cmd = "RS"
  <2>1. Answered(Daemon, m) = [Daemon EXCEPT !.deck[p].status = "Recording"]
    BY <1>6 DEF Answered
  <2>2. /\ Answered(Daemon, m).events = events /\ Answered(Daemon, m).cmds = <<>> /\ Answered(Daemon, m).wild = FALSE
        /\ Answered(Daemon, m).deck = [deck EXCEPT ![p].status = "Recording"]
    BY <1>3, <2>1 DEF Daemons
  <2> QED BY <1>1, <1>2, <1>4, <1>6, <2>2 DEF Become
<1>7. CASE m.cmd = "SR"
  <2>1. Answered(Daemon, m) = [Daemon EXCEPT !.cmds = <<Cmd("UR", p, 0)>>]
    BY <1>7 DEF Answered
  <2>2. /\ Answered(Daemon, m).events = events /\ Answered(Daemon, m).cmds = <<Cmd("UR", p, 0)>>
        /\ Answered(Daemon, m).wild = FALSE /\ Answered(Daemon, m).deck = deck
    BY <1>3, <2>1 DEF Daemons
  <2> QED BY <1>1, <1>2, <1>7, <2>2 DEF Become
<1>8. CASE m.cmd = "UR"
  BY <1>1, <1>2, <1>8 DEF Answered
<1>9. m.cmd \in {"LR", "RS", "SR", "UR"}
  BY <1>2 DEF Told
<1> QED BY <1>5, <1>6, <1>7, <1>8, <1>9

LEMMA ReadyKeeps ==
  ASSUME Timely, TypesInv, CatchInv, readyData
  PROVE  CatchInv'
<1> DEFINE m == Head(to_catch)
           p == m.port
<1>1. /\ running /\ to_catch # <<>> /\ m \in Told /\ p \in Ports /\ to_catch' = Tail(to_catch) /\ Still /\ UNCHANGED leaked
      /\ m.cmd \in {"LR", "RS"} =>
           /\ \E st : /\ st = IF m.cmd = "LR" THEN "Ready" ELSE "Recording"
                      /\ deck' = [deck EXCEPT ![p].status = st]
           /\ UNCHANGED <<events, to_caed>> /\ wild' = FALSE
      /\ m.cmd = "SR" => to_caed' = to_caed \o <<Cmd("UR", p, 0)>> /\ UNCHANGED <<events, deck>> /\ wild' = FALSE
      /\ m.cmd = "UR" => Become(recordUnloadedData(Daemon, p))
  BY AnswerIs
<1>2. /\ CatchTypeOK /\ StreamsInv /\ EventsTyped(events, deck, Busy) /\ EventsFine(events, deck, leaked, Busy)
      /\ deck \in [Ports -> RecordDecks] /\ \A q \in Ports : deck[q] \in RecordDecks
  BY <1>1, Here DEF EventsTyped
<1>3. CASE m.cmd \in {"LR", "RS"}
  <2>1. PICK st : /\ st = IF m.cmd = "LR" THEN "Ready" ELSE "Recording"
                  /\ deck' = [deck EXCEPT ![p].status = st]
    BY <1>1, <1>3
  <2>2. UNCHANGED <<caedVars, running, tape, to_caed>> /\ UNCHANGED events /\ wild' = FALSE
    BY <1>1, <1>3 DEF Still
  <2>3. StreamsInv' /\ Busy' = Busy /\ p \in Busy
    BY <1>1, <1>2, <1>3, <2>1, <2>2, HandedKeeps
  <2>4. ASSUME NEW c, c = deck' PROVE EventsFine(events, c, leaked, Busy)
    <3>1. /\ \A q \in Ports : c[q].id = deck[q].id /\ c[q].pending = deck[q].pending
          /\ \A q \in Ports : q # p => c[q] = deck[q]
      BY <1>1, <1>2, <2>1, <2>4 DEF RecordDecks
    <3>2. OneByRml(events, c)
      BY <1>2, <3>1 DEF EventsFine, OneByRml
    <3>3. \A q \in Ports : q \notin Busy => (c[q].status = "Waiting" <=> deck[q].status = "Waiting")
      BY <2>3, <3>1
    <3> QED BY <1>2, <3>1, <3>2, <3>3, EvDeck
  <2>5. EventsFine(events', deck', leaked', Busy')
    BY <1>1, <2>2, <2>3, <2>4
  <2> QED BY <2>2, <2>3, <2>5, InvPrimed
<1>4. CASE m.cmd = "SR"
  <2>1. UNCHANGED <<caedVars, running, tape, deck>> /\ to_caed' = to_caed \o <<Cmd("UR", p, 0)>> /\ UNCHANGED events /\ wild' = FALSE
    BY <1>1, <1>4 DEF Still
  <2>2. StreamsInv' /\ Busy' = Busy
    BY <1>1, <1>2, <1>4, <2>1, StoppedKeeps
  <2>3. EventsFine(events', deck', leaked', Busy')
    BY <1>1, <1>2, <2>1, <2>2
  <2> QED BY <2>1, <2>2, <2>3, InvPrimed
<1>5. CASE m.cmd = "UR"
  <2> DEFINE r == recordUnloadedData(Daemon, p)
  <2>1. p \in Busy /\ p \in Ports /\ record_owner[p] # Self /\ Asking(p) = {} /\ NoneLeft(p)
    BY <1>1, <1>2, <1>5, LastAnswer
  <2>2. After(r, p, leaked, Busy)
    BY <1>2, <2>1, UnloadFine
  <2>3. events' = r.events /\ deck' = r.deck /\ to_caed' = to_caed \o r.cmds /\ wild' = r.wild
    BY <1>1, <1>5 DEF Become
  <2> HIDE DEF r
  <2>4. PICK d \in RecordDecks :
          /\ r.deck = [deck EXCEPT ![p] = d] /\ d.status \in {"Idle", "Waiting"}
          /\ \/ r.cmds = <<>> /\ EventsFine(r.events, r.deck, leaked, Busy \ {p})
             \/ r.cmds = Loads(p, Base) /\ d.id = Base /\ EventsFine(r.events, r.deck, leaked, Busy)
    BY <2>2 DEF After
  <2>5. SetTo(deck', p, d) /\ wild' = FALSE /\ Still
    BY <1>1, <2>2, <2>3, <2>4 DEF SetTo, After
  <2>6. CASE r.cmds = <<>> /\ EventsFine(r.events, r.deck, leaked, Busy \ {p})
    <3>1. UNCHANGED to_caed
      <4>1. to_caed \o <<>> = to_caed
        BY DEF TypesInv, Carried
      <4> QED BY <2>3, <2>6, <4>1
    <3>2. StreamsInv'
      BY <1>1, <1>2, <2>1, <2>4, <2>5, <3>1, UnloadKeeps
    <3>3. Busy' = Busy \ {p}
      BY <1>1, <1>2, <2>1, <2>4, <2>5, <3>1, UnloadKeeps
    <3>4. EventsFine(events', deck', leaked', Busy')
      BY <1>1, <2>3, <2>6, <3>3
    <3> QED BY <2>5, <3>2, <3>4, InvPrimed
  <2>7. CASE r.cmds = Loads(p, Base) /\ d.id = Base /\ EventsFine(r.events, r.deck, leaked, Busy)
    <3>1. AsksToLoad(p, Base) /\ Base \in Nat /\ Asking(p) \subseteq {"SR"} /\ d.status \in {"Idle", "Waiting"}
      BY <2>1, <2>3, <2>4, <2>7, CatchAssumption DEF AsksToLoad
    <3>2. StreamsInv'
      BY <1>1, <1>2, <2>1, <2>5, <2>7, <3>1, StartKeeps
    <3>3. Busy' = Busy \cup {p}
      BY <1>1, <1>2, <2>1, <2>5, <2>7, <3>1, StartKeeps
    <3>4. EventsFine(events', deck', leaked', Busy')
      <4>1. Busy \cup {p} = Busy
        BY <2>1
      <4> QED BY <1>1, <2>3, <2>7, <3>3, <4>1
    <3> QED BY <2>5, <3>2, <3>4, InvPrimed
  <2> QED BY <2>4, <2>6, <2>7
<1> QED
  <2>1. m.cmd \in {"LR", "RS", "SR", "UR"}
    BY <1>1 DEF Told
  <2> QED BY <1>3, <1>4, <1>5, <2>1

(* The decks stay as they are.                                                   *)
LEMMA SameDeckFine ==
  ASSUME TypesInv, CatchInv, running, NEW u, Left(u, deck, <<>>), EventsFine(u, deck, leaked', Busy)
  PROVE  CatchInv'
<1>1. UNCHANGED <<caedVars, running, tape, to_catch, to_caed>> /\ deck' = deck
  BY Here, LeftIs
<1>2. StreamsInv' /\ Busy' = Busy
  BY <1>1, Here, QuietKeeps
<1> QED BY <1>2, LeftFine

LEMMA NothingFine ==
  ASSUME TypesInv, CatchInv, running, Left(events, deck, <<>>), UNCHANGED leaked
  PROVE  CatchInv'
<1>1. EventsFine(events, deck, leaked', Busy)
  BY Here
<1> QED BY <1>1, SameDeckFine

(* The clock, the GPI lines and the timers                                       *)
LEMMA EngineKeeps ==
  ASSUME Timely, TypesInv, CatchInv, NEW k \in DOMAIN events, engineData(k)
  PROVE  CatchInv'
<1> DEFINE e == events[k]
           p == e.deck
<1>1. /\ CatchTypeOK /\ Carried /\ StreamsInv /\ running /\ e \in Events /\ p \in Ports /\ deck[p] \in RecordDecks
      /\ EventsTyped(events, deck, Busy) /\ EventsFine(events, deck, leaked, Busy) /\ e.start \in {"hard", "gpi"}
  BY Here DEF engineData, Input, Loop, Events, Starts
<1>2. /\ UNCHANGED leaked
      /\ IF e.start = "hard"
         THEN IF Available(deck[p])
              THEN Left([events EXCEPT ![k] = Recorded(e)], [deck EXCEPT ![p] = For(deck[p], e.id)], Loads(p, e.id))
              ELSE Left(events, deck, <<>>)
         ELSE Left([events EXCEPT ![k] = Opened(e)], [deck EXCEPT ![p] = WaitsFor(deck[p], e.id)], <<>>)
  BY <1>1, EngineLeaves
<1>3. Quiet(p) /\ Unclaimed(p) /\ (e.start = "gpi" => deck[p].status = "Idle")
  BY DEF engineData, Timely, Settled
<1>4. NoClaim(events, p, leaked) /\ \A j \in DOMAIN events : events[j].deck = p => ~Claims(events[j], leaked)
  BY <1>1, <1>3, FreeClaims DEF NoClaim
<1>5. p \in Busy <=> deck[p].status = "Recording"
  BY <1>1, <1>3, QuietPort
<1>6. CASE e.start = "hard" /\ Available(deck[p])
  <2>1. Recorded(e) \in Events /\ Same(Recorded(e), e) /\ Recorded(e).status = "Recording" /\ ~Recorded(e).window /\ ~Recorded(e).delay
    BY <1>1, <1>4, FieldTypes DEF Recorded, Events, Same, Claims
  <2>2. p \notin Busy /\ e.id \notin leaked
    BY <1>4, <1>5, <1>6 DEF Available, Claims
  <2>3. Left([events EXCEPT ![k] = Recorded(e)], [deck EXCEPT ![p] = For(deck[p], e.id)], Loads(p, e.id))
    BY <1>2, <1>6
  <2> QED BY <1>1, <1>2, <1>4, <2>1, <2>2, <2>3, StartFine
<1>7. CASE e.start = "hard" /\ ~Available(deck[p])
  BY <1>1, <1>2, <1>7, NothingFine
<1>8. CASE e.start = "gpi"
  <2> DEFINE f == Opened(e)
             u == [events EXCEPT ![k] = f]
             d == WaitsFor(deck[p], e.id)
             c == [deck EXCEPT ![p] = d]
  <2>1. f \in Events /\ Same(f, e) /\ f.status = "Waiting" /\ f.window /\ ~f.delay
    BY <1>1, <1>4, FieldTypes DEF Opened, Events, Same, Claims
  <2>2. d.id = e.id /\ d.pending = deck[p].pending /\ d.status = "Waiting"
    BY <1>1 DEF WaitsFor, RecordDecks
  <2>3. p \notin Busy
    BY <1>3, <1>5, <1>8
  <2>4. Left(u, c, <<>>) /\ SetTo(c, p, d) /\ d.status \in {"Idle", "Waiting"}
    BY <1>2, <1>8, <2>2 DEF SetTo
  <2> HIDE DEF f, d
  <2>5. EventsFine(u, c, leaked, Busy)
    BY <1>1, <1>4, <2>1, <2>2, <2>3, EvOpen
  <2> HIDE DEF u, c
  <2>6. EventsFine(u, c, leaked', Busy)
    BY <1>2, <2>5
  <2> QED BY <1>1, <2>3, <2>4, <2>6, DeckFine
<1> QED BY <1>1, <1>6, <1>7, <1>8

LEMMA GpiKeeps ==
  ASSUME Timely, TypesInv, CatchInv, NEW k \in DOMAIN events, gpiStart(k)
  PROVE  CatchInv'
<1> DEFINE e == events[k]
           p == e.deck
<1>1. /\ CatchTypeOK /\ Carried /\ StreamsInv /\ running /\ e \in Events /\ p \in Ports /\ deck[p] \in RecordDecks
      /\ EventsTyped(events, deck, Busy) /\ EventsFine(events, deck, leaked, Busy)
  BY Here DEF gpiStart, Input, Loop
<1>2. /\ e.window /\ UNCHANGED leaked
      /\ \/ Left([events EXCEPT ![k] = Delayed(e)], deck, <<>>)
         \/ Left([events EXCEPT ![k] = Taken(e)], [deck EXCEPT ![p] = For(deck[p], e.id)], Loads(p, e.id))
         \/ Left(events, deck, <<>>)
  BY <1>1, GpiLeaves
<1>3. p \notin Busy /\ e.id \notin leaked /\ \A j \in DOMAIN events : j # k /\ events[j].deck = p => ~Claims(events[j], leaked)
  BY <1>1, <1>2 DEF EventsFine, OneClaim, OneTimer, Claims
<1>4. CASE Left([events EXCEPT ![k] = Delayed(e)], deck, <<>>)
  <2> DEFINE f == Delayed(e)
             u == [events EXCEPT ![k] = f]
  <2>1. f \in Events /\ Same(f, e) /\ f.status = e.status /\ ~f.window /\ f.delay
    BY <1>1, FlagTypes DEF Delayed, Events, Same
  <2>2. Left(u, deck, <<>>)
    BY <1>4
  <2> HIDE DEF f
  <2>3. EventsFine(u, deck, leaked, Busy)
    BY <1>1, <1>2, <2>1, EvDelay
  <2> HIDE DEF u
  <2>4. EventsFine(u, deck, leaked', Busy)
    BY <1>2, <2>3
  <2> QED BY <1>1, <2>2, <2>4, SameDeckFine
<1>5. CASE Left([events EXCEPT ![k] = Taken(e)], [deck EXCEPT ![p] = For(deck[p], e.id)], Loads(p, e.id))
  <2>1. Taken(e) \in Events /\ Same(Taken(e), e) /\ Taken(e).status = "Recording" /\ ~Taken(e).window
    BY <1>1, FieldTypes DEF Taken, Events, Same
  <2>2. ~Taken(e).delay
    <3>1. ~e.delay
      BY <1>1, <1>2 DEF EventsFine, OneTimer
    <3> QED BY <1>1, <3>1 DEF Taken, Events
  <2> QED BY <1>1, <1>2, <1>3, <1>5, <2>1, <2>2, StartFine
<1>6. CASE Left(events, deck, <<>>)
  BY <1>1, <1>2, <1>6, NothingFine
<1> QED BY <1>2, <1>4, <1>5, <1>6

LEMMA OffsetKeeps ==
  ASSUME Timely, TypesInv, CatchInv, NEW k \in DOMAIN events, offsetTimerData(k)
  PROVE  CatchInv'
<1> DEFINE e == events[k]
           p == e.deck
<1>1. /\ CatchTypeOK /\ StreamsInv /\ running /\ e \in Events /\ p \in Ports /\ EventsFine(events, deck, leaked, Busy)
  BY Here DEF offsetTimerData, Input, Loop
<1>2. /\ e.delay /\ UNCHANGED leaked
      /\ IF Available(deck[p])
         THEN Left([events EXCEPT ![k] = DueNow(e)], [deck EXCEPT ![p] = For(deck[p], e.id)], Loads(p, e.id))
         ELSE Left([events EXCEPT ![k] = Due(e)], deck, <<>>)
  BY <1>1, DueLeaves
<1>3. p \notin Busy /\ e.id \notin leaked /\ \A j \in DOMAIN events : j # k /\ events[j].deck = p => ~Claims(events[j], leaked)
  BY <1>1, <1>2 DEF EventsFine, OneClaim, OneTimer, Claims
<1>4. Available(deck[p])
  BY <1>1, <1>3, FreePort
<1>5. DueNow(e) \in Events /\ Same(DueNow(e), e) /\ DueNow(e).status = "Recording" /\ ~DueNow(e).window /\ ~DueNow(e).delay
  BY <1>1, FlagTypes DEF DueNow, Events, Same
<1> QED BY <1>1, <1>2, <1>3, <1>4, <1>5, StartFine

LEMMA WindowKeeps ==
  ASSUME Timely, TypesInv, CatchInv, NEW k \in DOMAIN events, startTimerData(k)
  PROVE  CatchInv'
<1> DEFINE e == events[k]
           p == e.deck
<1>1. CatchTypeOK /\ running /\ e \in Events
  BY Here DEF startTimerData, Loop
<1>2. e.window /\ UNCHANGED leaked /\ Left([events EXCEPT ![k] = Shut(e)], [deck EXCEPT ![p] = Freed(deck[p])], <<>>)
  BY <1>1, WindowLeaves
<1>3. Shut(e) \in Events /\ Same(Shut(e), e) /\ Shut(e).status = "Idle" /\ ~Shut(e).window /\ (Shut(e).delay => e.delay)
  BY <1>1, FlagTypes DEF Shut, Events, Same
<1>4. Claims(e, leaked) /\ leaked' \subseteq leaked /\ \A id \in leaked : id # e.id => id \in leaked'
  BY <1>2 DEF Claims
<1> QED BY <1>1, <1>2, <1>3, <1>4, CloseFine

LEMMA LeakedKeeps ==
  ASSUME Timely, TypesInv, CatchInv, NEW id \in leaked, leakedTimer(id)
  PROVE  CatchInv'
<1>1. CatchTypeOK /\ running /\ EventsFine(events, deck, leaked, Busy)
  BY Here DEF leakedTimer, Loop
<1>2. PICK k \in DOMAIN events : events[k].id = id
  BY <1>1 DEF EventsFine, TimersListed
<1> DEFINE e == events[k]
           p == e.deck
<1>3. e \in Events
  BY Here
<1>4. Local(CloseWindow(Daemon, e.id)) /\ leaked' = leaked \ {e.id}
  BY <1>2 DEF leakedTimer
<1>5. Left([events EXCEPT ![k] = Closed(e)], [deck EXCEPT ![p] = Freed(deck[p])], <<>>)
  BY <1>1, <1>4, CloseLeaves
<1>6. Closed(e) \in Events /\ Same(Closed(e), e) /\ Closed(e).status = "Idle" /\ Closed(e).window = e.window /\ Closed(e).delay = e.delay
  BY <1>3, FieldTypes DEF Closed, Events, Same
<1>7. Claims(e, leaked) /\ leaked' \subseteq leaked /\ \A i \in leaked : i # e.id => i \in leaked'
  BY <1>2, <1>4 DEF Claims
<1> QED BY <1>1, <1>5, <1>6, <1>7, CloseFine

LEMMA CancelKeeps ==
  ASSUME Timely, TypesInv, CatchInv, NEW p \in Ports, cancel(p)
  PROVE  CatchInv'
<1>1. CatchTypeOK /\ StreamsInv /\ running /\ EventsFine(events, deck, leaked, Busy) /\ UNCHANGED leaked
  BY Here DEF cancel, Loop
<1>2. deck[p].status = "Waiting" /\ Quiet(p) /\ Local(CloseWindow(Daemon, deck[p].id))
  BY DEF cancel, Settled, Timely
<1>3. p \notin Busy
  BY <1>1, <1>2, QuietPort
<1>4. PICK k \in DOMAIN events : Claims(events[k], leaked) /\ events[k].deck = p /\ events[k].id = deck[p].id
  BY <1>1, <1>2, <1>3 DEF EventsFine, Awaited
<1> DEFINE e == events[k]
<1>5. e \in Events /\ p = e.deck
  BY <1>4, Here
<1>6. Left([events EXCEPT ![k] = Closed(e)], [deck EXCEPT ![p] = Freed(deck[p])], <<>>)
  BY <1>1, <1>2, <1>4, CloseLeaves
<1>7. Closed(e) \in Events /\ Same(Closed(e), e) /\ Closed(e).status = "Idle" /\ Closed(e).window = e.window /\ Closed(e).delay = e.delay
  BY <1>5, FieldTypes DEF Closed, Events, Same
<1>8. Claims(e, leaked) /\ leaked' \subseteq leaked /\ \A id \in leaked : id # e.id => id \in leaked'
  BY <1>1, <1>4
<1> QED BY <1>1, <1>5, <1>6, <1>7, <1>8, CloseFine

(* The end of a recording is asked for                                           *)
LEMMA StopFine ==
  ASSUME TypesInv, CatchInv, running, NEW p \in Ports, Quiet(p), NEW c, Left(events, c, <<Cmd("SR", p, 0)>>),
         \A q \in Ports : c[q].id = deck[q].id /\ c[q].status = deck[q].status /\ c[q].pending = deck[q].pending,
         UNCHANGED leaked
  PROVE  CatchInv'
<1>1. StreamsInv /\ EventsTyped(events, deck, Busy) /\ EventsFine(events, deck, leaked, Busy)
  BY Here
<1>2. deck' = c /\ to_caed' = to_caed \o <<Cmd("SR", p, 0)>> /\ UNCHANGED <<caedVars, running, tape, to_catch>>
  BY DEF Left
<1>3. StreamsInv' /\ Busy' = Busy
  BY <1>1, <1>2, StopKeeps
<1>4. OneByRml(events, c)
  BY <1>1 DEF EventsFine, OneByRml
<1>5. EventsFine(events, c, leaked, Busy)
  BY <1>1, <1>4, EvDeck
<1>6. EventsFine(events, c, leaked', Busy)
  BY <1>5
<1> QED BY <1>3, <1>6, LeftFine

LEMMA StopsKeep ==
  ASSUME Timely, TypesInv, CatchInv, (\E k \in DOMAIN events : gpiEnd(k)) \/ (\E p \in Ports : abort(p))
  PROVE  CatchInv'
<1>1. CatchTypeOK /\ \A q \in Ports : deck[q] \in RecordDecks
  BY Here
<1>2. ASSUME NEW k \in DOMAIN events, gpiEnd(k) PROVE CatchInv'
  <2> DEFINE p == events[k].deck
  <2>1. /\ Input /\ Settled(p) /\ UNCHANGED leaked /\ Left(events, deck, <<Cmd("SR", p, 0)>>) /\ p \in Ports
    BY <1>1, <1>2, StopLeaves
  <2>2. running /\ Quiet(p)
    BY <2>1 DEF Input, Loop, Settled, Timely
  <2> QED BY <2>1, <2>2, StopFine
<1>3. ASSUME NEW p \in Ports, abort(p) PROVE CatchInv'
  <2> DEFINE c == [deck EXCEPT ![p] = Aborted(deck[p])]
  <2>1. /\ Input /\ Settled(p) /\ UNCHANGED leaked /\ Left(events, c, <<Cmd("SR", p, 0)>>)
    BY <1>1, <1>3, AbortLeaves
  <2>2. running /\ Quiet(p)
    BY <2>1 DEF Input, Loop, Settled, Timely
  <2>3. \A q \in Ports : c[q].id = deck[q].id /\ c[q].status = deck[q].status /\ c[q].pending = deck[q].pending
    BY <1>1 DEF Aborted, RecordDecks, CatchTypeOK
  <2> HIDE DEF c
  <2> QED BY <2>1, <2>2, <2>3, StopFine
<1> QED BY <1>2, <1>3

(* A deck changes in what no port depends on                                     *)
LEMMA FlagFine ==
  ASSUME TypesInv, CatchInv, running, NEW c, Left(events, c, <<>>), UNCHANGED leaked,
         \A q \in Ports : c[q].id = deck[q].id /\
           \/ c[q].status = deck[q].status
           \/ deck[q].status \in {"Idle", "Ready"} /\ c[q].status = "Idle",
         OneByRml(events, c)
  PROVE  CatchInv'
<1>1. StreamsInv /\ EventsTyped(events, deck, Busy) /\ EventsFine(events, deck, leaked, Busy)
  BY Here
<1>2. deck' = c /\ UNCHANGED <<caedVars, running, tape, to_catch, to_caed>>
  BY Here, LeftIs
<1>3. StreamsInv' /\ Busy' = Busy
  BY <1>1, <1>2, QuietKeeps
<1>4. EventsFine(events, c, leaked, Busy)
  BY <1>1, EvDeck
<1>5. EventsFine(events, c, leaked', Busy)
  BY <1>4
<1> QED BY <1>3, <1>5, LeftFine

LEMMA ListKeeps ==
  ASSUME Timely, TypesInv, CatchInv, LoadDeckList
  PROVE  CatchInv'
<1> DEFINE c == [p \in Ports |-> Listed(deck[p])]
<1>1. CatchTypeOK /\ (\A q \in Ports : deck[q] \in RecordDecks) /\ (running => EventsFine(events, deck, leaked, Busy))
  BY Here
<1>2. Loop /\ (\A p \in Ports : deck[p].status # "Waiting") /\ UNCHANGED leaked /\ Left(events, c, <<>>)
  BY <1>1, ListLeaves DEF Timely
<1>3. running
  BY <1>2 DEF Loop
<1>4. \A q \in Ports : c[q].id = deck[q].id /\ c[q].pending = deck[q].pending /\
           (\/ c[q].status = deck[q].status
            \/ deck[q].status \in {"Idle", "Ready"} /\ c[q].status = "Idle")
  BY <1>1, <1>2 DEF Listed, RecordDecks
<1> HIDE DEF c
<1>5. OneByRml(events, c)
  BY <1>1, <1>3, <1>4 DEF EventsFine, OneByRml
<1> QED BY <1>2, <1>3, <1>4, <1>5, FlagFine

(* Recordings by RML                                                             *)
LEMMA RmlKeeps ==
  ASSUME Timely, TypesInv, CatchInv, NEW p \in Ports, RmlRecord(p)
  PROVE  CatchInv'
<1>1. /\ CatchTypeOK /\ StreamsInv /\ running /\ EventsTyped(events, deck, Busy) /\ EventsFine(events, deck, leaked, Busy)
      /\ (\A q \in Ports : deck[q] \in RecordDecks) /\ UNCHANGED leaked /\ deck \in [Ports -> RecordDecks]
  BY Here DEF RmlRecord, Input, Loop, EventsTyped
<1>2. /\ \A k \in DOMAIN events : IsDynamic(events[k]) => events[k].deck = p
      /\ \A q \in Ports : deck[q].pending => q = p
  BY DEF RmlRecord, OneRml, Timely
<1>3. CASE deck[p].status = "Idle" /\ Settled(p) /\ ("rml" \in Overlap \/ Unclaimed(p)) /\ Local(StartRmlRecording(Daemon, p))
  <2>1. Quiet(p) /\ Unclaimed(p)
    BY <1>3 DEF Timely, Settled
  <2>2. p \notin Busy
    BY <1>1, <1>3, <2>1, QuietPort
  <2>3. NoClaim(events, p, leaked)
    BY <1>1, <2>1, FreeClaims
  <2>4. NoDynamic(events)
    <3> SUFFICES ASSUME NEW j \in DOMAIN events, IsDynamic(events[j]) PROVE FALSE
      BY DEF NoDynamic
    <3>1. CASE \E n \in DOMAIN Schedule : Scheduled(events[j], n)
      BY <3>1, ScheduleFacts, CatchAssumption DEF IsDynamic, Scheduled
    <3>2. CASE ByRml(events, deck, Busy, j)
      BY <1>2, <2>2, <3>2 DEF ByRml
    <3> QED BY <1>1, <3>1, <3>2 DEF EventsFine, Known
  <2> DEFINE u == Append(events, RmlStarted(p))
             d == For(deck[p], Base)
             c == [deck EXCEPT ![p] = d]
  <2>5. Available(deck[p]) /\ \A j \in DOMAIN events : ~IsDynamic(events[j])
    BY <1>3, <2>4 DEF Available, NoDynamic
  <2>6. Left(u, c, Loads(p, Base))
    BY <1>1, <1>3, <2>5, RmlLeaves
  <2>7. d.id = Base /\ d.status = "Idle"
    BY <1>1, <1>3 DEF For, RecordDecks
  <2>8. WithRml(u, events, p) /\ SetTo(c, p, d)
    BY DEF WithRml, SetTo
  <2> HIDE DEF u, d
  <2>9. c[p] = d /\ \A q \in Ports : q # p => c[q] = deck[q]
    BY <1>1
  <2> HIDE DEF c
  <2>10. OnlyPending(c, p)
    BY <1>2, <2>9 DEF OnlyPending
  <2>11. EventsFine(u, c, leaked, Busy \cup {p})
    <3>1. c[p].id = Base
      BY <2>7, <2>9
    <3>2. \A q \in Ports : q # p => c[q] = deck[q]
      BY <2>9
    <3>3. EventsTyped(events, deck, Busy) /\ EventsFine(events, deck, leaked, Busy)
      BY <1>1
    <3> QED BY <2>2, <2>3, <2>4, <2>8, <2>10, <3>1, <3>2, <3>3, EvRml
  <2>12. AsksToLoad(p, Base) /\ Still /\ SetTo(deck', p, d) /\ UNCHANGED to_catch
    BY <2>6, <2>8 DEF AsksToLoad, Still, Left, SetTo
  <2>13. NoneLeft(p) /\ record_owner[p] # Self /\ Asking(p) \subseteq {"SR"}
    <3>1. Ordered(to_catch, CatchPairs)
      BY <1>1 DEF StreamsInv
    <3>2. /\ record_owner[p] # Self /\ Asking(p) \subseteq {"SR"} /\ Telling(p) = {}
          /\ \A id : Cut(to_catch, "UR", p, id)
      BY <1>1, <2>2, FreePort
    <3> QED BY <2>12, <3>1, <3>2, SameTold DEF NoneLeft
  <2>14. d.status \in {"Idle", "Waiting"} /\ d.id = Base /\ Base \in Nat
    BY <2>7, CatchAssumption
  <2>15. StreamsInv'
    BY <1>1, <2>12, <2>13, <2>14, StartKeeps
  <2>16. Busy' = Busy \cup {p}
    BY <1>1, <2>12, <2>13, <2>14, StartKeeps
  <2>17. EventsFine(u, c, leaked', Busy \cup {p})
    BY <1>1, <2>11
  <2> QED BY <2>6, <2>15, <2>16, <2>17, LeftFine
<1>4. CASE Local([Daemon EXCEPT !.deck[p].pending = TRUE])
  <2> DEFINE c == [deck EXCEPT ![p] = Awaits(deck[p])]
  <2>1. Left(events, c, <<>>)
    BY <1>1, <1>4, PendingLeaves
  <2>2. /\ \A q \in Ports : c[q].id = deck[q].id /\ c[q].status = deck[q].status
        /\ \A q \in Ports : q # p => c[q] = deck[q]
    BY <1>1 DEF Awaits, RecordDecks
  <2> HIDE DEF c
  <2>3. OneByRml(events, c)
    <3>1. \A q \in Ports : c[q].pending => q = p
      BY <1>2, <2>2
    <3>2. \A k \in DOMAIN events : events[k].id = Base => events[k].deck = p
      BY <1>2, CatchAssumption DEF IsDynamic
    <3> QED BY <3>1, <3>2 DEF OneByRml
  <2> QED BY <1>1, <2>1, <2>2, <2>3, FlagFine
<1> QED BY <1>3, <1>4 DEF RmlRecord

(* RDCatch edits an event                                                        *)
LEMMA RemoveKeeps ==
  ASSUME Timely, TypesInv, CatchInv, NEW n \in DOMAIN Schedule, RemoveEvent(n)
  PROVE  CatchInv'
<1> DEFINE id == Schedule[n].id
           u == Without(id)
<1>1. CatchTypeOK /\ EventsTyped(events, deck, Busy) /\ (running => EventsFine(events, deck, leaked, Busy))
  BY Here
<1>2. Loop /\ Editable(n) /\ ~Waits(n) /\ leaked' = leaked \cup Leaks(id) /\ Left(u, deck, <<>>)
  BY <1>1, RemoveLeaves DEF Timely
<1>3. running
  BY <1>2 DEF Loop
<1>4. Leaks(id) = {} /\ id \notin leaked /\ leaked' = leaked
  BY <1>2 DEF Waits
<1>5. MayGo(events, id, leaked)
  BY <1>2, <1>4 DEF MayGo, Editable, Timely, Leaks, Claims
<1>6. u \in Seq(Events) /\ Unique(u) /\ LeftOut(u, events, id)
  BY <1>1, WithoutIs DEF LeftOut
<1> HIDE DEF id, u
<1>7. EventsFine(u, deck, leaked, Busy)
  BY <1>1, <1>3, <1>5, <1>6, EvRemove
<1>8. EventsFine(u, deck, leaked', Busy)
  BY <1>4, <1>7
<1> QED BY <1>2, <1>3, <1>8, SameDeckFine

LEMMA UpdateKeeps ==
  ASSUME Timely, TypesInv, CatchInv, NEW n \in DOMAIN Schedule, UpdateEvent(n)
  PROVE  CatchInv'
<1> DEFINE id == Schedule[n].id
           w == Without(id)
           u == Append(w, Schedule[n])
<1>1. CatchTypeOK /\ EventsTyped(events, deck, Busy) /\ (running => EventsFine(events, deck, leaked, Busy))
  BY Here
<1>2. Loop /\ Editable(n) /\ leaked' = leaked \cup Leaks(id) /\ Left(u, deck, <<>>) /\ Unique(u)
  BY <1>1, UpdateLeaves
<1>3. running
  BY <1>2 DEF Loop
<1>4. \A x : x \in leaked' <=> x \in leaked \/ (x = id /\ \E i \in DOMAIN events : events[i].id = id /\ events[i].window)
  BY <1>2 DEF Leaks
<1>5. MayChange(events, id)
  BY <1>2 DEF MayChange, Editable, Timely
<1>6. w \in Seq(Events) /\ LeftOut(w, events, id)
  BY <1>1, WithoutIs DEF LeftOut
<1>7. Updated(u, w, n) /\ id = Schedule[n].id
  BY DEF Updated
<1> HIDE DEF id, w, u
<1>8. ASSUME NEW l, l = leaked' PROVE EventsFine(u, deck, l, Busy)
  <2>1. Outlives(l, leaked, events, id)
    BY <1>4, <1>8 DEF Outlives
  <2> QED BY <1>1, <1>2, <1>3, <1>5, <1>6, <1>7, <2>1, EvUpdate
<1>9. EventsFine(u, deck, leaked', Busy)
  BY <1>8
<1> QED BY <1>2, <1>3, <1>9, SameDeckFine

--------------------------------------------------------------------------------
(* What holds of rdcatchd and caed when nothing comes at a bad time.             *)

LEMMA CatchInvInit == CatchInit => CatchInv
<1> SUFFICES ASSUME CatchInit PROVE CatchInv
  OBVIOUS
<1>1. running = FALSE /\ wild = FALSE /\ to_caed = <<>> /\ to_catch = <<>> /\ Init
  BY DEF CatchInit
<1>2. \A p \in Ports : record_owner[p] = None
  BY <1>1 DEF Init
<1>3. Ordered(to_caed, CaedPairs) /\ Ordered(to_catch, CatchPairs) /\ \A p : Asking(p) = {}
  BY <1>1 DEF Ordered, Asking, Has
<1>4. \A p \in Ports : CaedFine(record_owner[p], Asking(p))
  BY <1>2, <1>3, Connections DEF CaedFine
<1> QED BY <1>1, <1>3, <1>4 DEF CatchInv, StreamsInv

LEMMA CatchInvNext ==
  ASSUME Timely, TypesInv, CatchInv, [CatchNext]_catchVars
  PROVE  CatchInv'
<1>0. StreamsInv /\ wild = FALSE /\ (running => EventsFine(events, deck, leaked, Busy))
  BY Here
<1>1. ASSUME StreamsInv', running => Busy' = Busy, wild' = FALSE, UNCHANGED <<running, events, deck, leaked>> PROVE CatchInv'
  <2>1. running' => EventsFine(events', deck', leaked', Busy')
    BY <1>0, <1>1
  <2> QED BY <1>1, <2>1, InvPrimed
<1>2. CASE Serve
  <2>1. wild' = FALSE
    <3>1. wild' \in BOOLEAN
      BY TypesNext DEF TypesInv, CatchTypeOK
    <3> QED BY <1>0, <1>2, <3>1, ServeKeeps
  <2> QED BY <1>0, <1>1, <1>2, <2>1, ServeKeeps
<1>3. ASSUME NEW p \in Ports, recordTimer(p) PROVE CatchInv'
  BY <1>0, <1>1, <1>3, TimerKeeps
<1>4. CASE OtherConnects \/ \E p \in Ports : OtherStops(p)
  BY <1>0, <1>1, <1>4, OtherKeeps
<1>5. CASE startDaemon \/ Exit \/ connectionClosed
  <2>1. StreamsInv' /\ wild' = FALSE /\ (running' => startDaemon /\ Busy' = {})
    BY <1>0, <1>5, LifeKeeps
  <2>2. ASSUME running' PROVE EventsFine(events', deck', leaked', Busy')
    <3>1. events' = Schedule /\ deck' = [p \in Ports |-> IdleDeck] /\ leaked' = {} /\ Busy' = {}
      BY <2>1, <2>2, StartDaemonIs
    <3> DEFINE dk == [p \in Ports |-> IdleDeck]
    <3>2. EventsFine(Schedule, dk, {}, {})
      BY EvInit
    <3> QED BY <3>1, <3>2
  <2> QED BY <2>1, <2>2, InvPrimed
<1>6. CASE UNCHANGED catchVars
  <2>1. /\ Still /\ UNCHANGED <<to_catch, to_caed, running, events, deck, leaked>> /\ wild' = FALSE
    BY <1>0, <1>6 DEF catchVars, Still
  <2>2. CASE running
    <3>1. UNCHANGED <<caedVars, running, tape, to_catch, to_caed>>
      BY <2>1 DEF Still
    <3>2. StreamsInv' /\ Busy' = Busy
      BY <1>0, <2>1, <2>2, <3>1, QuietKeeps
    <3> QED BY <1>1, <2>1, <3>2
  <2>3. CASE ~running
    <3>1. StreamsInv'
      BY <1>0, <1>6, <2>3 DEF catchVars, caedVars, vars, recVars, StreamsInv, Ordered, Asking, Has
    <3> QED BY <1>1, <2>1, <2>3, <3>1
  <2> QED BY <2>2, <2>3
<1> QED BY <1>2, <1>3, <1>4, <1>5, <1>6, ReadyKeeps, ListKeeps, StopsKeep, CancelKeeps, RmlKeeps, EngineKeeps, GpiKeeps,
           WindowKeeps, OffsetKeeps, RemoveKeeps, UpdateKeeps, LeakedKeeps DEF CatchNext

LEMMA CatchAlways == Timely => (CatchSpec => [](TypesInv /\ CatchInv))
<1> SUFFICES ASSUME Timely PROVE CatchSpec => [](TypesInv /\ CatchInv)
  OBVIOUS
<1>1. TypesInv /\ CatchInv /\ [CatchNext]_catchVars => CatchInv'
  BY CatchInvNext
<1> QED BY <1>1, TypesInit, TypesNext, CatchInvInit, PTL DEF CatchSpec

(* Neither daemon is made to use an index or a pointer that is not valid, for    *)
(* any schedule and any number of decks: no timer of an edited event fires for   *)
(* one that is gone, recordUnloadedData() never starts two recordings by RML at  *)
(* once, and caed never gets an unload for a port that is not loaded, although   *)
(* stops are also reported by record timers and made by other clients, and       *)
(* rdcatchd may end and be started again at any point of it.                     *)
THEOREM NoWildUse == Timely => (CatchSpec => []NoWildAccess)
<1> SUFFICES ASSUME Timely PROVE CatchSpec => []NoWildAccess
  OBVIOUS
<1>1. CatchInv => NoWildAccess
  BY DEF CatchInv, NoWildAccess
<1> QED BY <1>1, CatchAlways, PTL

(* From the moment caed has a port loaded until rdcatchd has handled the unload, *)
(* catch_record_id[] of the deck is the event whose cut is on the port, so that  *)
(* CheckInRecording() and the purge are done to the event that was recorded,     *)
(* whatever edits, aborts and recordings by RML come in between.                 *)
THEOREM CutsCredited == Timely => (CatchSpec => []RecordingsCredited)
<1> SUFFICES ASSUME Timely PROVE CatchSpec => []RecordingsCredited
  OBVIOUS
<1>1. CatchInv => RecordingsCredited
  <2> SUFFICES ASSUME CatchInv, running, NEW p \in Ports
               PROVE  /\ record_owner[p] = Self => deck[p].id = tape[p]
                      /\ \A k \in DOMAIN to_catch : to_catch[k].cmd = "UR" /\ to_catch[k].port = p
                                                     => deck[p].id = to_catch[k].cut
    BY DEF RecordingsCredited
  <2>1. CutsFine(p)
    BY DEF CatchInv, StreamsInv, PortFine
  <2> QED BY <2>1 DEF CutsFine, Cut
<1> QED BY <1>1, CatchAlways, PTL

(* rdcatchd and caed agree about every deck that nothing is under way about, and *)
(* an event is shown as recording or waiting only while its deck is.  Every      *)
(* recording must have a length: rdcatchd is not told when another client stops  *)
(* its port, and only the record timer ends such a recording.                    *)
THEOREM DecksAgreeAtRest == Timely /\ FALSE \notin Timed => (CatchSpec => []DecksAgree)
<1> SUFFICES ASSUME Timely, FALSE \notin Timed PROVE CatchSpec => []DecksAgree
  OBVIOUS
<1>1. TypesInv /\ CatchInv => DecksAgree
  <2> SUFFICES ASSUME TypesInv, CatchInv, running, NEW p \in Ports, Quiet(p)
               PROVE  /\ deck[p].status = "Recording" <=> record_owner[p] = Self
                      /\ deck[p].status = "Recording" => recording[p] \/ record_timer[p] # "off"
                      /\ deck[p].status # "Ready"
                      /\ \A k \in DOMAIN events : events[k].deck = p /\ events[k].status # "Idle" =>
                           deck[p].status = events[k].status /\ deck[p].id = events[k].id
    BY DEF DecksAgree
  <2>1. StreamsInv /\ EventsFine(events, deck, leaked, Busy)
    BY Here
  <2>2. /\ Asking(p) = {} /\ Telling(p) = {} /\ deck[p].status # "Ready"
        /\ deck[p].status = "Recording" <=> record_owner[p] = Self
        /\ p \in Busy <=> record_owner[p] = Self
    BY <2>1, QuietPort
  <2>3. record_owner[p] = Self => record_timer[p] # "off"
    BY <2>1, <2>2 DEF StreamsInv, PortFine, TimerFine
  <2>4. ASSUME NEW k \in DOMAIN events, events[k].deck = p, events[k].status # "Idle"
        PROVE  deck[p].status = events[k].status /\ deck[p].id = events[k].id
    BY <2>1, <2>2, <2>4 DEF EventsFine, Shown
  <2> QED BY <2>2, <2>3, <2>4
<1> QED BY <1>1, CatchAlways, PTL

================================================================================
