---------------------------- MODULE SoundPanelProofs ----------------------------
(* Proofs about SoundPanel for any number of clients, buttons, cards and streams, *)
(* and any number of messages under way.                                         *)
EXTENDS SoundPanel, CaedProofs, StreamLemmas

--------------------------------------------------------------------------------
(* What is on its way between a client and caed.                                 *)

(* A command names what caed's handlers expect.                                  *)
Order(c) == /\ c.cmd \in {"PW", "LP", "UP", "PP", "PY", "SP"}
            /\ c.cmd = "LP" => c.arg \in Cards
            /\ c.cmd # "LP" => c.arg \in Handles \cup {None}
(* A reply is for the client it is sent to, about a handle or none.              *)
Answer(r, ch) == r.to = ch /\ r.arg \in Handles \cup {None}

Carried ==
  \A ch \in Conns :
    /\ \A k \in DOMAIN to_caed[ch] : Order(to_caed[ch][k])
    /\ \A k \in DOMAIN to_client[ch] : Answer(to_client[ch][k], ch)
    /\ \A k \in DOMAIN delayed[ch] : Answer(delayed[ch][k], ch)

(* The button that loads is one of the client's own.                           *)
LoadingOwn == \A ch \in Conns : loading[ch] # NoButton =>
                loading[ch] \in Buttons /\ Client(loading[ch]) = ch

TypesInv == PanelTypeOK /\ Carried /\ LoadingOwn /\ alive \subseteq socket

(* A client that does not run has nothing.                                       *)
Gone(ch) == /\ loading[ch] = NoButton /\ to_client[ch] = <<>> /\ delayed[ch] = <<>>
            /\ \A b \in Buttons : Client(b) = ch => deck[b] = NoDeck
GoneInv == \A ch \in Conns \ alive : Gone(ch)

(* What a client has, for its decks D, the button ld that loads, its commands    *)
(* out and its replies in, when live are the handles caed holds for it.          *)
(* A load is the last command of its client, which then stands still, and so     *)
(* nothing follows it, and at most one answer to it is on the way.               *)
DeckSane(d) == /\ d.state \in {"none", "Stopped"} => d.handle = None
               /\ d.state \in {"Playing", "Stopping"} => ~d.pause_called
LoadLast(ld, out, in) ==
  /\ \A k \in DOMAIN out : out[k].cmd = "LP" =>
       k = Len(out) /\ ld # NoButton /\ \A j \in DOMAIN in : in[j].cmd # "LP"
  /\ \A k \in DOMAIN in : in[k].cmd = "LP" =>
       out = <<>> /\ ld # NoButton /\ \A j \in DOMAIN in : in[j].cmd = "LP" => j = k
Unloads(out, h) == \E k \in DOMAIN out : out[k].cmd = "UP" /\ out[k].arg = h
Announces(in, h) == \E k \in DOMAIN in : in[k].cmd = "LP" /\ in[k].arg = h
Holds(D, ch, h) == \E b \in Buttons : Client(b) = ch /\ D[b].handle = h
Good(D, ld, out, in, live, ch) ==
  /\ \A b \in Buttons : Client(b) = ch => DeckSane(D[b])
  /\ ld # NoButton => D[ld] = NewDeck
  /\ LoadLast(ld, out, in)
  /\ \A h \in live : Holds(D, ch, h) \/ Announces(in, h) \/ Unloads(out, h)
  /\ \A h \in Handles : Holds(D, ch, h) => h \in live /\ ~Unloads(out, h) /\ ~Announces(in, h)
  /\ \A h \in Handles : Announces(in, h) => h \in live
  /\ \A b, c \in Buttons : Client(b) = ch /\ Client(c) = ch /\ D[b].handle = D[c].handle =>
       b = c \/ D[b].handle = None

ClientInv(ch) == Good(deck, loading[ch], to_caed[ch], to_client[ch], LiveOf(ch), ch)
StreamInv == GoneInv /\ \A ch \in alive : ClientInv(ch)

--------------------------------------------------------------------------------
(* What caed's handlers send, and which handles they leave to whom.              *)

Plain(s) == /\ \A j, k \in DOMAIN s : s[j] = s[k]
            /\ \A k \in DOMAIN s : s[k].cmd # "LP" /\ (s[k].cmd = "SP" => s[k].arg \in Handles)

LEMMA PlainOne ==
  /\ Plain(<<>>)
  /\ \A ch, cmd, arg, ok : cmd \notin {"LP", "SP"} => Plain(<<Reply(ch, cmd, arg, ok)>>)
  /\ \A ch, h, ok : h \in Handles => Plain(<<Reply(ch, "SP", h, ok)>>)
  /\ \A ch : Plain(<<Refusal(ch)>>)
BY DEF Plain, Reply, Refusal

LEMMA PlainTwice ==
  ASSUME NEW s \in Seq(Replies), Plain(s)
  PROVE  Plain(s \o s)
<1> DEFINE t == s \o s
<1>1. \A k \in DOMAIN t : \E j \in DOMAIN s : t[k] = s[j]
  BY ConcatFacts
<1> HIDE DEF t
<1>2. Plain(t)
  BY <1>1 DEF Plain
<1> QED BY <1>2 DEF t

LEMMA PlainReport ==
  ASSUME NEW i \in Ifs, NEW cmd \in {"SP", "PY"}
  PROVE  Plain(statePlayUpdate(i, cmd))
<1>1. CASE (\E h \in Handles : IsHandleOf(h, i)) /\ play_owner[i] # None
  <2>1. HandleOf(i) \in Handles
    BY <1>1 DEF HandleOf
  <2>2. statePlayUpdate(i, cmd) = <<Reply(play_owner[i], cmd, HandleOf(i), TRUE)>>
    BY <1>1 DEF statePlayUpdate
  <2> QED BY <2>1, <2>2, PlainOne
<1>2. CASE ~((\E h \in Handles : IsHandleOf(h, i)) /\ play_owner[i] # None)
  BY <1>2, PlainOne DEF statePlayUpdate
<1> QED BY <1>1, <1>2

(* Everything but the loads, unloads and the end of a connection leaves the      *)
(* handles alone and sends nothing of concern but stops.                         *)
LEMMA CaedCommands ==
  ASSUME TypeInv, NEW ch \in Conns, NEW arg \in Handles \cup {None}, NEW cmd,
         \/ Password(ch, TRUE) \/ HandleCommandFails(ch, cmd, arg)
         \/ /\ arg \in Handles
            /\ \/ \E pos \in Positions : PlaybackPosition(ch, arg, pos)
               \/ \E timed \in Timed : Play(ch, arg, timed)
               \/ PlayFails(ch, arg, FALSE) \/ StopPlayback(ch, arg) \/ StopPlaybackFails(ch, arg)
  PROVE  Plain(sent') /\ play_handle' = play_handle /\ socket' = socket
<1> USE DEF connVars, tableVars
<1>1. CASE Password(ch, TRUE)
  BY <1>1, PlainOne DEF Password
<1>2. CASE HandleCommandFails(ch, cmd, arg)
  BY <1>2, PlainOne DEF HandleCommandFails
<1>3. ASSUME NEW pos \in Positions, PlaybackPosition(ch, arg, pos)
      PROVE  Plain(sent') /\ play_handle' = play_handle /\ socket' = socket
  BY <1>3, PlainOne DEF PlaybackPosition
<1>4. ASSUME arg \in Handles, NEW timed \in Timed, Play(ch, arg, timed)
      PROVE  Plain(sent') /\ play_handle' = play_handle /\ socket' = socket
  <2>1. play_handle[arg].iface \in Ifs
    BY <1>4 DEF Play, Live, TypeInv, TypeOK, Entries
  <2> QED BY <1>4, <2>1, PlainOne, PlainReport DEF Play
<1>5. CASE PlayFails(ch, arg, FALSE)
  BY <1>5, PlainOne DEF PlayFails
<1>6. CASE arg \in Handles /\ StopPlayback(ch, arg)
  <2>1. play_handle[arg].iface \in Ifs
    BY <1>6 DEF StopPlayback, Live, TypeInv, TypeOK, Entries
  <2> QED BY <1>6, <2>1, PlainReport DEF StopPlayback
<1>7. CASE StopPlaybackFails(ch, arg)
  BY <1>7, PlainOne DEF StopPlaybackFails
<1> QED BY <1>1, <1>2, <1>3, <1>4, <1>5, <1>6, <1>7

LEMMA CaedTimers ==
  ASSUME TypeInv, \/ \E i \in Ifs : alsaStopTimerData(i) \/ AlsaPlayCallback(i)
                  \/ updateMeters \/ AlsaClock
  PROVE  Plain(sent') /\ play_handle' = play_handle /\ socket' = socket
<1> USE DEF connVars, tableVars
<1>1. ASSUME NEW i \in Ifs, alsaStopTimerData(i)
      PROVE  Plain(sent') /\ play_handle' = play_handle /\ socket' = socket
  <2> DEFINE report == statePlayUpdate(i, "SP")
  <2>1. report \in Seq(Replies) /\ Plain(report)
    BY StateReports, PlainReport DEF TypeInv
  <2>2. sent' = report \/ sent' = report \o report
    BY <1>1 DEF alsaStopTimerData
  <2> HIDE DEF report
  <2> QED BY <1>1, <2>1, <2>2, PlainTwice DEF alsaStopTimerData
<1>2. ASSUME NEW i \in Ifs, AlsaPlayCallback(i)
      PROVE  Plain(sent') /\ play_handle' = play_handle /\ socket' = socket
  BY <1>2, PlainOne DEF AlsaPlayCallback, RtCheck, RtRead, RtEof
<1>3. CASE updateMeters
  BY <1>3, PlainOne DEF updateMeters
<1>4. CASE AlsaClockStop
  <2>1. tick \in Ifs
    BY <1>4 DEF AlsaClockStop, TypeInv, TypeOK
  <2> QED BY <1>4, <2>1, PlainReport DEF AlsaClockStop
<1>5. CASE AlsaClockFill \/ AlsaClockSkip
  BY <1>5, PlainOne DEF AlsaClockFill, AlsaClockSkip
<1> QED BY <1>1, <1>2, <1>3, <1>4, <1>5 DEF AlsaClock

LEMMA CaedLoads ==
  ASSUME TypeInv, TableInv, NEW ch \in Conns, NEW c, LoadPlayback(ch, c)
  PROVE  \E h \in Handles : /\ \A d \in Conns : h \notin LiveOf(d)
                            /\ LiveOf(ch)' = LiveOf(ch) \cup {h}
                            /\ \A d \in Conns : d # ch => LiveOf(d)' = LiveOf(d)
                            /\ sent' = <<Reply(ch, "LP", h, TRUE)>> /\ socket' = socket
<1>1. PICK i \in Ifs, h \in Handles : IsOutputStream(i, c) /\ LoadOn(ch, i, h)
  BY DEF LoadPlayback
<1>2. \A g \in Handles : play_handle[g].iface # i
  BY <1>1 DEF IsOutputStream, TableInv, StreamsAccounted
<1>3. Purged(i) = play_handle
  BY <1>2 DEF Purged, IsHandleOf, TypeInv, TypeOK
<1>4. /\ play_handle' = [play_handle EXCEPT ![h] = [iface |-> i, owner |-> ch]]
      /\ play_handle[h].iface = None /\ socket' = socket /\ sent' = <<Reply(ch, "LP", h, TRUE)>>
  BY <1>1, <1>3 DEF LoadOn, IsNextHandle, connVars
<1>5. play_handle \in [Handles -> Entries] /\ i # None
  BY Sizes DEF TypeInv, TypeOK
<1>6. ASSUME NEW d \in Conns PROVE LiveOf(d)' = IF d = ch THEN LiveOf(d) \cup {h} ELSE LiveOf(d)
  BY <1>4, <1>5 DEF LiveOf, Live
<1>7. \A d \in Conns : h \notin LiveOf(d)
  BY <1>4 DEF LiveOf, Live
<1> QED BY <1>4, <1>6, <1>7

LEMMA CaedUnloads ==
  ASSUME TypeInv, TableInv, NEW ch \in Conns, NEW h \in Handles, UnloadPlayback(ch, h)
  PROVE  /\ LiveOf(ch)' = LiveOf(ch) \ {h}
         /\ \A d \in Conns : d # ch => LiveOf(d)' = LiveOf(d)
         /\ Plain(sent') /\ socket' = socket
<1>1. play_handle \in [Handles -> Entries] /\ None \notin Conns /\ socket \subseteq Conns
  BY Sizes DEF TypeInv, TypeOK
<1>2. /\ play_handle' = [play_handle EXCEPT ![h] = FreeEntry] /\ Live(h)
      /\ play_owner[play_handle[h].iface] \in {ch, None} /\ socket' = socket
      /\ sent' \in {<<Reply(ch, "UP", h, TRUE)>>, <<Refusal(ch)>>}
  BY DEF UnloadPlayback, connVars
<1>3. play_handle[h].owner = ch
  BY <1>1, <1>2 DEF TableInv, HandleOwners
<1>4. ASSUME NEW d \in Conns PROVE LiveOf(d)' = LiveOf(d) \ {h}
  BY <1>1, <1>2 DEF LiveOf, Live, FreeEntry
<1>5. \A d \in Conns : d # ch => h \notin LiveOf(d)
  BY <1>3 DEF LiveOf
<1>6. Plain(sent')
  BY <1>2, PlainOne
<1> QED BY <1>2, <1>4, <1>5, <1>6

(* An unload of a handle that caed holds for the client is not refused.          *)
LEMMA UnloadTaken ==
  ASSUME TypeInv, TableInv, NEW ch \in Conns, NEW h, HandleCommandFails(ch, "UP", h)
  PROVE  h \notin LiveOf(ch)
BY DEF HandleCommandFails, LiveOf, TableInv, HandleOwners

LEMMA CaedCloses ==
  ASSUME TypeInv, TableInv, NEW ch \in Conns, KillSocket(ch)
  PROVE  \A d \in Conns : d # ch => LiveOf(d)' = LiveOf(d)
<1>1. play_handle \in [Handles -> Entries]
  BY DEF TypeInv, TypeOK
<1>2. play_handle' = [h \in Handles |-> IF play_handle[h].owner = ch THEN FreeEntry ELSE play_handle[h]]
  BY DEF KillSocket
<1>3. \A h \in Handles : play_handle'[h] = IF play_handle[h].owner = ch THEN FreeEntry ELSE play_handle[h]
  BY <1>2
<1>4. FreeEntry.iface = None
  BY DEF FreeEntry
<1> QED BY <1>3, <1>4 DEF LiveOf, Live

--------------------------------------------------------------------------------
(* What a client has, through what happens to it.                                *)

Cmds == [cmd : Commands, arg : Int]

(* A reply that answers no load joins its stream.                                *)
LEMMA GoodHears ==
  ASSUME NEW D, NEW ld, NEW out, NEW in \in Seq(Replies), NEW live, NEW ch,
         Good(D, ld, out, in, live, ch), NEW t \in Seq(Replies), \A k \in DOMAIN t : t[k].cmd # "LP"
  PROVE  Good(D, ld, out, in \o t, live, ch)
<1> DEFINE u == in \o t
<1>1. /\ \A k \in DOMAIN in : k \in DOMAIN u /\ u[k] = in[k]
      /\ \A k \in DOMAIN u : u[k].cmd = "LP" => k \in DOMAIN in /\ u[k] = in[k]
  BY ConcatFacts
<1> HIDE DEF u
<1>2. \A h : Announces(u, h) <=> Announces(in, h)
  BY <1>1 DEF Announces
<1>3. LoadLast(ld, out, u)
  BY <1>1 DEF Good, LoadLast
<1>4. Good(D, ld, out, u, live, ch)
  BY <1>2, <1>3 DEF Good
<1> QED BY <1>4 DEF u

(* caed has read a command, and freed its handle if it was an unload.            *)
LEMMA GoodServed ==
  ASSUME NEW D, NEW ld, NEW out \in Seq(Cmds), NEW in, NEW live, NEW live2, NEW ch,
         Good(D, ld, out, in, live, ch), out # <<>>, Head(out).cmd # "LP",
         live2 = IF Head(out).cmd = "UP" THEN live \ {Head(out).arg} ELSE live
  PROVE  Good(D, ld, Tail(out), in, live2, ch)
<1> DEFINE u == Tail(out)
<1>1. /\ u \in Seq(Cmds) /\ Len(u) = Len(out) - 1
      /\ \A k \in DOMAIN u : k + 1 \in DOMAIN out /\ u[k] = out[k + 1]
      /\ \A k \in DOMAIN out : k # 1 => k - 1 \in DOMAIN u /\ u[k - 1] = out[k]
      /\ Head(out) = out[1] /\ 1 \in DOMAIN out /\ Len(out) \in Nat
      /\ \A k \in DOMAIN u : k \in Nat
  BY TailFacts, LenProperties
<1> HIDE DEF u
<1>2. \A h : Unloads(u, h) => Unloads(out, h)
  BY <1>1 DEF Unloads
<1>3. \A h : Unloads(out, h) => Unloads(u, h) \/ (Head(out).cmd = "UP" /\ Head(out).arg = h)
  <2> SUFFICES ASSUME NEW h, NEW k \in DOMAIN out, out[k].cmd = "UP", out[k].arg = h
               PROVE  Unloads(u, h) \/ (Head(out).cmd = "UP" /\ Head(out).arg = h)
    BY DEF Unloads
  <2>1. CASE k = 1
    BY <1>1, <2>1
  <2>2. CASE k # 1
    <3>1. k - 1 \in DOMAIN u /\ u[k - 1] = out[k]
      BY <1>1, <2>2
    <3> QED BY <3>1 DEF Unloads
  <2> QED BY <2>1, <2>2
<1>4. LoadLast(ld, u, in)
  <2>1. ASSUME NEW k \in DOMAIN u, u[k].cmd = "LP" 
        PROVE  k = Len(u) /\ ld # NoButton /\ \A j \in DOMAIN in : in[j].cmd # "LP"
    <3>1. k + 1 \in DOMAIN out /\ out[k + 1].cmd = "LP"
      BY <1>1, <2>1
    <3>2. k + 1 = Len(out) /\ ld # NoButton /\ \A j \in DOMAIN in : in[j].cmd # "LP"
      BY <3>1 DEF Good, LoadLast
    <3> QED BY <1>1, <3>2
  <2>2. \A k \in DOMAIN in : in[k].cmd # "LP"
    BY DEF Good, LoadLast
  <2> QED BY <2>1, <2>2 DEF LoadLast
<1>5. \A h \in live2 : Holds(D, ch, h) \/ Announces(in, h) \/ Unloads(u, h)
  BY <1>3 DEF Good
<1>6. \A h \in Handles : Holds(D, ch, h) => h \in live2 /\ ~Unloads(u, h) /\ ~Announces(in, h)
  <2> SUFFICES ASSUME NEW h \in Handles, Holds(D, ch, h) PROVE h \in live2 /\ ~Unloads(u, h) /\ ~Announces(in, h)
    OBVIOUS
  <2>1. h \in live /\ ~Unloads(out, h) /\ ~Announces(in, h)
    BY DEF Good
  <2>2. ~(Head(out).cmd = "UP" /\ Head(out).arg = h)
    BY <1>1, <2>1 DEF Unloads
  <2> QED BY <1>2, <2>1, <2>2
<1>7. \A h \in Handles : ~Announces(in, h)
  BY DEF Good, LoadLast, Announces
<1>8. Good(D, ld, u, in, live2, ch)
  BY <1>4, <1>5, <1>6, <1>7 DEF Good
<1> QED BY <1>8 DEF u

(* caed answers a load, with a handle that nobody had, or refuses it.            *)
LEMMA GoodLoads ==
  ASSUME NEW D, NEW ld, NEW out \in Seq(Cmds), NEW in \in Seq(Replies), NEW live, NEW ch \in Conns,
         Good(D, ld, out, in, live, ch), out # <<>>, Head(out).cmd = "LP",
         NEW h \in (Handles \ live) \cup {None}, NEW ok \in BOOLEAN
  PROVE  Good(D, ld, Tail(out), in \o <<Reply(ch, "LP", h, ok)>>, live \cup ({h} \ {None}), ch)
<1> DEFINE r == Reply(ch, "LP", h, ok)
           t == <<r>>
           u == in \o t
<1>0. None \notin Handles
  BY Sizes
<1>1. 1 = Len(out) /\ ld # NoButton /\ \A j \in DOMAIN in : in[j].cmd # "LP"
  <2>1. 1 \in DOMAIN out /\ Head(out) = out[1]
    BY TailFacts
  <2> QED BY <2>1 DEF Good, LoadLast
<1>2. Tail(out) = <<>>
  <2>1. Tail(out) \in Seq(Cmds) /\ Len(Tail(out)) = 0
    BY <1>1, TailFacts
  <2> QED BY <2>1, EmptySeq
<1>3. t \in Seq(Replies) /\ Len(t) = 1 /\ DOMAIN t = {1} /\ t[1] = r /\ r.cmd = "LP" /\ r.arg = h
  <2>1. h \in Int /\ "LP" \in Commands
    BY DEF Handles, None, Commands
  <2>2. t \in Seq(Replies)
    BY <2>1, ReplyType
  <2> QED BY <2>2 DEF Reply
<1> HIDE DEF r, t
<1>4. /\ Len(in) \in Nat
      /\ Len(in) + 1 \in DOMAIN u /\ u[Len(in) + 1] = r
      /\ \A k \in DOMAIN u : (k \in DOMAIN in /\ u[k] = in[k]) \/ k = Len(in) + 1
  <2>1. \A k \in DOMAIN u : \/ k \in DOMAIN in /\ u[k] = in[k]
                            \/ k > Len(in) /\ k - Len(in) \in DOMAIN t
    BY <1>3, ConcatFacts
  <2>2. Len(in) \in Nat /\ Len(in) + 1 \in DOMAIN u /\ u[Len(in) + 1] = t[1]
    BY <1>3, ConcatFacts
  <2>3. \A k \in DOMAIN u : k \in Nat
    BY <1>3, ConcatFacts, LenProperties
  <2> QED BY <1>3, <2>1, <2>2, <2>3
<1> HIDE DEF u
<1>5. \A k \in DOMAIN u : u[k].cmd = "LP" => k = Len(in) + 1
  BY <1>1, <1>4
<1>6. LoadLast(ld, <<>>, u)
  BY <1>1, <1>5 DEF LoadLast
<1>7. \A g : Announces(u, g) <=> g = h
  BY <1>3, <1>4, <1>5 DEF Announces
<1>8. \A g : ~Unloads(<<>>, g) /\ ~Unloads(out, g)
  <2>1. \A k \in DOMAIN out : k = 1
    BY <1>1, LenProperties
  <2> QED BY <1>1, <2>1, TailFacts DEF Unloads
<1>9. \A g : ~Announces(in, g)
  BY <1>1 DEF Announces
<1>10. Good(D, ld, <<>>, u, live \cup ({h} \ {None}), ch)
  BY <1>0, <1>6, <1>7, <1>8, <1>9 DEF Good
<1> QED BY <1>2, <1>10 DEF u, t, r

(* A reply that answers no load is taken from the stream.                        *)
LEMMA GoodTakes ==
  ASSUME NEW D, NEW ld, NEW out, NEW in \in Seq(Replies), NEW live, NEW ch,
         Good(D, ld, out, in, live, ch), in # <<>>, Head(in).cmd # "LP"
  PROVE  Good(D, ld, out, Tail(in), live, ch)
<1> DEFINE u == Tail(in)
<1>1. /\ \A k \in DOMAIN u : k + 1 \in DOMAIN in /\ u[k] = in[k + 1]
      /\ \A k \in DOMAIN in : k # 1 => k - 1 \in DOMAIN u /\ u[k - 1] = in[k]
      /\ Head(in) = in[1] /\ 1 \in DOMAIN in
      /\ \A k \in DOMAIN u : k \in Nat
  BY TailFacts, LenProperties
<1> HIDE DEF u
<1>2. \A h : Announces(u, h) <=> Announces(in, h)
  BY <1>1 DEF Announces
<1>3. LoadLast(ld, out, u)
  <2>1. ASSUME NEW k \in DOMAIN out, out[k].cmd = "LP"
        PROVE  k = Len(out) /\ ld # NoButton /\ \A j \in DOMAIN u : u[j].cmd # "LP"
    BY <1>1, <2>1 DEF Good, LoadLast
  <2>2. ASSUME NEW k \in DOMAIN u, u[k].cmd = "LP"
        PROVE  out = <<>> /\ ld # NoButton /\ \A j \in DOMAIN u : u[j].cmd = "LP" => j = k
    <3>1. /\ k + 1 \in DOMAIN in /\ in[k + 1].cmd = "LP"
          /\ \A j \in DOMAIN u : u[j].cmd = "LP" => j + 1 \in DOMAIN in /\ in[j + 1].cmd = "LP"
      BY <1>1, <2>2
    <3>2. out = <<>> /\ ld # NoButton /\ \A j \in DOMAIN in : in[j].cmd = "LP" => j = k + 1
      BY <3>1 DEF Good, LoadLast
    <3> QED BY <1>1, <3>1, <3>2
  <2> QED BY <2>1, <2>2 DEF LoadLast
<1>4. Good(D, ld, out, u, live, ch)
  BY <1>2, <1>3 DEF Good
<1> QED BY <1>4 DEF u

(* A client that loads nothing acts on one of its decks, which keeps its handle, *)
(* or gives it up with the unload of it.                                         *)
LEMMA GoodActs ==
  ASSUME NEW D \in [Buttons -> Decks], NEW out \in Seq(Cmds), NEW in, NEW live, NEW ch,
         Good(D, NoButton, out, in, live, ch),
         NEW b \in Buttons, Client(b) = ch, NEW d, DeckSane(d), NEW t \in Seq(Cmds),
         \A k \in DOMAIN t : t[k].cmd # "LP",
         \/ d.handle = D[b].handle /\ \A k \in DOMAIN t : t[k].cmd # "UP"
         \/ /\ d.handle = None
            /\ D[b].handle # None => \E k \in DOMAIN t : t[k].cmd = "UP" /\ t[k].arg = D[b].handle
            /\ \A k \in DOMAIN t : t[k].cmd = "UP" => t[k].arg = D[b].handle
  PROVE  Good([D EXCEPT ![b] = d], NoButton, out \o t, in, live, ch)
<1> DEFINE E == [D EXCEPT ![b] = d]
           u == out \o t
<1>0. None \notin Handles
  BY Sizes
<1>1. /\ \A k \in DOMAIN out : k \in DOMAIN u /\ u[k] = out[k]
      /\ \A k \in DOMAIN t : Len(out) + k \in DOMAIN u /\ u[Len(out) + k] = t[k]
      /\ \A k \in DOMAIN u : \/ k \in DOMAIN out /\ u[k] = out[k]
                             \/ k - Len(out) \in DOMAIN t /\ u[k] = t[k - Len(out)]
  BY ConcatFacts
<1>2. E[b] = d /\ \A c \in Buttons : c # b => E[c] = D[c]
  OBVIOUS
<1> HIDE DEF E, u
<1>3. /\ \A k \in DOMAIN out : out[k].cmd # "LP"
      /\ \A k \in DOMAIN in : in[k].cmd # "LP"
  BY DEF Good, LoadLast
<1>4. LoadLast(NoButton, u, in) /\ \A h : ~Announces(in, h)
  BY <1>1, <1>3 DEF LoadLast, Announces
<1>5. \A h : Unloads(u, h) <=> Unloads(out, h) \/ Unloads(t, h)
  <2>1. ASSUME NEW h, Unloads(u, h) PROVE Unloads(out, h) \/ Unloads(t, h)
    BY <1>1, <2>1 DEF Unloads
  <2>2. ASSUME NEW h, Unloads(out, h) PROVE Unloads(u, h)
    BY <1>1, <2>2 DEF Unloads
  <2>3. ASSUME NEW h, Unloads(t, h) PROVE Unloads(u, h)
    BY <1>1, <2>3 DEF Unloads
  <2> QED BY <2>1, <2>2, <2>3
<1>6. /\ \A c \in Buttons : Client(c) = ch => DeckSane(D[c])
      /\ \A h \in live : Holds(D, ch, h) \/ Unloads(out, h)
      /\ \A h \in Handles : Holds(D, ch, h) => h \in live /\ ~Unloads(out, h)
      /\ \A c, e \in Buttons : Client(c) = ch /\ Client(e) = ch /\ D[c].handle = D[e].handle =>
           c = e \/ D[c].handle = None
  BY <1>4 DEF Good
<1>7. \A c \in Buttons : Client(c) = ch => DeckSane(E[c])
  BY <1>2, <1>6
<1>8. CASE d.handle = D[b].handle /\ \A k \in DOMAIN t : t[k].cmd # "UP"
  <2>1. \A c \in Buttons : E[c].handle = D[c].handle
    BY <1>2, <1>8
  <2>2. \A h : (Holds(E, ch, h) <=> Holds(D, ch, h)) /\ (Unloads(u, h) <=> Unloads(out, h))
    BY <1>5, <1>8, <2>1 DEF Holds, Unloads
  <2>3. Good(E, NoButton, u, in, live, ch)
    BY <1>4, <1>6, <1>7, <2>1, <2>2 DEF Good
  <2> QED BY <2>3 DEF E, u
<1>9. CASE /\ d.handle = None
           /\ D[b].handle # None => \E k \in DOMAIN t : t[k].cmd = "UP" /\ t[k].arg = D[b].handle
           /\ \A k \in DOMAIN t : t[k].cmd = "UP" => t[k].arg = D[b].handle
  <2>1. \A h \in Handles : Holds(E, ch, h) => Holds(D, ch, h) /\ h # D[b].handle
    <3> SUFFICES ASSUME NEW h \in Handles, NEW c \in Buttons, Client(c) = ch, E[c].handle = h
                 PROVE  Holds(D, ch, h) /\ h # D[b].handle
      BY DEF Holds
    <3>1. c # b
      BY <1>0, <1>2, <1>9
    <3>2. D[c].handle = h
      BY <1>2, <3>1
    <3> QED BY <1>0, <1>6, <3>1, <3>2 DEF Holds
  <2>2. \A h : Holds(D, ch, h) => Holds(E, ch, h) \/ h = D[b].handle
    BY <1>2 DEF Holds
  <2>3. \A h : Unloads(t, h) => h = D[b].handle
    BY <1>9 DEF Unloads
  <2>4. D[b].handle # None => Unloads(t, D[b].handle)
    BY <1>9 DEF Unloads
  <2>5. \A h \in live : Holds(E, ch, h) \/ Unloads(u, h)
    <3> SUFFICES ASSUME NEW h \in live, ~Unloads(out, h), h = D[b].handle, ~Holds(E, ch, h) PROVE Unloads(u, h)
      BY <1>5, <1>6, <2>2
    <3>1. h # None
      <4>1. Holds(E, ch, None)
        BY <1>2, <1>9 DEF Holds
      <4> QED BY <4>1
    <3> QED BY <1>5, <2>4, <3>1
  <2>6. \A h \in Handles : Holds(E, ch, h) => h \in live /\ ~Unloads(u, h)
    BY <1>5, <1>6, <2>1, <2>3
  <2>7. \A c, e \in Buttons : Client(c) = ch /\ Client(e) = ch /\ E[c].handle = E[e].handle =>
          c = e \/ E[c].handle = None
    BY <1>2, <1>6, <1>9
  <2>8. Good(E, NoButton, u, in, live, ch)
    BY <1>4, <1>7, <2>5, <2>6, <2>7 DEF Good
  <2> QED BY <2>8 DEF E, u
<1> QED BY <1>8, <1>9

(* A button starts to load.                                                      *)
LEMMA GoodStarts ==
  ASSUME NEW D \in [Buttons -> Decks], NEW out \in Seq(Cmds), NEW in, NEW live, NEW ch,
         Good(D, NoButton, out, in, live, ch),
         NEW b \in Buttons, Client(b) = ch, D[b].state = "none", NEW c \in Cmds, c.cmd = "LP"
  PROVE  Good([D EXCEPT ![b] = NewDeck], b, out \o <<c>>, in, live, ch)
<1> DEFINE E == [D EXCEPT ![b] = NewDeck]
           t == <<c>>
           u == out \o t
<1>1. t \in Seq(Cmds) /\ Len(t) = 1 /\ t[1] = c /\ DOMAIN t = {1}
  OBVIOUS
<1> HIDE DEF t
<1>2. /\ Len(u) = Len(out) + 1 /\ Len(out) \in Nat
      /\ \A k \in DOMAIN out : k \in DOMAIN u /\ u[k] = out[k]
      /\ \A k \in DOMAIN u : \/ k \in DOMAIN out /\ u[k] = out[k]
                             \/ k = Len(out) + 1 /\ u[k] = c
  <2>1. /\ u \in Seq(Cmds) /\ Len(u) = Len(out) + 1 /\ Len(out) \in Nat
        /\ \A k \in DOMAIN out : k \in DOMAIN u /\ u[k] = out[k]
        /\ \A k \in DOMAIN u : \/ k \in DOMAIN out /\ u[k] = out[k]
                               \/ k - Len(out) \in DOMAIN t /\ u[k] = t[k - Len(out)]
    <3>0. t \in Seq(Cmds)
      BY <1>1
    <3>1. /\ u \in Seq(Cmds) /\ Len(u) = Len(out) + Len(t) /\ Len(out) \in Nat
          /\ \A k \in DOMAIN out : k \in DOMAIN u /\ u[k] = out[k]
      BY <3>0, ConcatFacts
    <3>2. \A k \in DOMAIN u : \/ k \in DOMAIN out /\ u[k] = out[k]
                              \/ k - Len(out) \in DOMAIN t /\ u[k] = t[k - Len(out)]
      BY <3>0, ConcatFacts
    <3> QED BY <1>1, <3>1, <3>2
  <2>2. \A k \in DOMAIN u : k \in Nat
    BY <2>1, LenProperties
  <2> QED BY <1>1, <2>1, <2>2
<1>3. E[b] = NewDeck /\ \A e \in Buttons : e # b => E[e] = D[e]
  OBVIOUS
<1>4. NewDeck.handle = None /\ NewDeck.state = "Stopped" /\ DeckSane(NewDeck) /\ D[b].handle = None
  BY DEF NewDeck, NoDeck, DeckSane, Good
<1> HIDE DEF E, u
<1>5. \A e \in Buttons : E[e].handle = D[e].handle
  BY <1>3, <1>4
<1>6. b # NoButton
  <2>1. b[1] \in Conns /\ None \notin Conns
    BY Sizes DEF Buttons
  <2> QED BY <2>1 DEF NoButton
<1>7. /\ \A k \in DOMAIN out : out[k].cmd # "LP"
      /\ \A k \in DOMAIN in : in[k].cmd # "LP"
  BY DEF Good, LoadLast
<1>8. LoadLast(b, u, in)
  BY <1>2, <1>6, <1>7 DEF LoadLast
<1>9. \A h : (Holds(E, ch, h) <=> Holds(D, ch, h)) /\ (Unloads(u, h) <=> Unloads(out, h))
  <2>1. \A h : Holds(E, ch, h) <=> Holds(D, ch, h)
    BY <1>5 DEF Holds
  <2>2. \A k \in DOMAIN u : u[k].cmd = "UP" => k \in DOMAIN out /\ u[k] = out[k]
    BY <1>2
  <2>3. \A h : Unloads(u, h) <=> Unloads(out, h)
    BY <1>2, <2>2 DEF Unloads
  <2> QED BY <2>1, <2>3
<1>10. \A e \in Buttons : Client(e) = ch => DeckSane(E[e])
  BY <1>3, <1>4 DEF Good
<1>11. Good(E, b, u, in, live, ch)
  BY <1>3, <1>5, <1>8, <1>9, <1>10 DEF Good
<1> QED BY <1>11 DEF E, u, t

(* The answer to a load reaches the deck that waits for it.                      *)
LEMMA GoodLoaded ==
  ASSUME NEW D \in [Buttons -> Decks], NEW ld \in Buttons, NEW out \in Seq(Cmds), NEW in \in Seq(Replies),
         NEW live \in SUBSET Handles, NEW ch,
         Good(D, ld, out, in, live, ch), Client(ld) = ch, in # <<>>, Head(in).cmd = "LP",
         NEW h \in Handles \cup {None}, h = Head(in).arg, NEW d, d.handle = h, DeckSane(d),
         NEW t \in Seq(Cmds), \A k \in DOMAIN t : t[k].cmd \notin {"LP", "UP"}
  PROVE  Good([D EXCEPT ![ld] = d], NoButton, out \o t, Tail(in), live, ch)
<1> DEFINE E == [D EXCEPT ![ld] = d]
           u == out \o t
           v == Tail(in)
<1>0. None \notin Handles
  BY Sizes
<1>1. /\ \A k \in DOMAIN v : k + 1 \in DOMAIN in /\ v[k] = in[k + 1] /\ k \in Nat /\ k # 0
      /\ 1 \in DOMAIN in /\ Head(in) = in[1]
  <2>1. v \in Seq(Replies)
    BY TailFacts
  <2> QED BY <2>1, TailFacts, LenProperties
<1>2. out = <<>> /\ \A j \in DOMAIN in : in[j].cmd = "LP" => j = 1
  BY <1>1 DEF Good, LoadLast
<1>3. \A k \in DOMAIN v : v[k].cmd # "LP"
  BY <1>1, <1>2
<1>4. \A k \in DOMAIN u : \E j \in DOMAIN t : u[k] = t[j]
  <2>1. u = t
    BY <1>2, ConcatEmptySeq
  <2> QED BY <2>1, Zenon
<1>5. E[ld] = d /\ \A e \in Buttons : e # ld => E[e] = D[e]
  OBVIOUS
<1> HIDE DEF E, u, v
<1>6. LoadLast(NoButton, u, v)
  BY <1>3, <1>4 DEF LoadLast
<1>7. \A g : ~Announces(v, g) /\ ~Unloads(u, g) /\ ~Unloads(out, g)
  <2>1. \A g : ~Unloads(out, g)
    BY <1>2 DEF Unloads
  <2> QED BY <1>3, <1>4, <2>1 DEF Announces, Unloads
<1>8. \A g : Announces(in, g) <=> g = h
  BY <1>1, <1>2 DEF Announces
<1>9. D[ld].handle = None
  <2>1. D[ld] = NewDeck
    <3>1. ld # NoButton
      <4>1. ld[1] \in Conns /\ None \notin Conns
        BY Sizes DEF Buttons
      <4> QED BY <4>1 DEF NoButton
    <3> QED BY <3>1 DEF Good
  <2> QED BY <2>1 DEF NewDeck, NoDeck
<1>10. \A g \in Handles : Holds(E, ch, g) <=> Holds(D, ch, g) \/ g = h
  <2>1. ASSUME NEW g \in Handles, Holds(E, ch, g) PROVE Holds(D, ch, g) \/ g = h
    BY <1>5, <2>1 DEF Holds
  <2>2. ASSUME NEW g \in Handles, Holds(D, ch, g) PROVE Holds(E, ch, g)
    BY <1>0, <1>5, <1>9, <2>2 DEF Holds
  <2>3. Holds(E, ch, h)
    BY <1>5 DEF Holds
  <2> QED BY <2>1, <2>2, <2>3
<1>11. h # None => h \in live /\ ~Holds(D, ch, h)
  BY <1>8 DEF Good
<1>12. \A c, e \in Buttons : Client(c) = ch /\ Client(e) = ch /\ E[c].handle = E[e].handle =>
         c = e \/ E[c].handle = None
  <2>1. \A e \in Buttons : Client(e) = ch /\ e # ld /\ E[e].handle = h => h = None
    BY <1>5, <1>11 DEF Holds
  <2> QED BY <1>5, <2>1 DEF Good
<1>13. \A g \in live : Holds(E, ch, g)
  BY <1>7, <1>8, <1>10 DEF Good
<1>14. \A g \in Handles : Holds(E, ch, g) => g \in live
  <2>1. \A g \in Handles : Holds(D, ch, g) => g \in live
    BY DEF Good
  <2> QED BY <1>0, <1>10, <1>11, <2>1
<1>15. \A e \in Buttons : Client(e) = ch => DeckSane(E[e])
  BY <1>5 DEF Good
<1>16. Good(E, NoButton, u, v, live, ch)
  BY <1>6, <1>7, <1>12, <1>13, <1>14, <1>15 DEF Good
<1> QED BY <1>16 DEF E, u, v

--------------------------------------------------------------------------------
(* The steps of the composed system.                                             *)

PanelInv == TypeInv /\ TableInv /\ TypesInv /\ StreamInv

LEMMA GoodSame ==
  ASSUME NEW D, NEW E, NEW ld, NEW out, NEW in, NEW live, NEW ch, Good(D, ld, out, in, live, ch),
         \A b \in Buttons : Client(b) = ch => E[b] = D[b],
         ld # NoButton => ld \in Buttons /\ Client(ld) = ch
  PROVE  Good(E, ld, out, in, live, ch)
<1>1. \A h : Holds(E, ch, h) <=> Holds(D, ch, h)
  BY DEF Holds
<1> QED BY <1>1 DEF Good

(* What the commands a deck sends are about.                                     *)
Batch(t, h) == t \in Seq(Cmds) /\ \A k \in DOMAIN t : t[k].cmd \in {"UP", "PP", "PY", "SP"} /\ t[k].arg = h
NoUnload(t) == \A k \in DOMAIN t : t[k].cmd # "UP"
HasUnload(t) == \E k \in DOMAIN t : t[k].cmd = "UP"

LEMMA DeckCommands ==
  ASSUME NEW d \in Decks
  PROVE  /\ Batch(<<>>, d.handle) /\ NoUnload(<<>>)
         /\ Batch(<<Cmd("SP", d.handle)>>, d.handle) /\ NoUnload(<<Cmd("SP", d.handle)>>)
         /\ Batch(PlayCmds(d), d.handle) /\ NoUnload(PlayCmds(d))
         /\ Batch(StopCmds(d), d.handle) /\ NoUnload(StopCmds(d))
         /\ Batch(DeleteCmds(d), d.handle) /\ (d.state # "Stopped" => HasUnload(DeleteCmds(d)))
         /\ Batch(<<Cmd("UP", d.handle)>>, d.handle) /\ HasUnload(<<Cmd("UP", d.handle)>>)
<1>1. d.handle \in Int /\ {"UP", "PP", "PY", "SP"} \subseteq Commands
  BY DEF Decks, Handles, None, Commands
<1>2. ASSUME NEW c \in {"UP", "PP", "PY", "SP"}
      PROVE  /\ Cmd(c, d.handle) \in Cmds /\ Cmd(c, d.handle).cmd = c /\ Cmd(c, d.handle).arg = d.handle
             /\ Batch(<<Cmd(c, d.handle)>>, d.handle)
  <2>1. Cmd(c, d.handle) \in Cmds /\ Cmd(c, d.handle).cmd = c /\ Cmd(c, d.handle).arg = d.handle
    BY <1>1 DEF Cmd, Cmds
  <2> QED BY <2>1 DEF Batch
<1>3. ASSUME NEW c \in {"UP", "PP", "PY", "SP"}, NEW e \in {"UP", "PP", "PY", "SP"}
      PROVE  /\ Batch(<<Cmd(c, d.handle), Cmd(e, d.handle)>>, d.handle)
  <2>1. <<Cmd(c, d.handle), Cmd(e, d.handle)>> \in Seq(Cmds)
    BY <1>2
  <2> QED BY <1>2, <2>1 DEF Batch
<1>4. Batch(<<>>, d.handle) /\ NoUnload(<<>>)
  BY DEF Batch, NoUnload
<1>5. NoUnload(<<Cmd("SP", d.handle)>>) /\ NoUnload(<<Cmd("PP", d.handle), Cmd("PY", d.handle)>>)
  BY DEF NoUnload, Cmd
<1>6. HasUnload(<<Cmd("UP", d.handle)>>) /\ HasUnload(<<Cmd("SP", d.handle), Cmd("UP", d.handle)>>)
  <2>1. 1 \in DOMAIN <<Cmd("UP", d.handle)>> /\ 2 \in DOMAIN <<Cmd("SP", d.handle), Cmd("UP", d.handle)>>
    OBVIOUS
  <2>2. <<Cmd("UP", d.handle)>>[1].cmd = "UP" /\ <<Cmd("SP", d.handle), Cmd("UP", d.handle)>>[2].cmd = "UP"
    BY DEF Cmd
  <2> QED BY <2>1, <2>2 DEF HasUnload
<1> QED BY <1>2, <1>3, <1>4, <1>5, <1>6 DEF PlayCmds, StopCmds, DeleteCmds

LEMMA BatchJoined ==
  ASSUME NEW h, NEW s, NEW t, Batch(s, h), HasUnload(s), Batch(t, h)
  PROVE  Batch(s \o t, h) /\ HasUnload(s \o t)
<1> DEFINE u == s \o t
<1>1. /\ u \in Seq(Cmds)
      /\ \A k \in DOMAIN s : k \in DOMAIN u /\ u[k] = s[k]
      /\ \A k \in DOMAIN u : \/ k \in DOMAIN s /\ u[k] = s[k]
                             \/ k - Len(s) \in DOMAIN t /\ u[k] = t[k - Len(s)]
  BY ConcatFacts DEF Batch
<1> HIDE DEF u
<1>2. Batch(u, h) /\ HasUnload(u)
  BY <1>1 DEF Batch, HasUnload
<1> QED BY <1>2 DEF u

(* A client acts on a deck: it keeps its handle and unloads nothing, or gives it *)
(* up with its unload.                                                           *)
Act(b, d, t) == /\ d \in Decks /\ DeckSane(d) /\ Batch(t, deck[b].handle)
                /\ \/ d.handle = deck[b].handle /\ NoUnload(t)
                   \/ d.handle = None /\ (deck[b].handle # None => HasUnload(t))
                /\ deck' = [deck EXCEPT ![b] = d]
                /\ to_caed' = [to_caed EXCEPT ![Client(b)] = to_caed[Client(b)] \o t]
Acts(b) == \E d, t : Act(b, d, t)

LEMMA NoDeckType == NoDeck \in Decks /\ NewDeck \in Decks /\ DeckSane(NoDeck) /\ NoDeck.handle = None
BY DEF NoDeck, NewDeck, Decks, DeckStates, DeckSane

LEMMA DeckActs ==
  ASSUME PanelTypeOK, NEW b \in Buttons, DeckSane(deck[b]),
         \/ PlayButton(b) \/ PauseButton(b) \/ StopTimer(b) \/ playStoppedData(b)
         \/ \E fade \in BOOLEAN : StopButton(b, fade)
  PROVE  Acts(b)
<1> DEFINE x == deck[b]
           ch == Client(b)
<1>0. x \in Decks /\ ch \in Conns /\ to_caed \in [Conns -> Seq(Cmds)]
  BY DEF PanelTypeOK, Buttons, Client, Cmds
<1>00. to_caed[ch] \o <<>> = to_caed[ch] /\ to_caed = [to_caed EXCEPT ![ch] = to_caed[ch]]
  <2>1. to_caed[ch] \in Seq(Cmds)
    BY <1>0
  <2>2. to_caed[ch] \o <<>> = to_caed[ch]
    BY <2>1, ConcatEmptySeq
  <2> QED BY <1>0, <2>2
<1> HIDE DEF x, ch
<1>01. x = deck[b] /\ ch = Client(b)
  BY DEF x, ch
<1>1. ASSUME NEW d, NEW t, d \in Decks, DeckSane(d), Batch(t, x.handle),
             \/ d.handle = x.handle /\ NoUnload(t)
             \/ d.handle = None /\ (x.handle # None => HasUnload(t)),
             deck' = [deck EXCEPT ![b] = d], Send(ch, t) \/ (t = <<>> /\ to_caed' = to_caed)
      PROVE  Acts(b)
  <2>1. to_caed' = [to_caed EXCEPT ![ch] = to_caed[ch] \o t]
    BY <1>1, <1>00 DEF Send
  <2>2. Act(b, d, t)
    BY <1>1, <2>1, <1>01 DEF Act
  <2> QED BY <2>2 DEF Acts
<1>2. CASE PlayButton(b)
  <2>1. Played(x) \in Decks /\ Played(x).handle = x.handle /\ DeckSane(Played(x))
    BY <1>0, <1>01 DEF Played, Decks, DeckStates, DeckSane
  <2>2. deck' = [deck EXCEPT ![b] = Played(x)] /\ Send(ch, PlayCmds(x))
    BY <1>2, <1>01 DEF PlayButton
  <2> QED BY <1>0, <1>1, <2>1, <2>2, DeckCommands
<1>3. CASE PauseButton(b)
  <2> DEFINE d == [x EXCEPT !.pause_called = TRUE, !.state = "Paused"]
  <2>1. d \in Decks /\ d.handle = x.handle /\ DeckSane(d)
    BY <1>0 DEF Decks, DeckStates, DeckSane
  <2>2. deck' = [deck EXCEPT ![b] = d] /\ Send(ch, <<Cmd("SP", x.handle)>>)
    BY <1>3, <1>01 DEF PauseButton
  <2> HIDE DEF d
  <2> QED BY <1>0, <1>1, <2>1, <2>2, DeckCommands
<1>4. ASSUME NEW y \in Decks, y.handle = x.handle, y.state = x.state, y.pause_called = x.pause_called,
             x.state \in {"Playing", "Stopping"}
      PROVE  /\ StoppedBy(y) \in Decks /\ StoppedBy(y).handle = x.handle /\ DeckSane(StoppedBy(y))
             /\ StopCmds(y) = StopCmds(x)
  <2>1. ~y.pause_called
    BY <1>4, <1>01 DEF DeckSane
  <2>2. StoppedBy(y) = [y EXCEPT !.state = "Stopping", !.stop_called = TRUE]
    BY <2>1 DEF StoppedBy
  <2> QED BY <1>4, <2>1, <2>2 DEF Decks, DeckStates, DeckSane, StopCmds
<1>5. CASE StopTimer(b)
  <2> DEFINE y == [x EXCEPT !.stop_timer = FALSE]
  <2>1. y \in Decks /\ y.handle = x.handle /\ y.state = x.state /\ y.pause_called = x.pause_called
    BY <1>0 DEF Decks
  <2>2. \/ /\ x.state \in {"Playing", "Stopping"} /\ deck' = [deck EXCEPT ![b] = StoppedBy(y)]
           /\ Send(ch, StopCmds(y))
        \/ deck' = [deck EXCEPT ![b] = y] /\ to_caed' = to_caed
    BY <1>5, <2>1, <1>01 DEF StopTimer
  <2>3. DeckSane(y)
    BY <2>1, <1>01 DEF DeckSane
  <2> HIDE DEF y
  <2>4. CASE /\ x.state \in {"Playing", "Stopping"} /\ deck' = [deck EXCEPT ![b] = StoppedBy(y)]
             /\ Send(ch, StopCmds(y))
    BY <1>0, <1>1, <1>4, <2>1, <2>4, DeckCommands
  <2>5. CASE deck' = [deck EXCEPT ![b] = y] /\ to_caed' = to_caed
    BY <1>0, <1>1, <2>1, <2>3, <2>5, DeckCommands
  <2> QED BY <2>2, <2>4, <2>5
<1>6. CASE playStoppedData(b)
  <2>1. CASE x.pause_called
    <3> DEFINE d == [x EXCEPT !.state = "Paused", !.stop_timer = FALSE]
    <3>1. d \in Decks /\ d.handle = x.handle /\ DeckSane(d)
      BY <1>0 DEF Decks, DeckStates, DeckSane
    <3>2. deck' = [deck EXCEPT ![b] = d] /\ Send(ch, <<>>)
      BY <1>6, <2>1, <1>01 DEF playStoppedData, AfterStop, AfterStopCmds
    <3> HIDE DEF d
    <3> QED BY <1>0, <1>1, <3>1, <3>2, DeckCommands
  <2>2. CASE ~x.pause_called
    <3>1. deck' = [deck EXCEPT ![b] = NoDeck] /\ Send(ch, <<Cmd("UP", x.handle)>>)
      BY <1>6, <2>2, <1>01 DEF playStoppedData, AfterStop, AfterStopCmds
    <3> QED BY <1>0, <1>1, <3>1, DeckCommands, NoDeckType
  <2> QED BY <2>1, <2>2
<1>7. ASSUME NEW fade \in BOOLEAN, StopButton(b, fade) PROVE Acts(b)
  <2>1. CASE /\ x.state = "Playing" /\ fade /\ ~x.pause_called
             /\ deck' = [deck EXCEPT ![b].state = "Stopping", ![b].stop_called = TRUE, ![b].stop_timer = TRUE]
             /\ UNCHANGED to_caed
    <3> DEFINE d == [x EXCEPT !.state = "Stopping", !.stop_called = TRUE, !.stop_timer = TRUE]
    <3>1. d \in Decks /\ d.handle = x.handle /\ DeckSane(d)
      BY <1>0, <2>1 DEF Decks, DeckStates, DeckSane
    <3>2. deck' = [deck EXCEPT ![b] = d]
      BY <2>1, <1>01
    <3> HIDE DEF d
    <3> QED BY <1>0, <1>1, <2>1, <3>1, <3>2, DeckCommands
  <2>2. CASE /\ x.state = "Playing" /\ deck' = [deck EXCEPT ![b] = StoppedBy(x)] /\ Send(ch, StopCmds(x))
    BY <1>0, <1>1, <1>4, <2>2, DeckCommands
  <2>3. CASE /\ x.state = "Stopping" /\ Send(ch, StopCmds(x))
             /\ deck' = [deck EXCEPT ![b] = [StoppedBy(x) EXCEPT !.stop_timer = FALSE]]
    <3> DEFINE d == [StoppedBy(x) EXCEPT !.stop_timer = FALSE]
    <3>1. StoppedBy(x) \in Decks /\ StoppedBy(x).handle = x.handle /\ DeckSane(StoppedBy(x))
      BY <1>0, <1>4, <2>3
    <3>2. d \in Decks /\ d.handle = x.handle /\ d.state = StoppedBy(x).state
          /\ d.pause_called = StoppedBy(x).pause_called
      BY <3>1 DEF Decks
    <3>3. DeckSane(d)
      BY <3>1, <3>2 DEF DeckSane
    <3> HIDE DEF d
    <3>4. deck' = [deck EXCEPT ![b] = d]
      BY <2>3 DEF d
    <3> QED BY <1>0, <1>1, <2>3, <3>2, <3>3, <3>4, DeckCommands
  <2>4. CASE /\ deck' = [deck EXCEPT ![b] = NoDeck]
             /\ Send(ch, <<Cmd("UP", x.handle)>> \o DeleteCmds(x))
    <3>1. /\ Batch(<<Cmd("UP", x.handle)>> \o DeleteCmds(x), x.handle)
          /\ HasUnload(<<Cmd("UP", x.handle)>> \o DeleteCmds(x))
      BY <1>0, DeckCommands, BatchJoined
    <3> QED BY <1>1, <2>4, <3>1, NoDeckType
  <2>5. CASE /\ x.state = "Stopped" /\ deck' = [deck EXCEPT ![b] = NoDeck] /\ Send(ch, DeleteCmds(x))
    <3>1. x.handle = None
      BY <2>5, <1>01 DEF DeckSane
    <3> QED BY <1>0, <1>1, <2>5, <3>1, DeckCommands, NoDeckType
  <2> QED BY <1>7, <2>1, <2>2, <2>3, <2>4, <2>5, <1>01 DEF StopButton
<1> QED BY <1>2, <1>3, <1>5, <1>6, <1>7

LEMMA ActsKeep ==
  ASSUME PanelInv, NEW b \in Buttons, Client(b) \in alive, loading[Client(b)] = NoButton, Acts(b)
  PROVE  /\ deck' \in [Buttons -> Decks] /\ to_caed' \in [Conns -> Seq(Cmds)]
         /\ \A c \in Conns : \A k \in DOMAIN to_caed'[c] : Order(to_caed'[c][k])
         /\ Good(deck', NoButton, to_caed'[Client(b)], to_client[Client(b)], LiveOf(Client(b)), Client(b))
         /\ \A c \in alive : c # Client(b) => to_caed'[c] = to_caed[c]
         /\ \A e \in Buttons : Client(e) # Client(b) => deck'[e] = deck[e]
<1> DEFINE ch == Client(b)
<1>0. /\ deck \in [Buttons -> Decks] /\ to_caed \in [Conns -> Seq(Cmds)] /\ ch \in Conns /\ ch \in alive
      /\ loading[ch] = NoButton /\ deck[b].handle \in Handles \cup {None} /\ to_caed[ch] \in Seq(Cmds)
      /\ alive \subseteq Conns
  BY DEF PanelInv, TypesInv, PanelTypeOK, Cmds, Decks
<1>1. PICK d, t : Act(b, d, t)
  BY DEF Acts
<1>2. /\ d \in Decks /\ DeckSane(d) /\ t \in Seq(Cmds) /\ deck' = [deck EXCEPT ![b] = d]
      /\ to_caed' = [to_caed EXCEPT ![ch] = to_caed[ch] \o t]
      /\ \A k \in DOMAIN t : t[k].cmd \in {"UP", "PP", "PY", "SP"} /\ t[k].arg = deck[b].handle
      /\ \/ d.handle = deck[b].handle /\ \A k \in DOMAIN t : t[k].cmd # "UP"
         \/ d.handle = None /\ (deck[b].handle # None => \E k \in DOMAIN t : t[k].cmd = "UP")
  BY <1>1 DEF Act, Batch, NoUnload, HasUnload
<1> HIDE DEF ch
<1> DEFINE u == to_caed[ch] \o t
<1>3. u \in Seq(Cmds) /\ \A k \in DOMAIN u : \/ \E j \in DOMAIN to_caed[ch] : u[k] = to_caed[ch][j]
                                             \/ \E j \in DOMAIN t : u[k] = t[j]
  <2> DEFINE q == to_caed[ch]
  <2>1. q \in Seq(Cmds) /\ t \in Seq(Cmds)
    BY <1>0, <1>2
  <2> HIDE DEF q
  <2>2. q \o t \in Seq(Cmds) /\ \A k \in DOMAIN (q \o t) : \/ \E j \in DOMAIN q : (q \o t)[k] = q[j]
                                                         \/ \E j \in DOMAIN t : (q \o t)[k] = t[j]
    BY <2>1, ConcatFacts
  <2> QED BY <2>2 DEF q
<1>4. to_caed'[ch] = u /\ \A c \in Conns : c # ch => to_caed'[c] = to_caed[c]
  BY <1>0, <1>2
<1>5. Good([deck EXCEPT ![b] = d], NoButton, u, to_client[ch], LiveOf(ch), ch)
  <2>1. Good(deck, NoButton, to_caed[ch], to_client[ch], LiveOf(ch), ch)
    BY <1>0 DEF PanelInv, StreamInv, ClientInv
  <2>2. Client(b) = ch
    BY DEF ch
  <2>3. \A k \in DOMAIN t : t[k].cmd # "LP"
    BY <1>2
  <2>4. \/ d.handle = deck[b].handle /\ \A k \in DOMAIN t : t[k].cmd # "UP"
        \/ /\ d.handle = None
           /\ deck[b].handle # None => \E k \in DOMAIN t : t[k].cmd = "UP" /\ t[k].arg = deck[b].handle
           /\ \A k \in DOMAIN t : t[k].cmd = "UP" => t[k].arg = deck[b].handle
    BY <1>2
  <2> QED BY <1>0, <1>2, <2>1, <2>2, <2>3, <2>4, GoodActs
<1> HIDE DEF u
<1>6. deck' \in [Buttons -> Decks] /\ to_caed' \in [Conns -> Seq(Cmds)]
  <2>1. to_caed' = [to_caed EXCEPT ![ch] = u]
    BY <1>2 DEF u
  <2> QED BY <1>0, <1>2, <1>3, <2>1
<1>7. ASSUME NEW c \in Conns, NEW k \in DOMAIN to_caed'[c] PROVE Order(to_caed'[c][k])
  <2>0. \A j \in DOMAIN to_caed[c] : Order(to_caed[c][j])
    BY DEF PanelInv, TypesInv, Carried
  <2>1. CASE c # ch
    BY <1>4, <1>7, <2>0, <2>1
  <2>2. CASE c = ch
    <3>1. \A j \in DOMAIN t : Order(t[j])
      BY <1>0, <1>2 DEF Order
    <3> QED BY <1>3, <1>4, <1>7, <2>0, <2>2, <3>1
  <2> QED BY <2>1, <2>2
<1>8. Good(deck', NoButton, to_caed'[ch], to_client[ch], LiveOf(ch), ch)
  BY <1>2, <1>4, <1>5
<1>9. \A e \in Buttons : Client(e) # ch => deck'[e] = deck[e]
  BY <1>0, <1>2 DEF ch
<1> QED BY <1>0, <1>4, <1>6, <1>7, <1>8, <1>9 DEF ch

(* A step of a client, of which caed knows nothing yet.                          *)
LEMMA ClientKeeps ==
  ASSUME PanelInv, UNCHANGED <<caedVars, alive>>,
         deck' \in [Buttons -> Decks], to_caed' \in [Conns -> Seq(Cmds)],
         \A c \in Conns : \A k \in DOMAIN to_caed'[c] : Order(to_caed'[c][k]),
         NEW ch \in alive, NEW ld, loading' = [loading EXCEPT ![ch] = ld],
         ld # NoButton => ld \in Buttons /\ Client(ld) = ch,
         NEW in \in Seq(Replies), to_client' = [to_client EXCEPT ![ch] = in],
         NEW late \in Seq(Replies), delayed' = [delayed EXCEPT ![ch] = late],
         \A k \in DOMAIN in : Answer(in[k], ch), \A k \in DOMAIN late : Answer(late[k], ch),
         draining' \in SUBSET Conns,
         Good(deck', ld, to_caed'[ch], in, LiveOf(ch), ch),
         \A c \in alive : c # ch => to_caed'[c] = to_caed[c],
         \A e \in Buttons : Client(e) # ch => deck'[e] = deck[e]
  PROVE  TypesInv' /\ StreamInv'
<1>0. /\ loading \in [Conns -> Buttons \cup {NoButton}] /\ to_client \in [Conns -> Seq(Replies)]
      /\ delayed \in [Conns -> Seq(Replies)] /\ alive \subseteq Conns /\ alive \subseteq socket
  BY DEF PanelInv, TypesInv, PanelTypeOK
<1>1. /\ loading'[ch] = ld /\ to_client'[ch] = in /\ delayed'[ch] = late
      /\ \A c \in Conns : c # ch => /\ loading'[c] = loading[c] /\ to_client'[c] = to_client[c]
                                    /\ delayed'[c] = delayed[c]
  BY <1>0
<1>2. alive' = alive /\ socket' = socket /\ \A c \in Conns : LiveOf(c)' = LiveOf(c)
  BY DEF caedVars, vars, connVars, tableVars, LiveOf, Live
<1>3. PanelTypeOK'
  BY <1>0, <1>2 DEF PanelTypeOK, Cmds
<1>4. Carried'
  BY <1>1 DEF PanelInv, TypesInv, Carried
<1>5. LoadingOwn'
  BY <1>1 DEF PanelInv, TypesInv, LoadingOwn
<1>6. GoneInv'
  <2>1. ASSUME NEW c \in Conns \ alive PROVE Gone(c)'
    <3>1. Gone(c) /\ c # ch
      BY <2>1 DEF PanelInv, StreamInv, GoneInv
    <3> QED BY <1>1, <3>1 DEF Gone
  <2> QED BY <1>2, <2>1 DEF GoneInv
<1>7. ASSUME NEW c \in alive PROVE ClientInv(c)'
  <2>1. CASE c = ch
    BY <1>0, <1>1, <1>2, <2>1 DEF ClientInv
  <2>2. CASE c # ch
    <3>1. Good(deck, loading[c], to_caed[c], to_client[c], LiveOf(c), c)
      BY DEF PanelInv, StreamInv, ClientInv
    <3>2. loading[c] # NoButton => loading[c] \in Buttons /\ Client(loading[c]) = c
      BY <1>0 DEF PanelInv, TypesInv, LoadingOwn
    <3>3. \A e \in Buttons : Client(e) = c => deck'[e] = deck[e]
      BY <2>2
    <3>4. Good(deck', loading[c], to_caed[c], to_client[c], LiveOf(c), c)
      BY <3>1, <3>2, <3>3, GoodSame
    <3> QED BY <1>0, <1>1, <1>2, <2>2, <3>4 DEF ClientInv
  <2> QED BY <2>1, <2>2
<1> QED BY <1>0, <1>2, <1>3, <1>4, <1>5, <1>6, <1>7 DEF TypesInv, StreamInv

LEMMA Unmoved ==
  ASSUME TypesInv, NEW ch \in Conns
  PROVE  /\ loading = [loading EXCEPT ![ch] = loading[ch]]
         /\ to_client = [to_client EXCEPT ![ch] = to_client[ch]]
         /\ delayed = [delayed EXCEPT ![ch] = delayed[ch]]
         /\ to_client[ch] \in Seq(Replies) /\ delayed[ch] \in Seq(Replies) /\ to_caed[ch] \in Seq(Cmds)
         /\ \A k \in DOMAIN to_client[ch] : Answer(to_client[ch][k], ch)
         /\ \A k \in DOMAIN delayed[ch] : Answer(delayed[ch][k], ch)
         /\ draining \in SUBSET Conns
BY DEF TypesInv, PanelTypeOK, Carried, Cmds

LEMMA TailAnswers ==
  ASSUME NEW q \in Seq(Replies), NEW ch, q # <<>>, \A k \in DOMAIN q : Answer(q[k], ch)
  PROVE  /\ Tail(q) \in Seq(Replies) /\ \A k \in DOMAIN Tail(q) : Answer(Tail(q)[k], ch)
         /\ Head(q) \in Replies /\ Answer(Head(q), ch)
BY TailFacts

LEMMA UserSteps ==
  ASSUME PanelInv, NEW b \in Buttons,
         \/ PlayButton(b) \/ PauseButton(b) \/ StopTimer(b)
         \/ \E fade \in BOOLEAN : StopButton(b, fade)
  PROVE  TypesInv' /\ StreamInv'
<1> DEFINE ch == Client(b)
<1>1. /\ ch \in alive /\ loading[ch] = NoButton
      /\ UNCHANGED <<caedVars, alive, loading, delayed, draining, to_client>>
  BY DEF PlayButton, PauseButton, StopTimer, StopButton, User, Idle
<1>2. ch \in Conns /\ DeckSane(deck[b])
  BY <1>1 DEF PanelInv, TypesInv, PanelTypeOK, StreamInv, ClientInv, Good
<1>3. Acts(b)
  BY <1>2, DeckActs DEF PanelInv, TypesInv
<1>4. /\ deck' \in [Buttons -> Decks] /\ to_caed' \in [Conns -> Seq(Cmds)]
      /\ \A c \in Conns : \A k \in DOMAIN to_caed'[c] : Order(to_caed'[c][k])
      /\ Good(deck', NoButton, to_caed'[ch], to_client[ch], LiveOf(ch), ch)
      /\ \A c \in alive : c # ch => to_caed'[c] = to_caed[c]
      /\ \A e \in Buttons : Client(e) # ch => deck'[e] = deck[e]
  BY <1>1, <1>3, ActsKeep
<1> HIDE DEF ch
<1>5. /\ loading' = [loading EXCEPT ![ch] = NoButton]
      /\ to_client' = [to_client EXCEPT ![ch] = to_client[ch]]
      /\ delayed' = [delayed EXCEPT ![ch] = delayed[ch]]
      /\ to_client[ch] \in Seq(Replies) /\ delayed[ch] \in Seq(Replies)
      /\ \A k \in DOMAIN to_client[ch] : Answer(to_client[ch][k], ch)
      /\ \A k \in DOMAIN delayed[ch] : Answer(delayed[ch][k], ch)
      /\ draining' \in SUBSET Conns
  BY <1>1, <1>2, Unmoved DEF PanelInv
<1> QED BY <1>1, <1>4, <1>5, ClientKeeps

LEMMA DispatchSteps ==
  ASSUME PanelInv, NEW ch \in Conns, Drain(ch) \/ readyData(ch)
  PROVE  TypesInv' /\ StreamInv'
<1> DEFINE in == IF Drain(ch) THEN to_client[ch] ELSE Tail(to_client[ch])
           late == IF Drain(ch) THEN Tail(delayed[ch]) ELSE delayed[ch]
           r == IF Drain(ch) THEN Head(delayed[ch]) ELSE Head(to_client[ch])
<1>0. /\ loading = [loading EXCEPT ![ch] = loading[ch]]
      /\ to_client = [to_client EXCEPT ![ch] = to_client[ch]]
      /\ delayed = [delayed EXCEPT ![ch] = delayed[ch]]
      /\ to_client[ch] \in Seq(Replies) /\ delayed[ch] \in Seq(Replies) /\ to_caed[ch] \in Seq(Cmds)
      /\ \A k \in DOMAIN to_client[ch] : Answer(to_client[ch][k], ch)
      /\ \A k \in DOMAIN delayed[ch] : Answer(delayed[ch][k], ch)
      /\ draining \in SUBSET Conns
  BY Unmoved DEF PanelInv
<1>1. /\ ch \in alive /\ loading[ch] = NoButton /\ UNCHANGED <<caedVars, alive, loading>>
      /\ DispatchCommand(r) /\ to_client' = [to_client EXCEPT ![ch] = in]
      /\ delayed' = [delayed EXCEPT ![ch] = late] /\ draining' \in SUBSET Conns
      /\ Drain(ch) => delayed[ch] # <<>>
      /\ ~Drain(ch) => to_client[ch] # <<>>
  BY <1>0 DEF Drain, readyData, Idle
<1>2. /\ in \in Seq(Replies) /\ late \in Seq(Replies) /\ Answer(r, ch)
      /\ \A k \in DOMAIN in : Answer(in[k], ch)
      /\ \A k \in DOMAIN late : Answer(late[k], ch)
  <2>1. CASE Drain(ch)
    <3>1. delayed[ch] # <<>> /\ in = to_client[ch] /\ late = Tail(delayed[ch]) /\ r = Head(delayed[ch])
      BY <1>1, <2>1
    <3> HIDE DEF in, late, r
    <3> QED BY <1>0, <3>1, TailAnswers
  <2>2. CASE ~Drain(ch)
    <3>1. to_client[ch] # <<>> /\ in = Tail(to_client[ch]) /\ late = delayed[ch] /\ r = Head(to_client[ch])
      BY <1>1, <2>2
    <3> HIDE DEF in, late, r
    <3> QED BY <1>0, <3>1, TailAnswers
  <2> QED BY <2>1, <2>2
<1>3. ASSUME NEW D, NEW out, Good(D, NoButton, out, to_client[ch], LiveOf(ch), ch)
      PROVE  Good(D, NoButton, out, in, LiveOf(ch), ch)
  <2>1. CASE Drain(ch)
    BY <1>3, <2>1
  <2>2. CASE ~Drain(ch)
    <3>1. to_client[ch] # <<>> /\ Head(to_client[ch]).cmd # "LP"
      <4>1. to_client[ch] # <<>> /\ 1 \in DOMAIN to_client[ch] /\ Head(to_client[ch]) = to_client[ch][1]
        BY <1>0, <1>1, <2>2, TailFacts
      <4> QED BY <1>3, <4>1 DEF Good, LoadLast
    <3> QED BY <1>0, <1>3, <2>2, <3>1, GoodTakes
  <2> QED BY <2>1, <2>2
<1> HIDE DEF in, late, r
<1>4. loading' = [loading EXCEPT ![ch] = NoButton]
  BY <1>0, <1>1
<1>5. CASE \E b \in Buttons : Stops(b, r) /\ playStoppedData(b)
  <2>1. PICK b \in Buttons : Stops(b, r) /\ playStoppedData(b)
    BY <1>5
  <2>2. Client(b) = ch
    BY <1>2, <2>1 DEF Stops, Answer
  <2>3. DeckSane(deck[b])
    BY <1>1, <2>2 DEF PanelInv, StreamInv, ClientInv, Good
  <2>4. Acts(b)
    BY <2>1, <2>3, DeckActs DEF PanelInv, TypesInv
  <2>5. /\ deck' \in [Buttons -> Decks] /\ to_caed' \in [Conns -> Seq(Cmds)]
        /\ \A c \in Conns : \A k \in DOMAIN to_caed'[c] : Order(to_caed'[c][k])
        /\ Good(deck', NoButton, to_caed'[ch], to_client[ch], LiveOf(ch), ch)
        /\ \A c \in alive : c # ch => to_caed'[c] = to_caed[c]
        /\ \A e \in Buttons : Client(e) # ch => deck'[e] = deck[e]
    BY <1>1, <2>2, <2>4, ActsKeep
  <2>6. Good(deck', NoButton, to_caed'[ch], in, LiveOf(ch), ch)
    BY <1>3, <2>5
  <2> QED BY <1>1, <1>2, <1>4, <2>5, <2>6, ClientKeeps
<1>6. CASE UNCHANGED <<deck, to_caed>>
  <2>1. /\ deck' \in [Buttons -> Decks] /\ to_caed' \in [Conns -> Seq(Cmds)]
        /\ \A c \in Conns : \A k \in DOMAIN to_caed'[c] : Order(to_caed'[c][k])
    BY <1>6 DEF PanelInv, TypesInv, PanelTypeOK, Carried, Cmds
  <2>2. Good(deck', NoButton, to_caed'[ch], in, LiveOf(ch), ch)
    BY <1>1, <1>3, <1>6 DEF PanelInv, StreamInv, ClientInv
  <2>3. /\ \A c \in alive : c # ch => to_caed'[c] = to_caed[c]
        /\ \A e \in Buttons : Client(e) # ch => deck'[e] = deck[e]
    BY <1>6
  <2> QED BY <1>1, <1>2, <1>4, <2>1, <2>2, <2>3, ClientKeeps
<1> QED BY <1>1, <1>5, <1>6 DEF DispatchCommand

LEMMA LoadStarts ==
  ASSUME PanelInv, NEW b \in Buttons, PlayAudio(b)
  PROVE  TypesInv' /\ StreamInv'
<1> DEFINE ch == Client(b)
<1>1. PICK c \in Cards :
        /\ ch \in alive /\ loading[ch] = NoButton /\ deck[b].state = "none"
        /\ deck' = [deck EXCEPT ![b] = NewDeck] /\ loading' = [loading EXCEPT ![ch] = b]
        /\ to_caed' = [to_caed EXCEPT ![ch] = to_caed[ch] \o <<Cmd("LP", c)>>]
        /\ UNCHANGED <<caedVars, alive, delayed, draining, to_client>>
  BY DEF PlayAudio, User, Idle, Send
<1>2. /\ ch \in Conns /\ deck \in [Buttons -> Decks] /\ to_caed \in [Conns -> Seq(Cmds)]
      /\ to_caed[ch] \in Seq(Cmds)
  BY <1>1 DEF PanelInv, TypesInv, PanelTypeOK, Cmds
<1> HIDE DEF ch
<1>3. /\ to_client' = [to_client EXCEPT ![ch] = to_client[ch]]
      /\ delayed' = [delayed EXCEPT ![ch] = delayed[ch]]
      /\ to_client[ch] \in Seq(Replies) /\ delayed[ch] \in Seq(Replies)
      /\ \A k \in DOMAIN to_client[ch] : Answer(to_client[ch][k], ch)
      /\ \A k \in DOMAIN delayed[ch] : Answer(delayed[ch][k], ch)
      /\ draining' \in SUBSET Conns
  BY <1>1, <1>2, Unmoved DEF PanelInv
<1> DEFINE m == Cmd("LP", c)
           u == to_caed[ch] \o <<m>>
<1>4. m \in Cmds /\ m.cmd = "LP" /\ Order(m)
  <2>1. c \in Int
    BY DEF Cards
  <2> QED BY <2>1 DEF Cmd, Cmds, Commands, Order
<1>5. Client(b) = ch
  BY DEF ch
<1>6. to_caed' = [to_caed EXCEPT ![ch] = u]
  BY <1>1
<1> HIDE DEF m
<1>7. Good([deck EXCEPT ![b] = NewDeck], b, u, to_client[ch], LiveOf(ch), ch)
  <2>1. Good(deck, NoButton, to_caed[ch], to_client[ch], LiveOf(ch), ch)
    BY <1>1 DEF PanelInv, StreamInv, ClientInv
  <2> QED BY <1>1, <1>2, <1>4, <1>5, <2>1, GoodStarts
<1>8. u \in Seq(Cmds) /\ \A k \in DOMAIN u : Order(u[k])
  <2> DEFINE q == to_caed[ch]
             t == <<m>>
  <2>1. q \in Seq(Cmds) /\ t \in Seq(Cmds) /\ \A k \in DOMAIN t : Order(t[k])
    BY <1>2, <1>4
  <2>2. \A k \in DOMAIN q : Order(q[k])
    BY <1>2 DEF PanelInv, TypesInv, Carried
  <2> HIDE DEF q, t
  <2>3. q \o t \in Seq(Cmds) /\ \A k \in DOMAIN (q \o t) : Order((q \o t)[k])
    BY <2>1, <2>2, ConcatFacts
  <2> QED BY <2>3 DEF q, t
<1> HIDE DEF u
<1>9. /\ deck' \in [Buttons -> Decks] /\ to_caed' \in [Conns -> Seq(Cmds)]
      /\ \A e \in Buttons : Client(e) # ch => deck'[e] = deck[e]
      /\ to_caed'[ch] = u /\ \A d \in Conns : d # ch => to_caed'[d] = to_caed[d]
  BY <1>1, <1>2, <1>5, <1>6, <1>8, NoDeckType
<1>10. \A d \in Conns : \A k \in DOMAIN to_caed'[d] : Order(to_caed'[d][k])
  BY <1>8, <1>9 DEF PanelInv, TypesInv, Carried
<1>11. Good(deck', b, to_caed'[ch], to_client[ch], LiveOf(ch), ch) /\ alive \subseteq Conns
  BY <1>1, <1>7, <1>9 DEF PanelInv, TypesInv, PanelTypeOK
<1> QED BY <1>1, <1>3, <1>5, <1>9, <1>10, <1>11, ClientKeeps

LEMMA LoadEnds ==
  ASSUME PanelInv, NEW ch \in Conns, PlayAudioLoaded(ch)
  PROVE  TypesInv' /\ StreamInv'
<1> DEFINE ld == loading[ch]
           in == to_client[ch]
           h == Head(in).arg
           d == [deck[ld] EXCEPT !.handle = h]
           t == PlayCmds(d)
           q == to_caed[ch]
<1>1. /\ ch \in alive /\ ld # NoButton /\ in # <<>> /\ Head(in).cmd = "LP"
      /\ deck' = [deck EXCEPT ![ld] = Played(d)] /\ to_caed' = [to_caed EXCEPT ![ch] = q \o t]
      /\ loading' = [loading EXCEPT ![ch] = NoButton] /\ to_client' = [to_client EXCEPT ![ch] = Tail(in)]
      /\ UNCHANGED <<caedVars, alive, delayed, draining>>
  BY DEF PlayAudioLoaded, Send
<1>2. /\ deck \in [Buttons -> Decks] /\ to_caed \in [Conns -> Seq(Cmds)] /\ q \in Seq(Cmds)
      /\ ld \in Buttons /\ Client(ld) = ch
      /\ in \in Seq(Replies) /\ \A k \in DOMAIN in : Answer(in[k], ch)
      /\ delayed' = [delayed EXCEPT ![ch] = delayed[ch]] /\ delayed[ch] \in Seq(Replies)
      /\ \A k \in DOMAIN delayed[ch] : Answer(delayed[ch][k], ch)
      /\ draining' \in SUBSET Conns /\ \A k \in DOMAIN q : Order(q[k])
  BY <1>1, Unmoved DEF PanelInv, TypesInv, PanelTypeOK, Carried, LoadingOwn, Cmds
<1>3. Good(deck, ld, q, in, LiveOf(ch), ch) /\ LiveOf(ch) \in SUBSET Handles
  BY <1>1 DEF PanelInv, StreamInv, ClientInv, LiveOf
<1>4. deck[ld] = NewDeck
  BY <1>1, <1>3 DEF Good
<1> HIDE DEF ld, in, q
<1>5. h \in Handles \cup {None} /\ Tail(in) \in Seq(Replies) /\ \A k \in DOMAIN Tail(in) : Answer(Tail(in)[k], ch)
  BY <1>1, <1>2, TailAnswers DEF Answer
<1> HIDE DEF h
<1>6. /\ d \in Decks /\ d.handle = h /\ d.state = "Stopped" /\ d.pause_called = FALSE
  BY <1>4, <1>5, NoDeckType DEF Decks, NewDeck, NoDeck
<1> HIDE DEF d
<1>7. /\ Played(d) \in Decks /\ Played(d).handle = h /\ DeckSane(Played(d))
  <2>1. CASE h = None
    BY <1>6, <2>1 DEF Played, DeckSane
  <2>2. CASE h # None
    BY <1>6, <2>2 DEF Played, DeckSane, Decks, DeckStates
  <2> QED BY <2>1, <2>2
<1>8. t \in Seq(Cmds) /\ \A k \in DOMAIN t : t[k].cmd \in {"PP", "PY", "SP"} /\ t[k].arg = h
  <2>1. Batch(t, d.handle) /\ NoUnload(t)
    BY <1>6, DeckCommands
  <2> QED BY <1>6, <2>1 DEF Batch, NoUnload
<1> HIDE DEF t
<1>9. Good([deck EXCEPT ![ld] = Played(d)], NoButton, q \o t, Tail(in), LiveOf(ch), ch)
  <2>1. \A k \in DOMAIN t : t[k].cmd \notin {"LP", "UP"}
    BY <1>8
  <2>2. h = Head(in).arg
    BY DEF h
  <2> QED BY <1>1, <1>2, <1>3, <1>5, <1>7, <1>8, <2>1, <2>2, GoodLoaded
<1>10. q \o t \in Seq(Cmds) /\ \A k \in DOMAIN (q \o t) : Order((q \o t)[k])
  <2>1. \A k \in DOMAIN t : Order(t[k])
    BY <1>5, <1>8 DEF Order
  <2> QED BY <1>2, <1>8, <2>1, ConcatFacts
<1> DEFINE u == q \o t
<1> HIDE DEF u
<1>11. to_caed' = [to_caed EXCEPT ![ch] = u] /\ u \in Seq(Cmds) /\ \A k \in DOMAIN u : Order(u[k])
  BY <1>1, <1>10 DEF u
<1>12. /\ deck' \in [Buttons -> Decks] /\ to_caed' \in [Conns -> Seq(Cmds)]
       /\ \A e \in Buttons : Client(e) # ch => deck'[e] = deck[e]
       /\ to_caed'[ch] = u /\ \A e \in Conns : e # ch => to_caed'[e] = to_caed[e]
  BY <1>1, <1>2, <1>7, <1>11
<1>13. \A e \in Conns : \A k \in DOMAIN to_caed'[e] : Order(to_caed'[e][k])
  BY <1>11, <1>12 DEF PanelInv, TypesInv, Carried
<1>14. Good(deck', NoButton, to_caed'[ch], Tail(in), LiveOf(ch), ch) /\ alive \subseteq Conns
  BY <1>1, <1>9, <1>12 DEF PanelInv, TypesInv, PanelTypeOK, u
<1> QED BY <1>1, <1>2, <1>5, <1>12, <1>13, <1>14, ClientKeeps

LEMMA Defers ==
  ASSUME PanelInv, NEW ch \in Conns, Defer(ch)
  PROVE  TypesInv' /\ StreamInv'
<1> DEFINE in == to_client[ch]
           late == Append(delayed[ch], Head(in))
<1>1. /\ ch \in alive /\ in # <<>> /\ Head(in).cmd # "LP"
      /\ to_client' = [to_client EXCEPT ![ch] = Tail(in)] /\ delayed' = [delayed EXCEPT ![ch] = late]
      /\ UNCHANGED <<caedVars, alive, deck, loading, draining, to_caed>>
  BY DEF Defer
<1>2. /\ deck' \in [Buttons -> Decks] /\ to_caed' \in [Conns -> Seq(Cmds)]
      /\ \A c \in Conns : \A k \in DOMAIN to_caed'[c] : Order(to_caed'[c][k])
      /\ loading[ch] # NoButton => loading[ch] \in Buttons /\ Client(loading[ch]) = ch
      /\ loading' = [loading EXCEPT ![ch] = loading[ch]]
      /\ in \in Seq(Replies) /\ \A k \in DOMAIN in : Answer(in[k], ch)
      /\ delayed[ch] \in Seq(Replies) /\ \A k \in DOMAIN delayed[ch] : Answer(delayed[ch][k], ch)
      /\ draining' \in SUBSET Conns
  BY <1>1, Unmoved DEF PanelInv, TypesInv, PanelTypeOK, Carried, LoadingOwn, Cmds
<1>3. Good(deck', loading[ch], to_caed'[ch], in, LiveOf(ch), ch)
  BY <1>1 DEF PanelInv, StreamInv, ClientInv
<1> DEFINE q == delayed[ch]
<1> HIDE DEF in, q
<1>4. /\ Tail(in) \in Seq(Replies) /\ \A k \in DOMAIN Tail(in) : Answer(Tail(in)[k], ch)
      /\ Head(in) \in Replies /\ Answer(Head(in), ch)
  BY <1>1, <1>2, TailAnswers
<1>5. Append(q, Head(in)) \in Seq(Replies) /\ \A k \in DOMAIN Append(q, Head(in)) : Answer(Append(q, Head(in))[k], ch)
  <2>1. q \in Seq(Replies) /\ \A k \in DOMAIN q : Answer(q[k], ch)
    BY <1>2 DEF q
  <2> DEFINE r == Head(in)
             u == Append(q, r)
  <2>2. r \in Replies /\ Answer(r, ch)
    BY <1>4
  <2> HIDE DEF r
  <2>3. /\ u \in Seq(Replies) /\ Len(u) = Len(q) + 1 /\ u[Len(q) + 1] = r
        /\ \A k \in 1..Len(q) : u[k] = q[k]
    BY <2>1, <2>2, AppendProperties
  <2>4. Len(q) \in Nat /\ DOMAIN q = 1..Len(q) /\ DOMAIN u = 1..Len(u)
    BY <2>1, <2>3, LenProperties
  <2> HIDE DEF u
  <2>5. \A k \in DOMAIN u : Answer(u[k], ch)
    BY <2>1, <2>2, <2>3, <2>4
  <2> QED BY <2>3, <2>5 DEF u, r
<1>6. late \in Seq(Replies) /\ \A k \in DOMAIN late : Answer(late[k], ch)
  BY <1>5 DEF q
<1> HIDE DEF late
<1>7. Good(deck', loading[ch], to_caed'[ch], Tail(in), LiveOf(ch), ch)
  BY <1>1, <1>2, <1>3, GoodTakes
<1>8. /\ \A c \in alive : c # ch => to_caed'[c] = to_caed[c]
      /\ \A e \in Buttons : Client(e) # ch => deck'[e] = deck[e]
  BY <1>1
<1> QED BY <1>1, <1>2, <1>4, <1>6, <1>7, <1>8, ClientKeeps

LEMMA ClientEnds ==
  ASSUME PanelInv, NEW ch \in Conns, Exit(ch)
  PROVE  TypesInv' /\ StreamInv'
<1>0. /\ deck \in [Buttons -> Decks] /\ loading \in [Conns -> Buttons \cup {NoButton}]
      /\ to_client \in [Conns -> Seq(Replies)] /\ delayed \in [Conns -> Seq(Replies)]
      /\ alive \subseteq Conns /\ alive \subseteq socket /\ draining \subseteq Conns
  BY DEF PanelInv, TypesInv, PanelTypeOK
<1>1. /\ alive' = alive \ {ch} /\ deck' = [b \in Buttons |-> IF Client(b) = ch THEN NoDeck ELSE deck[b]]
      /\ loading' = [loading EXCEPT ![ch] = NoButton] /\ delayed' = [delayed EXCEPT ![ch] = <<>>]
      /\ draining' = draining \ {ch} /\ to_client' = [to_client EXCEPT ![ch] = <<>>]
      /\ to_caed' = to_caed /\ socket' = socket /\ \A c \in Conns : LiveOf(c)' = LiveOf(c)
  BY DEF Exit, caedVars, vars, connVars, tableVars, LiveOf, Live
<1>2. /\ loading'[ch] = NoButton /\ to_client'[ch] = <<>> /\ delayed'[ch] = <<>>
      /\ \A b \in Buttons : deck'[b] = IF Client(b) = ch THEN NoDeck ELSE deck[b]
      /\ \A c \in Conns : c # ch => /\ loading'[c] = loading[c] /\ to_client'[c] = to_client[c]
                                    /\ delayed'[c] = delayed[c]
  BY <1>0, <1>1
<1>3. PanelTypeOK'
  <2>1. <<>> \in Seq(Replies)
    OBVIOUS
  <2>2. /\ loading' \in [Conns -> Buttons \cup {NoButton}] /\ to_client' \in [Conns -> Seq(Replies)]
        /\ delayed' \in [Conns -> Seq(Replies)]
    BY <1>0, <1>1, <2>1
  <2>3. deck' \in [Buttons -> Decks]
    BY <1>0, <1>1, NoDeckType
  <2>4. alive' \in SUBSET Conns /\ draining' \in SUBSET Conns
    BY <1>0, <1>1
  <2>5. to_caed' \in [Conns -> Seq([cmd : Commands, arg : Int])]
    BY <1>1 DEF PanelInv, TypesInv, PanelTypeOK
  <2> QED BY <2>2, <2>3, <2>4, <2>5 DEF PanelTypeOK
<1>4. Carried' /\ LoadingOwn'
  BY <1>1, <1>2 DEF PanelInv, TypesInv, Carried, LoadingOwn
<1>5. GoneInv'
  BY <1>1, <1>2 DEF PanelInv, StreamInv, GoneInv, Gone
<1>6. ASSUME NEW c \in alive' PROVE ClientInv(c)'
  <2>1. c \in alive /\ c # ch /\ c \in Conns
    BY <1>0, <1>1
  <2>2. Good(deck, loading[c], to_caed[c], to_client[c], LiveOf(c), c)
    BY <2>1 DEF PanelInv, StreamInv, ClientInv
  <2>3. loading[c] # NoButton => loading[c] \in Buttons /\ Client(loading[c]) = c
    BY <2>1 DEF PanelInv, TypesInv, LoadingOwn
  <2>4. \A b \in Buttons : Client(b) = c => deck'[b] = deck[b]
    BY <1>2, <2>1
  <2>5. Good(deck', loading[c], to_caed[c], to_client[c], LiveOf(c), c)
    BY <2>2, <2>3, <2>4, GoodSame
  <2> QED BY <1>1, <1>2, <2>1, <2>5 DEF ClientInv
<1>7. alive' \subseteq socket'
  BY <1>0, <1>1
<1> QED BY <1>3, <1>4, <1>5, <1>6, <1>7 DEF TypesInv, StreamInv

LEMMA ClientConnects ==
  ASSUME PanelInv, NEW ch \in Conns, connectHost(ch)
  PROVE  TypesInv' /\ StreamInv'
<1> DEFINE m == Cmd("PW", None)
           t == <<m>>
<1>0. to_caed \in [Conns -> Seq(Cmds)] /\ alive \subseteq Conns /\ alive \subseteq socket
  BY DEF PanelInv, TypesInv, PanelTypeOK, Cmds
<1>1. /\ ch \notin alive /\ ch \notin socket /\ alive' = alive \cup {ch} /\ socket' = socket \cup {ch}
      /\ to_caed' = [to_caed EXCEPT ![ch] = t] /\ UNCHANGED <<deck, loading, delayed, draining, to_client>>
      /\ \A c \in Conns : LiveOf(c)' = LiveOf(c)
  BY DEF connectHost, newConnection, tableVars, LiveOf, Live
<1>2. t \in Seq(Cmds) /\ Order(m) /\ m.cmd = "PW" /\ \A k \in DOMAIN t : t[k] = m
  <2>1. m \in Cmds /\ m.cmd = "PW" /\ Order(m)
    BY DEF Cmd, Cmds, None, Commands, Order
  <2> HIDE DEF m
  <2> QED BY <2>1
<1> HIDE DEF m, t
<1>3. to_caed'[ch] = t /\ \A c \in Conns : c # ch => to_caed'[c] = to_caed[c]
  BY <1>0, <1>1
<1>4. to_caed' \in [Conns -> Seq(Cmds)]
  BY <1>0, <1>1, <1>2
<1>5. PanelTypeOK'
  BY <1>0, <1>1, <1>4 DEF PanelInv, TypesInv, PanelTypeOK, Cmds
<1>6. Carried' /\ LoadingOwn'
  BY <1>1, <1>2, <1>3 DEF PanelInv, TypesInv, Carried, LoadingOwn
<1>7. GoneInv'
  BY <1>1 DEF PanelInv, StreamInv, GoneInv, Gone
<1>8. ASSUME NEW c \in alive PROVE ClientInv(c)'
  BY <1>0, <1>1, <1>3 DEF PanelInv, StreamInv, ClientInv
<1>9. ClientInv(ch)'
  <2>1. Gone(ch)
    BY <1>1 DEF PanelInv, StreamInv, GoneInv
  <2>2. LiveOf(ch) = {}
    BY <1>1 DEF LiveOf, PanelInv, TableInv, HandleOwners
  <2>3. \A h : ~Announces(<<>>, h) /\ ~Unloads(t, h)
    BY <1>2 DEF Announces, Unloads
  <2>4. LoadLast(NoButton, t, <<>>)
    BY <1>2 DEF LoadLast
  <2>5. \A b \in Buttons : Client(b) = ch => deck[b] = NoDeck
    BY <2>1 DEF Gone
  <2>6. \A h \in Handles : ~Holds(deck, ch, h)
    BY <2>5, Sizes, NoDeckType DEF Holds
  <2>7. Good(deck, NoButton, t, <<>>, {}, ch)
    BY <2>3, <2>4, <2>5, <2>6, NoDeckType DEF Good
  <2> QED BY <1>1, <1>3, <2>1, <2>2, <2>7 DEF ClientInv, Gone
<1>10. alive' \subseteq socket'
  BY <1>0, <1>1
<1> QED BY <1>1, <1>5, <1>6, <1>7, <1>8, <1>9, <1>10 DEF TypesInv, StreamInv

LEMMA ConnectionCloses ==
  ASSUME PanelInv, NEW ch \in Conns, connectionClosed(ch)
  PROVE  TypesInv' /\ StreamInv'
<1>0. to_caed \in [Conns -> Seq(Cmds)] /\ alive \subseteq Conns /\ alive \subseteq socket
  BY DEF PanelInv, TypesInv, PanelTypeOK, Cmds
<1>1. /\ ch \notin alive /\ KillSocket(ch) /\ socket' = socket \ {ch} /\ to_caed' = [to_caed EXCEPT ![ch] = <<>>]
      /\ UNCHANGED <<alive, deck, loading, delayed, draining, to_client>>
  BY DEF connectionClosed, KillSocket, clientVars
<1>2. \A c \in Conns : c # ch => LiveOf(c)' = LiveOf(c)
  BY <1>1, CaedCloses DEF PanelInv
<1>3. to_caed'[ch] = <<>> /\ \A c \in Conns : c # ch => to_caed'[c] = to_caed[c]
  BY <1>0, <1>1
<1>4. <<>> \in Seq(Cmds) /\ to_caed' \in [Conns -> Seq(Cmds)]
  <2>1. <<>> \in Seq(Cmds)
    OBVIOUS
  <2> QED BY <1>0, <1>1, <2>1
<1>5. PanelTypeOK'
  BY <1>1, <1>4 DEF PanelInv, TypesInv, PanelTypeOK, Cmds
<1>6. Carried' /\ LoadingOwn'
  BY <1>1, <1>3 DEF PanelInv, TypesInv, Carried, LoadingOwn
<1>7. GoneInv'
  BY <1>1 DEF PanelInv, StreamInv, GoneInv, Gone
<1>8. ASSUME NEW c \in alive PROVE ClientInv(c)'
  <2>1. c \in Conns /\ c # ch
    BY <1>0, <1>1
  <2> QED BY <1>1, <1>2, <1>3, <2>1 DEF PanelInv, StreamInv, ClientInv
<1>9. alive' \subseteq socket'
  BY <1>0, <1>1
<1> QED BY <1>1, <1>5, <1>6, <1>7, <1>8, <1>9 DEF TypesInv, StreamInv

--------------------------------------------------------------------------------
(* The steps of caed.                                                            *)

Uniform(s) == /\ \A j, k \in DOMAIN s : s[j] = s[k]
              /\ \A k \in DOMAIN s : s[k].cmd \in {"LP", "SP"} => s[k].arg \in Handles \cup {None}

LEMMA HeardFacts ==
  ASSUME sent' \in Seq(Replies), Uniform(sent'), NEW ch
  PROVE  /\ Heard(ch) \in Seq(Replies) /\ \A k \in DOMAIN Heard(ch) : Answer(Heard(ch)[k], ch)
         /\ Plain(sent') => \A k \in DOMAIN Heard(ch) : Heard(ch)[k].cmd # "LP"
<1>1. CASE \E k \in DOMAIN sent' : sent'[k].to = ch /\ sent'[k].cmd \in {"LP", "SP"}
  <2>1. Heard(ch) = sent'
    BY <1>1 DEF Heard
  <2>2. \A k \in DOMAIN sent' : sent'[k].to = ch /\ sent'[k].cmd \in {"LP", "SP"}
    BY <1>1 DEF Uniform
  <2> QED BY <2>1, <2>2 DEF Uniform, Answer, Plain
<1>2. CASE ~\E k \in DOMAIN sent' : sent'[k].to = ch /\ sent'[k].cmd \in {"LP", "SP"}
  <2>1. Heard(ch) = <<>>
    BY <1>2 DEF Heard
  <2> QED BY <2>1
<1> QED BY <1>1, <1>2

LEMMA CaedKeeps ==
  ASSUME PanelInv, sent' \in Seq(Replies), Uniform(sent'), UNCHANGED clientVars, Replied, socket' = socket,
         to_caed' \in [Conns -> Seq(Cmds)],
         \A c \in Conns : \A k \in DOMAIN to_caed'[c] : Order(to_caed'[c][k]),
         \A c \in alive : Good(deck, loading[c], to_caed'[c], to_client[c] \o Heard(c), LiveOf(c)', c)
  PROVE  TypesInv' /\ StreamInv'
<1>0. to_client \in [Conns -> Seq(Replies)] /\ UNCHANGED <<alive, deck, loading, delayed, draining>>
      /\ alive \subseteq Conns
  BY DEF PanelInv, TypesInv, PanelTypeOK, clientVars
<1>1. \A c \in Conns : to_client'[c] = IF c \in alive THEN to_client[c] \o Heard(c) ELSE <<>>
  BY DEF Replied
<1>2. ASSUME NEW c \in Conns
      PROVE  to_client'[c] \in Seq(Replies) /\ \A k \in DOMAIN to_client'[c] : Answer(to_client'[c][k], c)
  <2> DEFINE q == to_client[c]
             t == Heard(c)
  <2>1. q \in Seq(Replies) /\ \A k \in DOMAIN q : Answer(q[k], c)
    BY <1>0 DEF PanelInv, TypesInv, Carried
  <2>2. t \in Seq(Replies) /\ \A k \in DOMAIN t : Answer(t[k], c)
    BY HeardFacts
  <2>3. to_client'[c] = IF c \in alive THEN q \o t ELSE <<>>
    BY <1>1
  <2> HIDE DEF q, t
  <2>4. q \o t \in Seq(Replies) /\ \A k \in DOMAIN (q \o t) : Answer((q \o t)[k], c)
    BY <2>1, <2>2, ConcatFacts
  <2>5. CASE c \in alive
    BY <2>3, <2>4, <2>5
  <2>6. CASE c \notin alive
    <3>1. to_client'[c] = <<>>
      BY <2>3, <2>6
    <3> QED BY <3>1
  <2> QED BY <2>5, <2>6
<1>3. to_client' \in [Conns -> Seq(Replies)]
  <2>1. to_client' = [c \in Conns |-> to_client'[c]]
    BY DEF Replied
  <2> QED BY <1>2, <2>1
<1>4. PanelTypeOK'
  BY <1>0, <1>3 DEF PanelInv, TypesInv, PanelTypeOK, Cmds
<1>5. Carried' /\ LoadingOwn'
  BY <1>0, <1>2 DEF PanelInv, TypesInv, Carried, LoadingOwn
<1>6. GoneInv'
  BY <1>0, <1>1 DEF PanelInv, StreamInv, GoneInv, Gone
<1>7. ASSUME NEW c \in alive PROVE ClientInv(c)'
  BY <1>0, <1>1 DEF ClientInv
<1>8. alive' \subseteq socket'
  BY <1>0 DEF PanelInv, TypesInv
<1> QED BY <1>0, <1>4, <1>5, <1>6, <1>7, <1>8 DEF TypesInv, StreamInv

LEMMA PlainKeeps ==
  ASSUME PanelInv, sent' \in Seq(Replies), Plain(sent'), NEW c \in alive, NEW out, NEW live,
         Good(deck, loading[c], out, to_client[c], live, c)
  PROVE  Good(deck, loading[c], out, to_client[c] \o Heard(c), live, c)
<1>1. Uniform(sent')
  BY DEF Plain, Uniform
<1>2. Heard(c) \in Seq(Replies) /\ \A k \in DOMAIN Heard(c) : Heard(c)[k].cmd # "LP"
  BY <1>1, HeardFacts
<1>3. to_client[c] \in Seq(Replies)
  BY DEF PanelInv, TypesInv, PanelTypeOK
<1> QED BY <1>2, <1>3, GoodHears

(* Every step of the composed system is a step of caed, or none that it sees.    *)
LEMMA PanelSteps ==
  ASSUME TypesInv, [PanelNext]_panelVars
  PROVE  [Next]_vars
<1>1. ASSUME NEW ch \in Conns, Serve(ch) PROVE Next
  <2> DEFINE cmd == Head(to_caed[ch]).cmd
             arg == Head(to_caed[ch]).arg
  <2>0. to_caed[ch] \in Seq(Cmds) /\ to_caed[ch] # <<>> /\ \A k \in DOMAIN to_caed[ch] : Order(to_caed[ch][k])
    BY <1>1 DEF Serve, TypesInv, PanelTypeOK, Carried, Cmds
  <2>1. Order(Head(to_caed[ch]))
    BY <2>0, TailFacts
  <2>2. /\ cmd = "LP" => arg \in Cards
        /\ cmd \in {"UP", "PP", "PY", "SP"} => arg \in Handles \cup {None}
    BY <2>1 DEF Order
  <2>3. \/ cmd = "PW" /\ Password(ch, TRUE)
        \/ cmd = "LP" /\ (LoadPlayback(ch, arg) \/ LoadPlaybackFails(ch, arg))
        \/ cmd \in {"UP", "PP", "PY", "SP"} /\ HandleCommandFails(ch, cmd, arg)
        \/ /\ arg \in Handles
           /\ \/ UnloadPlayback(ch, arg)
              \/ \E pos \in Positions : PlaybackPosition(ch, arg, pos)
              \/ \E timed \in Timed : Play(ch, arg, timed)
              \/ PlayFails(ch, arg, FALSE)
              \/ StopPlayback(ch, arg) \/ StopPlaybackFails(ch, arg)
    BY <1>1 DEF Serve
  <2> HIDE DEF cmd, arg
  <2>4. CASE cmd = "PW" /\ Password(ch, TRUE)
    BY <2>4 DEF Next, ConnectionStep
  <2>5. CASE cmd = "LP" /\ (LoadPlayback(ch, arg) \/ LoadPlaybackFails(ch, arg))
    <3>1. PlayCommand(ch)
      BY <2>2, <2>5 DEF PlayCommand
    <3> QED BY <3>1 DEF Next
  <2>6. CASE cmd \in {"UP", "PP", "PY", "SP"} /\ HandleCommandFails(ch, cmd, arg)
    <3>1. PlayCommand(ch)
      BY <2>2, <2>6 DEF PlayCommand
    <3> QED BY <3>1 DEF Next
  <2>7. CASE /\ arg \in Handles
             /\ \/ UnloadPlayback(ch, arg)
                \/ \E pos \in Positions : PlaybackPosition(ch, arg, pos)
                \/ \E timed \in Timed : Play(ch, arg, timed)
                \/ PlayFails(ch, arg, FALSE)
                \/ StopPlayback(ch, arg) \/ StopPlaybackFails(ch, arg)
    <3>1. FALSE \in BOOLEAN
      OBVIOUS
    <3>2. PlayCommand(ch)
      BY <2>7, <3>1 DEF PlayCommand
    <3> QED BY <3>2 DEF Next
  <2> QED BY <2>3, <2>4, <2>5, <2>6, <2>7
<1>2. CASE CaedRuns
  BY <1>2 DEF CaedRuns, Alone, Next
<1>3. ASSUME NEW ch \in Conns, connectHost(ch) \/ connectionClosed(ch) PROVE Next
  BY <1>3 DEF connectHost, connectionClosed, Next, ConnectionStep
<1>4. ASSUME NEW ch \in Conns, ClientStep(ch) \/ Exit(ch) PROVE UNCHANGED vars
  BY <1>4 DEF ClientStep, PlayAudioLoaded, Defer, Drain, readyData, Exit, caedVars
<1>5. ASSUME NEW b \in Buttons,
             \/ PlayAudio(b) \/ PlayButton(b) \/ PauseButton(b) \/ StopTimer(b)
             \/ \E fade \in BOOLEAN : StopButton(b, fade)
      PROVE  UNCHANGED vars
  BY <1>5 DEF PlayAudio, PlayButton, PauseButton, StopTimer, StopButton, caedVars
<1>6. CASE UNCHANGED panelVars
  BY <1>6 DEF panelVars, caedVars
<1> QED BY <1>1, <1>2, <1>3, <1>4, <1>5, <1>6 DEF PanelNext

LEMMA CaedRunsKeeps ==
  ASSUME PanelInv, sent' \in Seq(Replies), CaedRuns
  PROVE  TypesInv' /\ StreamInv'
<1>1. /\ \/ \E i \in Ifs : alsaStopTimerData(i) \/ AlsaPlayCallback(i)
         \/ updateMeters \/ AlsaClock
      /\ Replied /\ UNCHANGED <<clientVars, to_caed>>
  BY DEF CaedRuns, Alone
<1>2. Plain(sent') /\ play_handle' = play_handle /\ socket' = socket
  BY <1>1, CaedTimers DEF PanelInv
<1>3. Uniform(sent') /\ \A c \in Conns : LiveOf(c)' = LiveOf(c)
  BY <1>2 DEF Plain, Uniform, LiveOf, Live
<1>4. ASSUME NEW c \in alive
      PROVE  Good(deck, loading[c], to_caed'[c], to_client[c] \o Heard(c), LiveOf(c)', c)
  <2>1. Good(deck, loading[c], to_caed[c], to_client[c], LiveOf(c), c) /\ c \in Conns
    BY DEF PanelInv, StreamInv, ClientInv, TypesInv, PanelTypeOK
  <2>2. Good(deck, loading[c], to_caed[c], to_client[c] \o Heard(c), LiveOf(c), c)
    BY <1>2, <2>1, PlainKeeps
  <2> QED BY <1>1, <1>3, <2>1, <2>2
<1>5. /\ to_caed' \in [Conns -> Seq(Cmds)]
      /\ \A c \in Conns : \A k \in DOMAIN to_caed'[c] : Order(to_caed'[c][k])
  BY <1>1 DEF PanelInv, TypesInv, PanelTypeOK, Carried, Cmds
<1> QED BY <1>1, <1>2, <1>3, <1>4, <1>5, CaedKeeps

LEMMA ServeKeeps ==
  ASSUME PanelInv, sent' \in Seq(Replies), NEW ch \in Conns, Serve(ch)
  PROVE  TypesInv' /\ StreamInv'
<1> DEFINE q == to_caed[ch]
           cmd == Head(q).cmd
           arg == Head(q).arg
<1>0. /\ to_caed \in [Conns -> Seq(Cmds)] /\ q \in Seq(Cmds) /\ q # <<>> /\ \A k \in DOMAIN q : Order(q[k])
      /\ to_caed' = [to_caed EXCEPT ![ch] = Tail(q)] /\ Replied /\ UNCHANGED clientVars
      /\ alive \subseteq Conns /\ \A c \in Conns : \A k \in DOMAIN to_caed[c] : Order(to_caed[c][k])
      /\ \A c \in alive : Good(deck, loading[c], to_caed[c], to_client[c], LiveOf(c), c)
      /\ TypeInv /\ TableInv
  BY DEF Serve, PanelInv, TypesInv, PanelTypeOK, Carried, StreamInv, ClientInv, Cmds
<1>1. \/ cmd = "PW" /\ Password(ch, TRUE)
      \/ cmd = "LP" /\ (LoadPlayback(ch, arg) \/ LoadPlaybackFails(ch, arg))
      \/ cmd \in {"UP", "PP", "PY", "SP"} /\ HandleCommandFails(ch, cmd, arg)
      \/ /\ arg \in Handles
         /\ \/ cmd = "UP" /\ UnloadPlayback(ch, arg)
            \/ cmd = "PP" /\ \E pos \in Positions : PlaybackPosition(ch, arg, pos)
            \/ cmd = "PY" /\ \E timed \in Timed : Play(ch, arg, timed)
            \/ cmd = "PY" /\ PlayFails(ch, arg, FALSE)
            \/ cmd = "SP" /\ (StopPlayback(ch, arg) \/ StopPlaybackFails(ch, arg))
  BY DEF Serve
<1> HIDE DEF q
<1>2. /\ Tail(q) \in Seq(Cmds) /\ \A k \in DOMAIN Tail(q) : Order(Tail(q)[k])
      /\ Order(Head(q))
  BY <1>0, TailFacts
<1> DEFINE u == Tail(q)
<1>3. to_caed' = [to_caed EXCEPT ![ch] = u] /\ u \in Seq(Cmds) /\ \A k \in DOMAIN u : Order(u[k])
  BY <1>0, <1>2
<1> HIDE DEF u
<1>4. /\ to_caed'[ch] = u /\ \A c \in Conns : c # ch => to_caed'[c] = to_caed[c]
      /\ to_caed' \in [Conns -> Seq(Cmds)]
  BY <1>0, <1>3
<1>5. \A c \in Conns : \A k \in DOMAIN to_caed'[c] : Order(to_caed'[c][k])
  BY <1>0, <1>3, <1>4
<1>6. arg \in Handles \cup {None} \/ cmd = "LP"
  BY <1>2 DEF Order
<1>7. ASSUME Plain(sent'), cmd # "LP", socket' = socket, \A c \in Conns : c # ch => LiveOf(c)' = LiveOf(c),
             LiveOf(ch)' = IF cmd = "UP" THEN LiveOf(ch) \ {arg} ELSE LiveOf(ch)
      PROVE  TypesInv' /\ StreamInv'
  <2>1. Uniform(sent')
    BY <1>7 DEF Plain, Uniform
  <2>2. ASSUME NEW c \in alive
        PROVE  Good(deck, loading[c], to_caed'[c], to_client[c] \o Heard(c), LiveOf(c)', c)
    <3>0. Good(deck, loading[c], to_caed[c], to_client[c], LiveOf(c), c) /\ c \in Conns
      BY <1>0
    <3>1. CASE c # ch
      <4>1. Good(deck, loading[c], to_caed[c], to_client[c] \o Heard(c), LiveOf(c), c)
        BY <1>7, <3>0, PlainKeeps
      <4> QED BY <1>4, <1>7, <3>0, <3>1, <4>1
    <3>2. CASE c = ch
      <4>1. Good(deck, loading[c], q, to_client[c], LiveOf(c), c)
        BY <3>0, <3>2 DEF q
      <4> DEFINE live2 == IF Head(q).cmd = "UP" THEN LiveOf(c) \ {Head(q).arg} ELSE LiveOf(c)
      <4>2. LiveOf(c)' = live2
        BY <1>7, <3>2
      <4> HIDE DEF live2
      <4>3. Good(deck, loading[c], u, to_client[c], live2, c)
        BY <1>0, <1>7, <4>1, GoodServed DEF u, live2
      <4>4. Good(deck, loading[c], u, to_client[c] \o Heard(c), live2, c)
        BY <1>7, <4>3, PlainKeeps
      <4> QED BY <1>4, <3>2, <4>2, <4>4
    <3> QED BY <3>1, <3>2
  <2> QED BY <1>0, <1>4, <1>5, <1>7, <2>1, <2>2, CaedKeeps
<1>8. ASSUME cmd # "LP", play_handle' = play_handle, cmd = "UP" => arg \notin LiveOf(ch), Plain(sent'), socket' = socket
      PROVE  TypesInv' /\ StreamInv'
  <2>1. \A c \in Conns : LiveOf(c)' = LiveOf(c)
    BY <1>8 DEF LiveOf, Live
  <2> HIDE DEF cmd, arg
  <2> QED BY <1>7, <1>8, <2>1
<1>9. ASSUME cmd = "LP", NEW h \in Handles \cup {None}, NEW ok \in BOOLEAN, sent' = <<Reply(ch, "LP", h, ok)>>,
             h \notin LiveOf(ch), LiveOf(ch)' = LiveOf(ch) \cup ({h} \ {None}), socket' = socket,
             \A c \in Conns : c # ch => LiveOf(c)' = LiveOf(c)
      PROVE  TypesInv' /\ StreamInv'
  <2>1. Uniform(sent')
    BY <1>9 DEF Uniform, Reply
  <2>2. Heard(ch) = <<Reply(ch, "LP", h, ok)>> /\ \A c : c # ch => Heard(c) = <<>>
    BY <1>9 DEF Heard, Reply
  <2>3. ASSUME NEW c \in alive
        PROVE  Good(deck, loading[c], to_caed'[c], to_client[c] \o Heard(c), LiveOf(c)', c)
    <3>0. /\ Good(deck, loading[c], to_caed[c], to_client[c], LiveOf(c), c) /\ c \in Conns
          /\ to_client[c] \in Seq(Replies)
      BY <1>0 DEF PanelInv, TypesInv, PanelTypeOK
    <3>1. CASE c # ch
      <4>1. Heard(c) = <<>> /\ <<>> \in Seq(Replies) /\ \A k \in DOMAIN <<>> : <<>>[k].cmd # "LP"
        BY <2>2, <3>1
      <4>2. Good(deck, loading[c], to_caed[c], to_client[c] \o Heard(c), LiveOf(c), c)
        BY <3>0, <4>1, GoodHears
      <4> QED BY <1>4, <1>9, <3>0, <3>1, <4>2
    <3>2. CASE c = ch
      <4>1. Good(deck, loading[c], q, to_client[c], LiveOf(c), c)
        BY <3>0, <3>2 DEF q
      <4>2. h \in (Handles \ LiveOf(c)) \cup {None}
        BY <1>9, <3>2
      <4>3. Good(deck, loading[c], u, to_client[c] \o <<Reply(c, "LP", h, ok)>>, LiveOf(c) \cup ({h} \ {None}), c)
        BY <1>0, <1>9, <3>0, <4>1, <4>2, GoodLoads DEF u
      <4> QED BY <1>4, <1>9, <2>2, <3>2, <4>3
    <3> QED BY <3>1, <3>2
  <2> QED BY <1>0, <1>4, <1>5, <1>9, <2>1, <2>3, CaedKeeps
<1>10. CASE cmd = "PW" /\ Password(ch, TRUE)
  <2>1. None \in Handles \cup {None} /\ Plain(sent') /\ play_handle' = play_handle /\ socket' = socket
    <3>1. None \in Handles \cup {None}
      OBVIOUS
    <3> QED BY <1>0, <1>10, <3>1, CaedCommands
  <2> QED BY <1>8, <1>10, <2>1
<1>11. CASE cmd \in {"UP", "PP", "PY", "SP"} /\ HandleCommandFails(ch, cmd, arg)
  <2>0. arg \in Handles \cup {None} /\ cmd # "LP"
    BY <1>6, <1>11
  <2> HIDE DEF cmd, arg
  <2>1. Plain(sent') /\ play_handle' = play_handle /\ socket' = socket
    BY <1>0, <1>11, <2>0, CaedCommands
  <2>2. cmd = "UP" => arg \notin LiveOf(ch)
    BY <1>0, <1>11, UnloadTaken
  <2> QED BY <1>8, <2>0, <2>1, <2>2
<1>12. CASE arg \in Handles /\ cmd = "UP" /\ UnloadPlayback(ch, arg)
  <2> HIDE DEF cmd, arg
  <2>1. /\ LiveOf(ch)' = LiveOf(ch) \ {arg} /\ \A c \in Conns : c # ch => LiveOf(c)' = LiveOf(c)
        /\ Plain(sent') /\ socket' = socket
    BY <1>0, <1>12, CaedUnloads
  <2> QED BY <1>7, <1>12, <2>1
<1>13. CASE /\ arg \in Handles /\ cmd \in {"PP", "PY", "SP"}
            /\ \/ \E pos \in Positions : PlaybackPosition(ch, arg, pos)
               \/ \E timed \in Timed : Play(ch, arg, timed)
               \/ PlayFails(ch, arg, FALSE)
               \/ StopPlayback(ch, arg) \/ StopPlaybackFails(ch, arg)
  <2> HIDE DEF cmd, arg
  <2>1. Plain(sent') /\ play_handle' = play_handle /\ socket' = socket
    BY <1>0, <1>13, CaedCommands
  <2> QED BY <1>8, <1>13, <2>1
<1>14. CASE cmd = "LP" /\ LoadPlayback(ch, arg)
  <2> HIDE DEF cmd, arg
  <2>1. PICK h \in Handles : /\ h \notin LiveOf(ch) /\ LiveOf(ch)' = LiveOf(ch) \cup {h}
                             /\ \A c \in Conns : c # ch => LiveOf(c)' = LiveOf(c)
                             /\ sent' = <<Reply(ch, "LP", h, TRUE)>> /\ socket' = socket
    BY <1>0, <1>14, CaedLoads
  <2>2. {h} \ {None} = {h}
    BY Sizes
  <2> QED BY <1>9, <1>14, <2>1, <2>2
<1>15. CASE cmd = "LP" /\ LoadPlaybackFails(ch, arg)
  <2> HIDE DEF cmd, arg
  <2>1. /\ sent' = <<Reply(ch, "LP", None, FALSE)>> /\ socket' = socket /\ play_handle' = play_handle
    BY <1>15 DEF LoadPlaybackFails, connVars, tableVars
  <2>2. \A c \in Conns : LiveOf(c)' = LiveOf(c)
    BY <2>1 DEF LiveOf, Live
  <2>3. None \notin LiveOf(ch) /\ {None} \ {None} = {}
    BY Sizes DEF LiveOf
  <2> QED BY <1>9, <1>15, <2>1, <2>2, <2>3
<1> QED BY <1>1, <1>10, <1>11, <1>12, <1>13, <1>14, <1>15

--------------------------------------------------------------------------------
LEMMA PanelInvInit == PanelInit => PanelInv
<1> SUFFICES ASSUME PanelInit PROVE PanelInv
  OBVIOUS
<1>1. TypeInv /\ TableInv
  BY TypeInit, TableInit DEF PanelInit
<1>2. <<>> \in Seq(Replies) /\ <<>> \in Seq([cmd : Commands, arg : Int])
  OBVIOUS
<1>3. PanelTypeOK
  BY <1>2, NoDeckType DEF PanelInit, PanelTypeOK
<1>4. Carried /\ LoadingOwn /\ alive \subseteq socket
  BY DEF PanelInit, Carried, LoadingOwn
<1>5. StreamInv
  BY DEF PanelInit, StreamInv, GoneInv, Gone
<1> QED BY <1>1, <1>3, <1>4, <1>5 DEF PanelInv, TypesInv

LEMMA PanelInvNext == PanelInv /\ [PanelNext]_panelVars => PanelInv'
<1> SUFFICES ASSUME PanelInv, [PanelNext]_panelVars PROVE PanelInv'
  OBVIOUS
<1>1. [Next]_vars
  BY PanelSteps DEF PanelInv
<1>2. TypeInv' /\ TableInv'
  BY <1>1, TypeNext, TableNext DEF PanelInv
<1>3. sent' \in Seq(Replies)
  BY <1>2 DEF TypeInv, TypeOK
<1>4. CASE UNCHANGED panelVars
  <2>1. /\ UNCHANGED <<socket, play_handle>>
        /\ UNCHANGED <<alive, deck, loading, delayed, draining, to_caed, to_client>>
    BY <1>4 DEF panelVars, caedVars, clientVars, vars, connVars, tableVars
  <2>2. TypesInv'
    BY <2>1 DEF PanelInv, TypesInv, PanelTypeOK, Carried, LoadingOwn
  <2>3. \A c \in Conns : LiveOf(c)' = LiveOf(c)
    BY <2>1 DEF LiveOf, Live
  <2>4. GoneInv'
    BY <2>1 DEF PanelInv, StreamInv, GoneInv, Gone
  <2>5. ASSUME NEW c \in alive PROVE ClientInv(c)'
    <3>1. c \in Conns
      BY DEF PanelInv, TypesInv, PanelTypeOK
    <3> QED BY <2>1, <2>3, <3>1 DEF PanelInv, StreamInv, ClientInv
  <2> QED BY <1>2, <2>1, <2>2, <2>4, <2>5 DEF PanelInv, StreamInv
<1>5. CASE PanelNext
  <2>1. TypesInv' /\ StreamInv'
    BY <1>3, <1>5, CaedRunsKeeps, ServeKeeps, LoadEnds, Defers, DispatchSteps, ClientConnects, ClientEnds,
       ConnectionCloses, LoadStarts, UserSteps, Zenon DEF PanelNext, ClientStep
  <2> QED BY <1>2, <2>1 DEF PanelInv
<1> QED BY <1>4, <1>5

LEMMA PanelAlways == PanelSpec => []PanelInv
BY PanelInvInit, PanelInvNext, PTL DEF PanelSpec

(* Every reachable state of panels and caed together is well typed: decks, the   *)
(* pending load and what is put aside, and the commands and replies under way.   *)
THEOREM PanelTypeCorrect == PanelSpec => []PanelTypeOK
<1>1. PanelInv => PanelTypeOK
  BY DEF PanelInv, TypesInv
<1> QED BY <1>1, PanelAlways, PTL

(* Driven by the commands of sound panels, caed does nothing that module Caed    *)
(* does not allow, so that all that is proved of it holds beneath them too.      *)
THEOREM PanelDrivesCaed == PanelSpec => Spec
<1>1. PanelInit => Init
  BY DEF PanelInit
<1>2. PanelInv /\ [PanelNext]_panelVars => [Next]_vars
  BY PanelSteps DEF PanelInv
<1> QED BY <1>1, <1>2, PanelAlways, PTL DEF PanelSpec, Spec

(* No stream is lost to a running client: whatever caed holds for it, a deck     *)
(* holds, its pending load will be told of, or an unload on the way will free,   *)
(* and an answer to a load always finds the load that waits for it.              *)
THEOREM StreamsComeBack == PanelSpec => []StreamsReturned
<1>1. PanelInv => StreamsReturned
  <2> SUFFICES ASSUME PanelInv, NEW ch \in alive
               PROVE  /\ LiveOf(ch) \subseteq HeldBy(ch) \cup Announced(ch) \cup Returning(ch)
                      /\ Announced(ch) # {} => loading[ch] # NoButton
    BY DEF StreamsReturned
  <2>0. Good(deck, loading[ch], to_caed[ch], to_client[ch], LiveOf(ch), ch)
    BY DEF PanelInv, StreamInv, ClientInv
  <2>1. ASSUME NEW h \in LiveOf(ch) PROVE h \in HeldBy(ch) \cup Announced(ch) \cup Returning(ch)
    <3>1. h \in Handles /\ h # None
      BY Sizes DEF LiveOf
    <3>2. Holds(deck, ch, h) => h \in HeldBy(ch)
      BY <3>1 DEF Holds, HeldBy
    <3>3. Announces(to_client[ch], h) => h \in Announced(ch)
      BY <3>1 DEF Announces, Announced
    <3>4. Unloads(to_caed[ch], h) => h \in Returning(ch)
      BY DEF Unloads, Returning
    <3> QED BY <2>0, <3>2, <3>3, <3>4 DEF Good
  <2>2. ASSUME NEW h \in Announced(ch) PROVE loading[ch] # NoButton
    BY <2>0, <2>2 DEF Announced, Good, LoadLast
  <2> QED BY <2>1, <2>2
<1> QED BY <1>1, PanelAlways, PTL

(* No deck outlives its stream: what a deck holds is live at caed and the        *)
(* client's own, no other deck of it holds it too, and nothing under way unloads *)
(* it, however clicks, macros, stops and loads cross.                            *)
THEOREM DecksKeepStreams == PanelSpec => []DecksHoldStreams
<1>1. PanelInv => DecksHoldStreams
  <2> SUFFICES ASSUME PanelInv, NEW ch \in alive
               PROVE  /\ HeldBy(ch) \subseteq LiveOf(ch) \ Returning(ch)
                      /\ \A b, c \in Buttons :
                           Client(b) = ch /\ Client(c) = ch /\ deck[b].handle = deck[c].handle =>
                             b = c \/ deck[b].handle = None
    BY DEF DecksHoldStreams
  <2>0. Good(deck, loading[ch], to_caed[ch], to_client[ch], LiveOf(ch), ch)
    BY DEF PanelInv, StreamInv, ClientInv
  <2>1. ASSUME NEW h \in HeldBy(ch) PROVE h \in LiveOf(ch) \ Returning(ch)
    <3>1. PICK b \in Buttons : Client(b) = ch /\ h = deck[b].handle /\ h # None
      BY DEF HeldBy
    <3>2. h \in Handles
      BY <3>1 DEF PanelInv, TypesInv, PanelTypeOK, Decks
    <3>3. Holds(deck, ch, h)
      BY <3>1 DEF Holds
    <3>4. h \in LiveOf(ch) /\ ~Unloads(to_caed[ch], h)
      BY <2>0, <3>2, <3>3 DEF Good
    <3> QED BY <3>4 DEF Unloads, Returning
  <2> QED BY <2>0, <2>1 DEF Good
<1> QED BY <1>1, PanelAlways, PTL

--------------------------------------------------------------------------------
(* What a deck shows and what caed plays, with what is still under way between   *)
(* them: the commands out, and the replies in the stream and put aside.  p says  *)
(* whether caed plays the handle h now.                                          *)

Asks(s, k, cmd, h) == k \in DOMAIN s /\ s[k].cmd = cmd /\ s[k].arg = h

(* Once the commands under way are served h plays, or does not.                  *)
WillPlay(h, p, out) ==
  \/ p /\ \A j \in DOMAIN out : ~Asks(out, j, "SP", h)
  \/ \E k \in DOMAIN out : Asks(out, k, "PY", h) /\ \A j \in DOMAIN out : Asks(out, j, "SP", h) => j < k
WillRest(h, p, out) ==
  \/ ~p /\ \A j \in DOMAIN out : ~Asks(out, j, "PY", h)
  \/ \E k \in DOMAIN out : Asks(out, k, "SP", h) /\ \A j \in DOMAIN out : Asks(out, j, "PY", h) => j < k
(* Among them is a stop that will find h playing, and so be reported.            *)
WillEnd(h, p, out) ==
  \E k \in DOMAIN out : Asks(out, k, "SP", h) /\ (p \/ \E j \in DOMAIN out : Asks(out, j, "PY", h) /\ j < k)
(* A stop of h is reported already.                                              *)
Told(in, late, h) == \/ \E k \in DOMAIN in : Asks(in, k, "SP", h)
                     \/ \E k \in DOMAIN late : Asks(late, k, "SP", h)

(* A deck that shows Playing plays once its commands are served, unless a stop   *)
(* that will end it is reported; one that is Stopping is told of its stop, or    *)
(* will be, or plays out a fade; one that shows Paused is silent then.           *)
Follows(d, p, out, in, late) ==
  /\ d.state = "Playing" => Told(in, late, d.handle) \/ WillPlay(d.handle, p, out)
  /\ d.state = "Stopping" => \/ Told(in, late, d.handle) \/ WillEnd(d.handle, p, out)
                             \/ d.stop_timer /\ WillPlay(d.handle, p, out)
  /\ d.state = "Paused" => WillRest(d.handle, p, out)
InStep(d, p, out, in, late) ==
  /\ d.state \in {"Playing", "Stopping"} => d.handle # None
  /\ d.handle # None => Follows(d, p, out, in, late)

(* caed reads a command: a play finds h playing or starts it, a stop of what     *)
(* plays is reported, and nothing else under way moves h.                        *)
LEMMA ServedInStep ==
  ASSUME NEW d, NEW p \in BOOLEAN, NEW q \in BOOLEAN, NEW out \in Seq(Cmds), out # <<>>,
         NEW in, NEW in2, NEW late, InStep(d, p, out, in, late),
         Told(in, late, d.handle) => Told(in2, late, d.handle),
         \/ Asks(out, 1, "PY", d.handle) /\ q
         \/ Asks(out, 1, "SP", d.handle) /\ ~q /\ (p => Told(in2, late, d.handle))
         \/ ~Asks(out, 1, "PY", d.handle) /\ ~Asks(out, 1, "SP", d.handle) /\ q = p
  PROVE  InStep(d, q, Tail(out), in2, late)
<1> DEFINE u == Tail(out)
           h == d.handle
<1>1. /\ \A k \in DOMAIN u : k + 1 \in DOMAIN out /\ u[k] = out[k + 1]
      /\ \A k \in DOMAIN out : k # 1 => k - 1 \in DOMAIN u /\ u[k - 1] = out[k]
      /\ DOMAIN u \subseteq Int /\ DOMAIN out \subseteq Int
      /\ \A k \in DOMAIN out : k >= 1
  <2>1. out \in Seq(Cmds) /\ u \in Seq(Cmds)
    BY TailFacts
  <2>2. DOMAIN out = 1..Len(out) /\ DOMAIN u = 1..Len(u)
    BY <2>1, LenProperties
  <2> HIDE DEF u
  <2>3. DOMAIN u \subseteq Int /\ DOMAIN out \subseteq Int /\ \A k \in DOMAIN out : k >= 1
    BY <2>2
  <2> QED BY <2>3, TailFacts DEF u
<1> HIDE DEF u, h
<1>2. \A k, c : Asks(u, k, c, h) => k \in Int /\ Asks(out, k + 1, c, h)
  BY <1>1 DEF Asks
<1>3. \A k, c : Asks(out, k, c, h) => k \in Int /\ k >= 1 /\ (k = 1 \/ Asks(u, k - 1, c, h))
  BY <1>1 DEF Asks
<1>0. ~(Asks(out, 1, "PY", h) /\ Asks(out, 1, "SP", h))
  BY DEF Asks
<1>4. WillPlay(h, p, out) => WillPlay(h, q, u) \/ Told(in2, late, h)
  <2>1. CASE p /\ \A j : ~Asks(out, j, "SP", h)
    <3>1. q /\ \A j : ~Asks(u, j, "SP", h)
      BY <1>2, <2>1 DEF h
    <3> QED BY <3>1 DEF WillPlay, Asks
  <2>2. ASSUME NEW k, Asks(out, k, "PY", h), \A j : Asks(out, j, "SP", h) => j < k
        PROVE  WillPlay(h, q, u)
    <3>1. CASE k = 1
      <4>1. \A j : ~Asks(u, j, "SP", h)
        BY <1>2, <1>3, <2>2, <3>1
      <4>2. q
        BY <1>0, <2>2, <3>1 DEF h
      <4> QED BY <4>1, <4>2 DEF WillPlay, Asks
    <3>2. CASE k # 1
      <4>1. Asks(u, k - 1, "PY", h) /\ \A j : Asks(u, j, "SP", h) => j < k - 1
        BY <1>2, <1>3, <2>2, <3>2
      <4> QED BY <4>1 DEF WillPlay, Asks
    <3> QED BY <3>1, <3>2
  <2> QED BY <2>1, <2>2 DEF WillPlay, Asks
<1>5. WillRest(h, p, out) => WillRest(h, q, u)
  <2>1. CASE ~p /\ \A j : ~Asks(out, j, "PY", h)
    <3>1. ~q /\ \A j : ~Asks(u, j, "PY", h)
      BY <1>2, <2>1 DEF h
    <3> QED BY <3>1 DEF WillRest, Asks
  <2>2. ASSUME NEW k, Asks(out, k, "SP", h), \A j : Asks(out, j, "PY", h) => j < k
        PROVE  WillRest(h, q, u)
    <3>1. CASE k = 1
      <4>1. \A j : ~Asks(u, j, "PY", h)
        BY <1>2, <1>3, <2>2, <3>1
      <4>2. ~q
        BY <1>0, <2>2, <3>1 DEF h
      <4> QED BY <4>1, <4>2 DEF WillRest, Asks
    <3>2. CASE k # 1
      <4>1. Asks(u, k - 1, "SP", h) /\ \A j : Asks(u, j, "PY", h) => j < k - 1
        BY <1>2, <1>3, <2>2, <3>2
      <4> QED BY <4>1 DEF WillRest, Asks
    <3> QED BY <3>1, <3>2
  <2> QED BY <2>1, <2>2 DEF WillRest, Asks
<1>6. WillEnd(h, p, out) => WillEnd(h, q, u) \/ Told(in2, late, h)
  <2> SUFFICES ASSUME NEW k, Asks(out, k, "SP", h), p \/ \E j : Asks(out, j, "PY", h) /\ j < k
               PROVE  WillEnd(h, q, u) \/ Told(in2, late, h)
    BY DEF WillEnd, Asks
  <2>1. CASE k = 1
    <3>1. p
      BY <1>3, <2>1
    <3> QED BY <1>0, <2>1, <3>1 DEF h
  <2>2. CASE k # 1
    <3>1. Asks(u, k - 1, "SP", h)
      BY <1>3, <2>2
    <3>2. ASSUME NEW j, Asks(out, j, "PY", h), j < k PROVE q \/ \E i : Asks(u, i, "PY", h) /\ i < k - 1
      <4>1. CASE j = 1
        BY <1>0, <3>2, <4>1 DEF h
      <4>2. CASE j # 1
        <5>1. Asks(u, j - 1, "PY", h) /\ j - 1 < k - 1
          BY <1>3, <3>2, <4>2
        <5> QED BY <5>1
      <4> QED BY <4>1, <4>2
    <3>3. p => q \/ Told(in2, late, h)
      BY DEF h
    <3> QED BY <3>1, <3>2, <3>3 DEF WillEnd, Asks
  <2> QED BY <2>1, <2>2
<1>7. Told(in, late, h) => Told(in2, late, h)
  BY DEF h
<1>8. d.handle = h
  BY DEF h
<1>9. InStep(d, q, u, in2, late)
  BY <1>4, <1>5, <1>6, <1>7, <1>8 DEF InStep, Follows
<1> QED BY <1>9 DEF u

(* More replies come; caed stops h of itself, and reports it.                    *)
LEMMA ToldInStep ==
  ASSUME NEW d, NEW p \in BOOLEAN, NEW q \in BOOLEAN, NEW out, NEW in, NEW in2, NEW late, NEW late2,
         InStep(d, p, out, in, late), Told(in, late, d.handle) => Told(in2, late2, d.handle),
         q = p \/ (~q /\ Told(in2, late2, d.handle))
  PROVE  InStep(d, q, out, in2, late2)
<1> DEFINE h == d.handle
<1> HIDE DEF h
<1>1. WillRest(h, p, out) => WillRest(h, q, out)
  BY DEF WillRest, h
<1>2. d.handle = h
  BY DEF h
<1> QED BY <1>1, <1>2 DEF InStep, Follows

(* What joining commands t to a stream out does to what is asked of a handle.     *)
LEMMA JoinedAsks ==
  ASSUME NEW out \in Seq(Cmds), NEW t \in Seq(Cmds)
  PROVE  /\ out \o t \in Seq(Cmds) /\ Len(out) \in Nat
         /\ \A k, c, h : Asks(out, k, c, h) => k \in Int /\ k <= Len(out) /\ Asks(out \o t, k, c, h)
         /\ \A k, c, h : Asks(t, k, c, h) => k \in Int /\ k >= 1 /\ Asks(out \o t, Len(out) + k, c, h)
         /\ \A k, c, h : Asks(out \o t, k, c, h) =>
              Asks(out, k, c, h) \/ (k \in Int /\ k > Len(out) /\ Asks(t, k - Len(out), c, h))
<1> DEFINE u == out \o t
<1>1. /\ u \in Seq(Cmds) /\ Len(out) \in Nat /\ DOMAIN out = 1..Len(out) /\ DOMAIN t = 1..Len(t)
      /\ \A k \in DOMAIN out : k \in DOMAIN u /\ u[k] = out[k]
      /\ \A k \in DOMAIN t : Len(out) + k \in DOMAIN u /\ u[Len(out) + k] = t[k]
      /\ \A k \in DOMAIN u : \/ k \in DOMAIN out /\ u[k] = out[k]
                             \/ k > Len(out) /\ k - Len(out) \in DOMAIN t /\ u[k] = t[k - Len(out)]
  BY ConcatFacts
<1>2. DOMAIN u = 1..Len(u)
  BY <1>1, LenProperties
<1> HIDE DEF u
<1>3. \A k, c, h : Asks(out, k, c, h) => k \in Int /\ k <= Len(out) /\ Asks(u, k, c, h)
  BY <1>1 DEF Asks
<1>4. \A k, c, h : Asks(t, k, c, h) => k \in Int /\ k >= 1 /\ Asks(u, Len(out) + k, c, h)
  BY <1>1 DEF Asks
<1>5. \A k, c, h : Asks(u, k, c, h) =>
        Asks(out, k, c, h) \/ (k \in Int /\ k > Len(out) /\ Asks(t, k - Len(out), c, h))
  BY <1>1, <1>2 DEF Asks
<1> QED BY <1>1, <1>3, <1>4, <1>5 DEF u

(* Commands about other handles change nothing for h.                             *)
Spares(t, h) == \A k : ~Asks(t, k, "PY", h) /\ ~Asks(t, k, "SP", h)

LEMMA SparedInStep ==
  ASSUME NEW d, NEW p \in BOOLEAN, NEW out \in Seq(Cmds), NEW t \in Seq(Cmds), NEW in, NEW late,
         InStep(d, p, out, in, late), d.handle = None \/ Spares(t, d.handle)
  PROVE  InStep(d, p, out \o t, in, late)
<1>1. CASE d.handle = None
  BY <1>1 DEF InStep
<1>2. CASE Spares(t, d.handle)
  <2> DEFINE u == out \o t
             h == d.handle
  <2>1. /\ \A k : Asks(u, k, "PY", h) <=> Asks(out, k, "PY", h)
        /\ \A k : Asks(u, k, "SP", h) <=> Asks(out, k, "SP", h)
    BY <1>2, JoinedAsks DEF Spares
  <2> HIDE DEF u, h
  <2>0. \A k, c : /\ Asks(u, k, c, h) => k \in DOMAIN u
                  /\ Asks(out, k, c, h) => k \in DOMAIN out
    BY DEF Asks
  <2>2. WillPlay(h, p, out) => WillPlay(h, p, u)
    BY <2>0, <2>1 DEF WillPlay
  <2>3. WillRest(h, p, out) => WillRest(h, p, u)
    BY <2>0, <2>1 DEF WillRest
  <2>4. WillEnd(h, p, out) => WillEnd(h, p, u)
    BY <2>0, <2>1 DEF WillEnd
  <2>5. d.handle = h
    BY DEF h
  <2>6. InStep(d, p, u, in, late)
    BY <2>2, <2>3, <2>4, <2>5 DEF InStep, Follows
  <2> QED BY <2>6 DEF u
<1> QED BY <1>1, <1>2

(* A play that joins the stream will play, and a stop that joins it will silence, *)
(* and be reported if what it stops plays by then.                               *)
LEMMA PlayJoins ==
  ASSUME NEW h \in Int, NEW p \in BOOLEAN, NEW out \in Seq(Cmds), NEW t \in Seq(Cmds), t = <<Cmd("PP", h), Cmd("PY", h)>>
  PROVE  WillPlay(h, p, out \o t)
<1> DEFINE u == out \o t
<1>1. DOMAIN t = 1..2 /\ t[1].cmd = "PP" /\ t[2].cmd = "PY" /\ t[2].arg = h
  BY DEF Cmd
<1>2. Asks(t, 2, "PY", h) /\ \A k : ~Asks(t, k, "SP", h)
  BY <1>1 DEF Asks
<1>3. /\ Asks(u, Len(out) + 2, "PY", h) /\ Len(out) \in Nat
      /\ \A k : Asks(u, k, "SP", h) => Asks(out, k, "SP", h)
      /\ \A k : Asks(out, k, "SP", h) => k \in Int /\ k <= Len(out)
  <2>1. /\ Len(out) \in Nat /\ Asks(u, Len(out) + 2, "PY", h)
    BY <1>2, JoinedAsks
  <2>2. \A k, c : Asks(out, k, c, h) => k \in Int /\ k <= Len(out)
    BY JoinedAsks
  <2>3. \A k : Asks(u, k, "SP", h) => Asks(out, k, "SP", h)
    BY <1>2, JoinedAsks
  <2> QED BY <2>1, <2>2, <2>3
<1> HIDE DEF u
<1>4. \A k : Asks(u, k, "SP", h) => k < Len(out) + 2
  BY <1>3
<1>5. WillPlay(h, p, u)
  BY <1>3, <1>4 DEF WillPlay, Asks
<1> QED BY <1>5 DEF u

LEMMA StopJoins ==
  ASSUME NEW h \in Int, NEW p \in BOOLEAN, NEW out \in Seq(Cmds), NEW t \in Seq(Cmds), t = <<Cmd("SP", h)>>
  PROVE  /\ WillRest(h, p, out \o t)
         /\ WillPlay(h, p, out) \/ WillEnd(h, p, out) => WillEnd(h, p, out \o t)
<1> DEFINE u == out \o t
           n == Len(out) + 1
<1>1. DOMAIN t = 1..1 /\ t[1].cmd = "SP" /\ t[1].arg = h
  BY DEF Cmd
<1>2. Asks(t, 1, "SP", h) /\ \A k : ~Asks(t, k, "PY", h)
  BY <1>1 DEF Asks
<1>3. /\ Asks(u, n, "SP", h) /\ n \in Int
      /\ \A k : Asks(u, k, "PY", h) => k < n
      /\ \A k, c : Asks(out, k, c, h) => k \in Int /\ k < n /\ Asks(u, k, c, h)
  <2>1. Len(out) \in Nat /\ Asks(u, n, "SP", h)
    BY <1>2, JoinedAsks
  <2>2. \A k, c : Asks(out, k, c, h) => k \in Int /\ k <= Len(out) /\ Asks(u, k, c, h)
    BY JoinedAsks
  <2>3. \A k : Asks(u, k, "PY", h) => Asks(out, k, "PY", h)
    BY <1>2, JoinedAsks
  <2> HIDE DEF u
  <2> QED BY <2>1, <2>2, <2>3
<1> HIDE DEF u, n
<1>4. WillRest(h, p, u)
  BY <1>3 DEF WillRest, Asks
<1>5. WillPlay(h, p, out) => WillEnd(h, p, u)
  BY <1>3 DEF WillPlay, WillEnd, Asks
<1>6. WillEnd(h, p, out) => WillEnd(h, p, u)
  BY <1>3 DEF WillEnd, Asks
<1> QED BY <1>4, <1>5, <1>6 DEF u

--------------------------------------------------------------------------------
(* The steps of the clients keep the decks in step.                              *)

PlaysNow(h) == h # None /\ playing[play_handle[h].iface]
DeckInStep(b) == InStep(deck[b], PlaysNow(deck[b].handle), to_caed[Client(b)], to_client[Client(b)],
                        delayed[Client(b)])
DecksInStep == \A b \in Buttons : DeckInStep(b)
AgreeInv == PanelInv /\ DecksInStep

LEMMA NoDeckInStep ==
  ASSUME NEW d, NEW p, NEW out, NEW in, NEW late, d.handle = None, d.state \notin {"Playing", "Stopping"}
  PROVE  InStep(d, p, out, in, late)
BY DEF InStep

LEMMA StopAsked ==
  ASSUME NEW x, NEW d, NEW p \in BOOLEAN, NEW out \in Seq(Cmds), NEW in, NEW late,
         InStep(x, p, out, in, late), x.state \in {"Playing", "Stopping"}, x.handle \in Int,
         d.state = "Stopping", d.handle = x.handle,
         NEW t \in Seq(Cmds), t = <<Cmd("SP", x.handle)>>
  PROVE  InStep(d, p, out \o t, in, late)
<1> DEFINE h == x.handle
           u == out \o t
<1>1. h # None /\ (Told(in, late, h) \/ WillPlay(h, p, out) \/ WillEnd(h, p, out))
  BY DEF InStep, Follows
<1>2. WillPlay(h, p, out) \/ WillEnd(h, p, out) => WillEnd(h, p, u)
  BY StopJoins
<1>3. d.handle = h
  OBVIOUS
<1> HIDE DEF h, u
<1>4. InStep(d, p, u, in, late)
  BY <1>1, <1>2, <1>3 DEF InStep, Follows
<1> QED BY <1>4 DEF u

(* A click, an RML or the end of a fade, on its own deck                         *)
LEMMA ActedInStep ==
  ASSUME PanelTypeOK, NEW b \in Buttons, DeckSane(deck[b]), NEW p \in BOOLEAN, NEW in, NEW late,
         InStep(deck[b], p, to_caed[Client(b)], in, late),
         \/ PlayButton(b) \/ PauseButton(b) \/ StopTimer(b)
         \/ \E fade \in BOOLEAN : StopButton(b, fade)
  PROVE  /\ InStep(deck'[b], p, to_caed'[Client(b)], in, late)
         /\ deck'[b].handle = deck[b].handle \/ deck'[b] = NoDeck
<1> DEFINE x == deck[b]
           ch == Client(b)
           out == to_caed[ch]
<1>0. /\ x \in Decks /\ ch \in Conns /\ to_caed \in [Conns -> Seq(Cmds)] /\ out \in Seq(Cmds) /\ out \o <<>> = out
      /\ deck \in [Buttons -> Decks] /\ x.handle \in Int
  <2>1. deck \in [Buttons -> Decks] /\ ch \in Conns /\ to_caed \in [Conns -> Seq(Cmds)]
    BY DEF PanelTypeOK, Buttons, Client, Cmds
  <2>2. out \o <<>> = out
    BY <2>1, ConcatEmptySeq
  <2>3. x.handle \in Int
    BY <2>1 DEF Decks, Handles, None
  <2> QED BY <2>1, <2>2, <2>3
<1>01. x = deck[b] /\ ch = Client(b) /\ DeckSane(x) /\ InStep(x, p, out, in, late)
  OBVIOUS
<1> HIDE DEF x, ch, out
<1>02. out = to_caed[ch]
  BY DEF out
<1>1. ASSUME NEW d, NEW t, deck' = [deck EXCEPT ![b] = d], Send(ch, t), InStep(d, p, out \o t, in, late),
             d.handle = x.handle \/ d = NoDeck
      PROVE  /\ InStep(deck'[b], p, to_caed'[Client(b)], in, late)
             /\ deck'[b].handle = deck[b].handle \/ deck'[b] = NoDeck
  <2>1. deck'[b] = d
    BY <1>0, <1>1
  <2>2. to_caed'[ch] = out \o t
    BY <1>0, <1>1, <1>02 DEF Send
  <2> QED BY <1>1, <1>01, <2>1, <2>2
<1>2. ASSUME NEW d, deck' = [deck EXCEPT ![b] = d], to_caed' = to_caed, InStep(d, p, out, in, late),
             d.handle = x.handle \/ d = NoDeck
      PROVE  /\ InStep(deck'[b], p, to_caed'[Client(b)], in, late)
             /\ deck'[b].handle = deck[b].handle \/ deck'[b] = NoDeck
  <2>1. deck'[b] = d
    BY <1>0, <1>2
  <2> QED BY <1>2, <1>01, <1>02, <2>1
<1>3. ASSUME NEW t, deck' = [deck EXCEPT ![b] = NoDeck], Send(ch, t)
      PROVE  /\ InStep(deck'[b], p, to_caed'[Client(b)], in, late)
             /\ deck'[b].handle = deck[b].handle \/ deck'[b] = NoDeck
  <2>1. InStep(NoDeck, p, out \o t, in, late)
    BY NoDeckInStep DEF NoDeck
  <2> QED BY <1>1, <1>3, <2>1
<1>4. ASSUME NEW c \in {"PP", "PY", "SP"} PROVE Cmd(c, x.handle) \in Cmds
  BY <1>0 DEF Cmd, Cmds, Commands
<1>5. CASE PlayButton(b)
  <2>1. deck' = [deck EXCEPT ![b] = Played(x)] /\ Send(ch, PlayCmds(x))
    BY <1>5, <1>01 DEF PlayButton
  <2>2. CASE x.handle = None
    <3>1. Played(x) = x /\ PlayCmds(x) = <<>>
      BY <2>2 DEF Played, PlayCmds
    <3>2. InStep(x, p, out \o <<>>, in, late)
      BY <1>0, <1>01
    <3> QED BY <1>1, <2>1, <3>1, <3>2
  <2>3. CASE x.handle # None
    <3> DEFINE d == Played(x)
               t == PlayCmds(x)
    <3>1. d.state = "Playing" /\ d.handle = x.handle
      BY <1>0, <2>3 DEF Played, Decks
    <3>2. t = <<Cmd("PP", x.handle), Cmd("PY", x.handle)>> /\ t \in Seq(Cmds)
      BY <1>4, <2>3 DEF PlayCmds
    <3> HIDE DEF d, t
    <3>3. WillPlay(x.handle, p, out \o t)
      BY <1>0, <3>2, PlayJoins
    <3>4. InStep(d, p, out \o t, in, late)
      BY <2>3, <3>1, <3>3 DEF InStep, Follows
    <3>5. deck' = [deck EXCEPT ![b] = d] /\ Send(ch, t)
      BY <2>1 DEF d, t
    <3> QED BY <1>1, <3>1, <3>4, <3>5
  <2> QED BY <2>2, <2>3
<1>6. CASE PauseButton(b)
  <2> DEFINE d == [x EXCEPT !.pause_called = TRUE, !.state = "Paused"]
             t == <<Cmd("SP", x.handle)>>
  <2>1. d.handle = x.handle /\ d.state = "Paused"
    BY <1>0 DEF Decks
  <2>2. deck' = [deck EXCEPT ![b] = d] /\ Send(ch, t)
    BY <1>6, <1>01 DEF PauseButton
  <2>3. t = <<Cmd("SP", x.handle)>> /\ t \in Seq(Cmds)
    BY <1>4
  <2> HIDE DEF d, t
  <2>4. WillRest(x.handle, p, out \o t)
    BY <1>0, <2>3, StopJoins
  <2>5. InStep(d, p, out \o t, in, late)
    BY <2>1, <2>4 DEF InStep, Follows
  <2> QED BY <1>1, <2>1, <2>2, <2>5
<1>7. ASSUME NEW y \in Decks, y.handle = x.handle, y.pause_called = x.pause_called,
             x.state \in {"Playing", "Stopping"}
      PROVE  /\ StoppedBy(y).handle = x.handle /\ StoppedBy(y).state = "Stopping"
             /\ InStep(StoppedBy(y), p, out \o StopCmds(y), in, late) /\ StopCmds(y) = <<Cmd("SP", x.handle)>>
  <2>1. ~y.pause_called
    BY <1>7, <1>01 DEF DeckSane
  <2> DEFINE d == StoppedBy(y)
             t == StopCmds(y)
  <2>2. d.state = "Stopping" /\ d.handle = x.handle /\ t = <<Cmd("SP", x.handle)>>
    BY <1>7, <2>1 DEF StoppedBy, StopCmds, Decks
  <2>3. t \in Seq(Cmds)
    BY <1>4, <2>2
  <2> HIDE DEF d, t
  <2>4. InStep(d, p, out \o t, in, late)
    BY <1>0, <1>01, <1>7, <2>2, <2>3, StopAsked
  <2> QED BY <2>2, <2>4 DEF d, t
<1>8. CASE StopTimer(b)
  <2> DEFINE y == [x EXCEPT !.stop_timer = FALSE]
  <2>1. y \in Decks /\ y.handle = x.handle /\ y.state = x.state /\ y.pause_called = x.pause_called
    BY <1>0 DEF Decks
  <2>2. \/ /\ x.state \in {"Playing", "Stopping"} /\ deck' = [deck EXCEPT ![b] = StoppedBy(y)]
           /\ Send(ch, StopCmds(y))
        \/ /\ x.state \notin {"Playing", "Stopping"} /\ deck' = [deck EXCEPT ![b] = y] /\ to_caed' = to_caed
    BY <1>8, <2>1, <1>01 DEF StopTimer
  <2> HIDE DEF y
  <2>3. CASE /\ x.state \in {"Playing", "Stopping"} /\ deck' = [deck EXCEPT ![b] = StoppedBy(y)]
             /\ Send(ch, StopCmds(y))
    BY <1>1, <1>7, <2>1, <2>3
  <2>4. CASE x.state \notin {"Playing", "Stopping"} /\ deck' = [deck EXCEPT ![b] = y] /\ to_caed' = to_caed
    <3>1. InStep(y, p, out, in, late)
      BY <1>01, <2>1, <2>4 DEF InStep, Follows
    <3> QED BY <1>2, <2>1, <2>4, <3>1
  <2> QED BY <2>2, <2>3, <2>4
<1>9. ASSUME NEW fade \in BOOLEAN, StopButton(b, fade)
      PROVE  /\ InStep(deck'[b], p, to_caed'[Client(b)], in, late)
             /\ deck'[b].handle = deck[b].handle \/ deck'[b] = NoDeck
  <2>1. CASE /\ x.state = "Playing" /\ to_caed' = to_caed
             /\ deck' = [deck EXCEPT ![b].state = "Stopping", ![b].stop_called = TRUE, ![b].stop_timer = TRUE]
    <3> DEFINE d == [x EXCEPT !.state = "Stopping", !.stop_called = TRUE, !.stop_timer = TRUE]
    <3>1. d.handle = x.handle /\ d.state = "Stopping" /\ d.stop_timer = TRUE
      BY <1>0 DEF Decks
    <3>2. deck' = [deck EXCEPT ![b] = d]
      BY <2>1, <1>01
    <3> HIDE DEF d
    <3>3. InStep(d, p, out, in, late)
      BY <1>01, <2>1, <3>1 DEF InStep, Follows
    <3> QED BY <1>2, <2>1, <3>1, <3>2, <3>3
  <2>2. CASE /\ x.state = "Playing" /\ deck' = [deck EXCEPT ![b] = StoppedBy(x)] /\ Send(ch, StopCmds(x))
    BY <1>0, <1>1, <1>7, <2>2
  <2>3. CASE /\ x.state = "Stopping" /\ Send(ch, StopCmds(x))
             /\ deck' = [deck EXCEPT ![b] = [StoppedBy(x) EXCEPT !.stop_timer = FALSE]]
    <3> DEFINE y == [x EXCEPT !.stop_timer = FALSE]
               d == [StoppedBy(x) EXCEPT !.stop_timer = FALSE]
               t == StopCmds(x)
    <3>1. ~x.pause_called
      BY <1>01, <2>3 DEF DeckSane
    <3>2. d.handle = x.handle /\ d.state = "Stopping" /\ t = <<Cmd("SP", x.handle)>>
      BY <1>0, <3>1 DEF StoppedBy, StopCmds, Decks
    <3>3. t \in Seq(Cmds)
      BY <1>4, <3>2
    <3>4. deck' = [deck EXCEPT ![b] = d] /\ Send(ch, t)
      BY <2>3
    <3> HIDE DEF d, t
    <3>5. InStep(d, p, out \o t, in, late)
      BY <1>0, <1>01, <2>3, <3>2, <3>3, StopAsked
    <3> QED BY <1>1, <3>2, <3>4, <3>5
  <2>4. CASE deck' = [deck EXCEPT ![b] = NoDeck] /\ \E t : Send(ch, t)
    BY <1>3, <2>4
  <2> QED BY <1>9, <2>1, <2>2, <2>3, <2>4, <1>01 DEF StopButton
<1> QED BY <1>5, <1>6, <1>8, <1>9

(* A step of one client, of which caed knows nothing yet                         *)
LEMMA ClientInStep ==
  ASSUME AgreeInv, UNCHANGED <<playing, play_handle>>, NEW ch \in Conns,
         \A b \in Buttons : Client(b) # ch => deck'[b] = deck[b],
         \A c \in Conns : c # ch => /\ to_caed'[c] = to_caed[c] /\ to_client'[c] = to_client[c]
                                    /\ delayed'[c] = delayed[c],
         \A b \in Buttons : Client(b) = ch =>
           InStep(deck'[b], PlaysNow(deck'[b].handle), to_caed'[ch], to_client'[ch], delayed'[ch])
  PROVE  DecksInStep'
<1> SUFFICES ASSUME NEW b \in Buttons PROVE DeckInStep(b)'
  BY DEF DecksInStep
<1>0. Client(b) \in Conns
  BY DEF Client, Buttons
<1>1. \A h : PlaysNow(h)' = PlaysNow(h)
  BY DEF PlaysNow
<1>2. PlaysNow(deck[b].handle)' = PlaysNow(deck'[b].handle)
  BY DEF PlaysNow
<1>3. CASE Client(b) = ch
  BY <1>2, <1>3 DEF DeckInStep
<1>4. CASE Client(b) # ch
  <2>1. DeckInStep(b)
    BY DEF AgreeInv, DecksInStep
  <2> QED BY <1>0, <1>2, <1>4, <2>1 DEF DeckInStep
<1> QED BY <1>3, <1>4

(* A deck the client does not act on: the commands are about another handle.     *)
LEMMA OthersInStep ==
  ASSUME AgreeInv, NEW b \in Buttons, Client(b) \in alive, NEW d, NEW t, Act(b, d, t),
         NEW c \in Buttons, c # b, Client(c) = Client(b), NEW in, NEW late,
         Told(to_client[Client(b)], delayed[Client(b)], deck[c].handle) => Told(in, late, deck[c].handle)
  PROVE  InStep(deck'[c], PlaysNow(deck'[c].handle), to_caed'[Client(b)], in, late)
<1> DEFINE ch == Client(b)
           out == to_caed[ch]
           x == deck[c]
           p == PlaysNow(x.handle)
<1>0. /\ deck \in [Buttons -> Decks] /\ to_caed \in [Conns -> Seq(Cmds)] /\ ch \in Conns /\ out \in Seq(Cmds)
  BY DEF AgreeInv, PanelInv, TypesInv, PanelTypeOK, Cmds
<1>1. t \in Seq(Cmds) /\ to_caed'[ch] = out \o t /\ deck'[c] = x
      /\ \A k \in DOMAIN t : t[k].arg = deck[b].handle
  BY <1>0 DEF Act, Batch
<1>2. x.handle = None \/ x.handle # deck[b].handle
  <2>1. Good(deck, loading[ch], to_caed[ch], to_client[ch], LiveOf(ch), ch)
    BY DEF AgreeInv, PanelInv, StreamInv, ClientInv
  <2> QED BY <2>1 DEF Good
<1>3. x.handle = None \/ Spares(t, x.handle)
  BY <1>1, <1>2 DEF Spares, Asks
<1>4. InStep(x, p, out, to_client[ch], delayed[ch]) /\ p \in BOOLEAN
  BY DEF AgreeInv, DecksInStep, DeckInStep, PlaysNow
<1>5. Told(to_client[ch], delayed[ch], x.handle) => Told(in, late, x.handle)
  OBVIOUS
<1> HIDE DEF ch, out, x, p
<1>6. InStep(x, p, out \o t, to_client[ch], delayed[ch])
  BY <1>0, <1>1, <1>3, <1>4, SparedInStep
<1>7. InStep(x, p, out \o t, in, late)
  BY <1>4, <1>5, <1>6, ToldInStep
<1> QED BY <1>1, <1>7 DEF p, ch

LEMMA UserInStep ==
  ASSUME AgreeInv, NEW b \in Buttons,
         \/ PlayButton(b) \/ PauseButton(b) \/ StopTimer(b)
         \/ \E fade \in BOOLEAN : StopButton(b, fade)
  PROVE  DecksInStep'
<1> DEFINE ch == Client(b)
<1>1. /\ ch \in alive /\ UNCHANGED <<caedVars, alive, loading, delayed, draining, to_client>>
  BY DEF PlayButton, PauseButton, StopTimer, StopButton, User, Idle
<1>2. ch \in Conns /\ DeckSane(deck[b]) /\ PanelTypeOK /\ deck \in [Buttons -> Decks]
      /\ to_caed \in [Conns -> Seq(Cmds)]
  BY <1>1 DEF AgreeInv, PanelInv, TypesInv, PanelTypeOK, StreamInv, ClientInv, Good, Cmds
<1>3. PICK d, t : Act(b, d, t)
  BY <1>2, DeckActs DEF Acts
<1>4. /\ \A e \in Buttons : Client(e) # ch => deck'[e] = deck[e]
      /\ \A c \in Conns : c # ch => to_caed'[c] = to_caed[c]
  BY <1>2, <1>3 DEF Act
<1>5. InStep(deck'[b], PlaysNow(deck'[b].handle), to_caed'[ch], to_client[ch], delayed[ch])
  <2>1. InStep(deck[b], PlaysNow(deck[b].handle), to_caed[ch], to_client[ch], delayed[ch])
        /\ PlaysNow(deck[b].handle) \in BOOLEAN
    BY DEF AgreeInv, DecksInStep, DeckInStep, PlaysNow
  <2>2. /\ InStep(deck'[b], PlaysNow(deck[b].handle), to_caed'[ch], to_client[ch], delayed[ch])
        /\ deck'[b].handle = deck[b].handle \/ deck'[b] = NoDeck
    BY <1>2, <2>1, ActedInStep
  <2>3. CASE deck'[b] = NoDeck
    BY <2>3, NoDeckInStep DEF NoDeck
  <2> QED BY <2>2, <2>3
<1>6. ASSUME NEW c \in Buttons, Client(c) = ch
      PROVE  InStep(deck'[c], PlaysNow(deck'[c].handle), to_caed'[ch], to_client[ch], delayed[ch])
  BY <1>1, <1>3, <1>5, <1>6, OthersInStep
<1>7. UNCHANGED <<playing, play_handle, to_client, delayed>>
  BY <1>1 DEF caedVars, vars, streamVars, tableVars
<1> HIDE DEF ch
<1> QED BY <1>2, <1>4, <1>6, <1>7, ClientInStep

(* A report about another handle is read, or a reply that is no stop.            *)
LEMMA ToldTaken ==
  ASSUME NEW q \in Seq(Replies), q # <<>>, NEW late, NEW h, Head(q).arg # h \/ Head(q).cmd # "SP"
  PROVE  /\ Told(q, late, h) => Told(Tail(q), late, h)
         /\ Told(late, q, h) => Told(late, Tail(q), h)
<1> DEFINE u == Tail(q)
<1>1. /\ \A k \in DOMAIN q : k # 1 => k - 1 \in DOMAIN u /\ u[k - 1] = q[k]
      /\ Head(q) = q[1]
  BY TailFacts
<1> HIDE DEF u
<1>2. \A k \in DOMAIN q : Asks(q, k, "SP", h) => \E j \in DOMAIN u : Asks(u, j, "SP", h)
  <2> SUFFICES ASSUME NEW k \in DOMAIN q, Asks(q, k, "SP", h) PROVE \E j \in DOMAIN u : Asks(u, j, "SP", h)
    OBVIOUS
  <2>1. k # 1
    BY <1>1 DEF Asks
  <2>2. k - 1 \in DOMAIN u /\ Asks(u, k - 1, "SP", h)
    BY <1>1, <2>1 DEF Asks
  <2> QED BY <2>2
<1>3. /\ Told(q, late, h) => Told(u, late, h)
      /\ Told(late, q, h) => Told(late, u, h)
  BY <1>2 DEF Told
<1> QED BY <1>3 DEF u

LEMMA DispatchInStep ==
  ASSUME AgreeInv, NEW ch \in Conns, Drain(ch) \/ readyData(ch)
  PROVE  DecksInStep'
<1>0. /\ to_client \in [Conns -> Seq(Replies)] /\ delayed \in [Conns -> Seq(Replies)]
      /\ to_client[ch] \in Seq(Replies) /\ delayed[ch] \in Seq(Replies)
      /\ deck \in [Buttons -> Decks] /\ to_caed \in [Conns -> Seq(Cmds)] /\ PanelTypeOK
      /\ \A k \in DOMAIN to_client[ch] : Answer(to_client[ch][k], ch)
      /\ \A k \in DOMAIN delayed[ch] : Answer(delayed[ch][k], ch)
  BY DEF AgreeInv, PanelInv, TypesInv, PanelTypeOK, Carried, Cmds
<1>1. /\ ch \in alive /\ UNCHANGED <<playing, play_handle>>
      /\ \A c \in Conns : c # ch => to_client'[c] = to_client[c] /\ delayed'[c] = delayed[c]
  BY <1>0 DEF Drain, readyData, Idle, caedVars, vars, streamVars, tableVars
<1>2. PICK r : /\ DispatchCommand(r) /\ r.to = ch
               /\ \A h : r.arg # h => (Told(to_client[ch], delayed[ch], h) => Told(to_client'[ch], delayed'[ch], h))
  <2>1. CASE Drain(ch)
    <3>1. /\ delayed[ch] # <<>> /\ DispatchCommand(Head(delayed[ch]))
          /\ delayed'[ch] = Tail(delayed[ch]) /\ to_client'[ch] = to_client[ch]
      BY <1>0, <2>1 DEF Drain
    <3>2. Head(delayed[ch]).to = ch
      BY <1>0, <3>1, TailAnswers DEF Answer
    <3>3. \A h : Head(delayed[ch]).arg # h =>
                 (Told(to_client[ch], delayed[ch], h) => Told(to_client[ch], Tail(delayed[ch]), h))
      BY <1>0, <3>1, ToldTaken
    <3> QED BY <3>1, <3>2, <3>3
  <2>2. CASE readyData(ch)
    <3>1. /\ to_client[ch] # <<>> /\ DispatchCommand(Head(to_client[ch]))
          /\ to_client'[ch] = Tail(to_client[ch]) /\ delayed'[ch] = delayed[ch]
      BY <1>0, <2>2 DEF readyData
    <3>2. Head(to_client[ch]).to = ch
      BY <1>0, <3>1, TailAnswers DEF Answer
    <3>3. \A h : Head(to_client[ch]).arg # h =>
                 (Told(to_client[ch], delayed[ch], h) => Told(Tail(to_client[ch]), delayed[ch], h))
      BY <1>0, <3>1, ToldTaken
    <3> QED BY <3>1, <3>2, <3>3
  <2> QED BY <2>1, <2>2
<1> DEFINE in == to_client'[ch]
           late == delayed'[ch]
<1>3. Good(deck, loading[ch], to_caed[ch], to_client[ch], LiveOf(ch), ch)
  BY <1>1 DEF AgreeInv, PanelInv, StreamInv, ClientInv
<1>4. ASSUME NEW c \in Buttons
      PROVE  /\ InStep(deck[c], PlaysNow(deck[c].handle), to_caed[Client(c)], to_client[Client(c)], delayed[Client(c)])
             /\ PlaysNow(deck[c].handle) \in BOOLEAN
  BY DEF AgreeInv, DecksInStep, DeckInStep, PlaysNow
<1>5. CASE \E b \in Buttons : Stops(b, r) /\ playStoppedData(b)
  <2>1. PICK b \in Buttons : Stops(b, r) /\ playStoppedData(b)
    BY <1>5
  <2>2. Client(b) = ch /\ deck[b].handle = r.arg /\ deck[b].state # "none" /\ DeckSane(deck[b])
    BY <1>2, <1>3, <2>1 DEF Stops, Good
  <2>3. PICK d, t : Act(b, d, t)
    BY <1>0, <2>1, <2>2, DeckActs DEF Acts
  <2>4. /\ \A e \in Buttons : Client(e) # ch => deck'[e] = deck[e]
        /\ \A c \in Conns : c # ch => to_caed'[c] = to_caed[c]
    BY <1>0, <2>2, <2>3 DEF Act
  <2>5. InStep(deck'[b], PlaysNow(deck'[b].handle), to_caed'[ch], in, late)
    <3> DEFINE x == deck[b]
               out == to_caed[ch]
    <3>0. x \in Decks /\ out \in Seq(Cmds) /\ deck'[b] = AfterStop(x) /\ to_caed'[ch] = out \o AfterStopCmds(x)
      BY <1>0, <2>1, <2>2 DEF playStoppedData, Send
    <3>1. CASE ~x.pause_called
      <4>1. deck'[b] = NoDeck
        BY <3>0, <3>1 DEF AfterStop
      <4> QED BY <4>1, NoDeckInStep DEF NoDeck
    <3>2. CASE x.pause_called
      <4>1. deck'[b].state = "Paused" /\ deck'[b].handle = x.handle
        BY <3>0, <3>2 DEF AfterStop, Decks
      <4>2. to_caed'[ch] = out
        <5>1. AfterStopCmds(x) = <<>>
          BY <3>2 DEF AfterStopCmds
        <5> QED BY <3>0, <5>1, ConcatEmptySeq
      <4>3. CASE x.handle = None
        BY <4>1, <4>3, NoDeckInStep
      <4>4. CASE x.handle # None
        <5>1. x.state = "Paused"
          BY <2>2, <3>0, <3>2, <4>4 DEF DeckSane, Decks, DeckStates
        <5>2. WillRest(x.handle, PlaysNow(x.handle), out)
          BY <1>4, <2>2, <4>4, <5>1 DEF InStep, Follows
        <5> HIDE DEF x, out
        <5> QED BY <4>1, <4>2, <4>4, <5>2 DEF InStep, Follows
      <4> QED BY <4>3, <4>4
    <3> QED BY <3>1, <3>2
  <2>6. ASSUME NEW c \in Buttons, Client(c) = ch
        PROVE  InStep(deck'[c], PlaysNow(deck'[c].handle), to_caed'[ch], in, late)
    <3>1. CASE c = b
      BY <2>5, <3>1
    <3>2. CASE c # b
      <4>1. Told(to_client[ch], delayed[ch], deck[c].handle) => Told(in, late, deck[c].handle) \/ deck[c].handle = None
        BY <1>2, <1>3, <2>2, <2>6, <3>2 DEF Good
      <4>2. CASE deck[c].handle = None
        <5>1. deck'[c] = deck[c]
          BY <1>0, <2>3, <3>2 DEF Act
        <5>2. deck[c].state \notin {"Playing", "Stopping"}
          BY <1>4, <4>2 DEF InStep
        <5> QED BY <4>2, <5>1, <5>2, NoDeckInStep
      <4>3. CASE deck[c].handle # None
        BY <1>1, <2>2, <2>3, <2>6, <3>2, <4>1, <4>3, OthersInStep
      <4> QED BY <4>2, <4>3
    <3> QED BY <3>1, <3>2
  <2> HIDE DEF in, late
  <2>7. \A c \in Buttons : Client(c) = ch =>
          InStep(deck'[c], PlaysNow(deck'[c].handle), to_caed'[ch], to_client'[ch], delayed'[ch])
    BY <2>6 DEF in, late
  <2> QED BY <1>1, <2>4, <2>7, ClientInStep
<1>6. CASE (\A b \in Buttons : ~Stops(b, r)) /\ UNCHANGED <<deck, to_caed>>
  <2>1. ASSUME NEW c \in Buttons, Client(c) = ch
        PROVE  InStep(deck'[c], PlaysNow(deck'[c].handle), to_caed'[ch], to_client'[ch], delayed'[ch])
    <3>1. CASE deck[c].handle = None
      <4>1. deck[c].state \notin {"Playing", "Stopping"}
        BY <1>4, <3>1 DEF InStep
      <4> QED BY <1>6, <3>1, <4>1, NoDeckInStep
    <3>2. CASE deck[c].handle # None
      <4>1. deck[c].state # "none"
        BY <1>3, <2>1, <3>2 DEF Good, DeckSane
      <4>2. deck[c].handle # r.arg
        BY <1>2, <1>6, <2>1, <4>1 DEF Stops
      <4>3. Told(to_client[ch], delayed[ch], deck[c].handle) => Told(in, late, deck[c].handle)
        BY <1>2, <4>2
      <4>4. InStep(deck[c], PlaysNow(deck[c].handle), to_caed[ch], to_client[ch], delayed[ch])
            /\ PlaysNow(deck[c].handle) \in BOOLEAN
        BY <1>4, <2>1
      <4> HIDE DEF in, late
      <4>5. InStep(deck[c], PlaysNow(deck[c].handle), to_caed[ch], in, late)
        BY <4>3, <4>4, ToldInStep
      <4> QED BY <1>6, <4>5 DEF in, late
    <3> QED BY <3>1, <3>2
  <2> QED BY <1>1, <1>6, <2>1, ClientInStep
<1> QED BY <1>2, <1>5, <1>6 DEF DispatchCommand

(* A load is asked for: its deck has no handle yet.                              *)
LEMMA LoadStartsInStep ==
  ASSUME AgreeInv, NEW b \in Buttons, PlayAudio(b)
  PROVE  DecksInStep'
<1> DEFINE ch == Client(b)
           out == to_caed[ch]
<1>1. PICK card \in Cards :
        /\ ch \in alive /\ deck' = [deck EXCEPT ![b] = NewDeck]
        /\ to_caed' = [to_caed EXCEPT ![ch] = out \o <<Cmd("LP", card)>>]
        /\ UNCHANGED <<caedVars, delayed, to_client>>
  BY DEF PlayAudio, User, Idle, Send
<1>2. /\ ch \in Conns /\ deck \in [Buttons -> Decks] /\ to_caed \in [Conns -> Seq(Cmds)] /\ out \in Seq(Cmds)
  BY <1>1 DEF AgreeInv, PanelInv, TypesInv, PanelTypeOK, Cmds
<1> DEFINE t == <<Cmd("LP", card)>>
<1>3. t \in Seq(Cmds) /\ DOMAIN t = 1..1 /\ t[1].cmd = "LP"
  <2>1. card \in Int
    BY DEF Cards
  <2>2. Cmd("LP", card) \in Cmds /\ Cmd("LP", card).cmd = "LP"
    BY <2>1 DEF Cmd, Cmds, Commands
  <2> QED BY <2>2
<1>4. \A h : Spares(t, h)
  BY <1>3 DEF Spares, Asks
<1>5. /\ to_caed'[ch] = out \o t /\ deck'[b] = NewDeck
      /\ \A c \in Buttons : c # b => deck'[c] = deck[c]
      /\ \A c \in Conns : c # ch => to_caed'[c] = to_caed[c]
  BY <1>1, <1>2
<1> HIDE DEF t
<1>6. ASSUME NEW c \in Buttons, Client(c) = ch
      PROVE  InStep(deck'[c], PlaysNow(deck'[c].handle), to_caed'[ch], to_client[ch], delayed[ch])
  <2>1. CASE c = b
    BY <1>5, <2>1, NoDeckInStep DEF NewDeck, NoDeck
  <2>2. CASE c # b
    <3>1. InStep(deck[c], PlaysNow(deck[c].handle), out, to_client[ch], delayed[ch])
          /\ PlaysNow(deck[c].handle) \in BOOLEAN
      BY <1>6 DEF AgreeInv, DecksInStep, DeckInStep, PlaysNow
    <3> HIDE DEF ch, out
    <3>2. InStep(deck[c], PlaysNow(deck[c].handle), out \o t, to_client[ch], delayed[ch])
      BY <1>2, <1>3, <1>4, <3>1, SparedInStep
    <3> QED BY <1>5, <2>2, <3>2
  <2> QED BY <2>1, <2>2
<1>7. UNCHANGED <<playing, play_handle, to_client, delayed>> /\ \A e \in Buttons : Client(e) # ch => deck'[e] = deck[e]
  BY <1>1, <1>5 DEF caedVars, vars, streamVars, tableVars
<1> HIDE DEF ch, out
<1> QED BY <1>2, <1>5, <1>6, <1>7, ClientInStep

(* It is answered: the deck plays at once, and the handle is no other deck's.    *)
LEMMA LoadEndsInStep ==
  ASSUME AgreeInv, NEW ch \in Conns, PlayAudioLoaded(ch)
  PROVE  DecksInStep'
<1> DEFINE ld == loading[ch]
           in == to_client[ch]
           h == Head(in).arg
           d == [deck[ld] EXCEPT !.handle = h]
           t == PlayCmds(d)
           out == to_caed[ch]
<1>1. /\ ch \in alive /\ ld # NoButton /\ in # <<>> /\ Head(in).cmd = "LP"
      /\ deck' = [deck EXCEPT ![ld] = Played(d)] /\ to_caed' = [to_caed EXCEPT ![ch] = out \o t]
      /\ to_client' = [to_client EXCEPT ![ch] = Tail(in)]
      /\ UNCHANGED <<caedVars, delayed>>
  BY DEF PlayAudioLoaded, Send
<1>2. /\ deck \in [Buttons -> Decks] /\ to_caed \in [Conns -> Seq(Cmds)] /\ out \in Seq(Cmds)
      /\ ld \in Buttons /\ Client(ld) = ch /\ to_client \in [Conns -> Seq(Replies)]
      /\ in \in Seq(Replies) /\ \A k \in DOMAIN in : Answer(in[k], ch)
  BY <1>1 DEF AgreeInv, PanelInv, TypesInv, PanelTypeOK, Carried, LoadingOwn, Cmds
<1>3. Good(deck, ld, out, in, LiveOf(ch), ch)
  BY <1>1 DEF AgreeInv, PanelInv, StreamInv, ClientInv
<1>4. deck[ld] = NewDeck
  BY <1>1, <1>3 DEF Good
<1>5. /\ deck'[ld] = Played(d) /\ to_caed'[ch] = out \o t /\ to_client'[ch] = Tail(in) /\ delayed'[ch] = delayed[ch]
      /\ \A c \in Buttons : c # ld => deck'[c] = deck[c]
      /\ \A c \in Conns : c # ch => to_caed'[c] = to_caed[c] /\ to_client'[c] = to_client[c] /\ delayed'[c] = delayed[c]
  BY <1>1, <1>2
<1> HIDE DEF ld, in, out
<1>6. h \in Handles \cup {None} /\ Head(in) = in[1] /\ 1 \in DOMAIN in
  BY <1>1, <1>2, TailFacts, TailAnswers DEF Answer
<1>7. h \in Int
  BY <1>6 DEF Handles, None
<1>8. \A g : Announces(in, g) \/ g # h
  BY <1>1, <1>6 DEF Announces
<1> HIDE DEF h
<1>9. d \in Decks /\ d.handle = h /\ d.state = "Stopped"
  BY <1>4, <1>6, NoDeckType DEF Decks, NewDeck, NoDeck
<1> HIDE DEF d
<1>10. Batch(t, h)
  BY <1>9, DeckCommands
<1>11. InStep(deck'[ld], PlaysNow(deck'[ld].handle), to_caed'[ch], to_client'[ch], delayed'[ch])
  <2>1. CASE h = None
    <3>1. Played(d) = d
      BY <1>9, <2>1 DEF Played
    <3> QED BY <1>5, <1>9, <2>1, <3>1, NoDeckInStep
  <2>2. CASE h # None
    <3>1. t = <<Cmd("PP", h), Cmd("PY", h)>> /\ t \in Seq(Cmds) /\ PlaysNow(h) \in BOOLEAN
      BY <1>9, <1>10, <2>2 DEF PlayCmds, Batch, PlaysNow
    <3>2. deck'[ld].state = "Playing" /\ deck'[ld].handle = h
      BY <1>5, <1>9, <2>2 DEF Played, Decks
    <3> HIDE DEF t
    <3>3. WillPlay(h, PlaysNow(h), out \o t)
      BY <1>2, <1>7, <3>1, PlayJoins
    <3> QED BY <1>5, <2>2, <3>2, <3>3 DEF InStep, Follows
  <2> QED BY <2>1, <2>2
<1> HIDE DEF t
<1>12. ASSUME NEW c \in Buttons, Client(c) = ch
       PROVE  InStep(deck'[c], PlaysNow(deck'[c].handle), to_caed'[ch], to_client'[ch], delayed'[ch])
  <2>1. CASE c = ld
    BY <1>11, <2>1
  <2>2. CASE c # ld
    <3>1. InStep(deck[c], PlaysNow(deck[c].handle), out, in, delayed[ch]) /\ PlaysNow(deck[c].handle) \in BOOLEAN
      BY <1>12 DEF AgreeInv, DecksInStep, DeckInStep, PlaysNow, out, in
    <3>2. deck[c].handle = None \/ deck[c].handle # h
      <4>1. deck[c].handle \in Handles => ~Announces(in, deck[c].handle)
        BY <1>3, <1>12 DEF Good, Holds
      <4> QED BY <1>2, <1>8, <4>1 DEF Decks
    <3>3. deck[c].handle = None \/ Spares(t, deck[c].handle)
      BY <1>10, <3>2 DEF Batch, Spares, Asks
    <3>4. InStep(deck[c], PlaysNow(deck[c].handle), out \o t, in, delayed[ch])
      BY <1>2, <1>10, <3>1, <3>3, SparedInStep DEF Batch
    <3>5. Told(in, delayed[ch], deck[c].handle) => Told(Tail(in), delayed[ch], deck[c].handle)
      BY <1>1, <1>2, ToldTaken
    <3>6. InStep(deck[c], PlaysNow(deck[c].handle), out \o t, Tail(in), delayed[ch])
      BY <3>1, <3>4, <3>5, ToldInStep
    <3> QED BY <1>5, <2>2, <3>6
  <2> QED BY <2>1, <2>2
<1>13. UNCHANGED <<playing, play_handle>> /\ \A e \in Buttons : Client(e) # ch => deck'[e] = deck[e]
  BY <1>1, <1>2, <1>5 DEF caedVars, vars, streamVars, tableVars
<1> QED BY <1>5, <1>12, <1>13, ClientInStep

(* A reply put aside is still on its way.                                        *)
LEMMA DeferInStep ==
  ASSUME AgreeInv, NEW ch \in Conns, Defer(ch)
  PROVE  DecksInStep'
<1> DEFINE in == to_client[ch]
           q == delayed[ch]
<1>0. /\ to_client \in [Conns -> Seq(Replies)] /\ delayed \in [Conns -> Seq(Replies)]
      /\ in \in Seq(Replies) /\ q \in Seq(Replies)
  BY DEF AgreeInv, PanelInv, TypesInv, PanelTypeOK
<1>1. /\ in # <<>> /\ UNCHANGED <<playing, play_handle, deck, to_caed>>
      /\ to_client'[ch] = Tail(in) /\ delayed'[ch] = Append(q, Head(in))
      /\ \A c \in Conns : c # ch => to_client'[c] = to_client[c] /\ delayed'[c] = delayed[c]
  BY <1>0 DEF Defer, caedVars, vars, streamVars, tableVars
<1> HIDE DEF in, q
<1>2. \A h : Told(in, q, h) => Told(Tail(in), Append(q, Head(in)), h)
  <2> DEFINE r == Head(in)
             u == Tail(in)
             a == Append(q, r)
  <2>1. /\ \A k \in DOMAIN in : k # 1 => k - 1 \in DOMAIN u /\ u[k - 1] = in[k]
        /\ r = in[1] /\ r \in Replies
    BY <1>0, <1>1, TailFacts
  <2> HIDE DEF r
  <2>2. /\ \A k \in DOMAIN q : k \in DOMAIN a /\ a[k] = q[k]
        /\ Len(q) + 1 \in DOMAIN a /\ a[Len(q) + 1] = r
    BY <1>0, <2>1, AppendFacts
  <2> HIDE DEF u, a
  <2> SUFFICES ASSUME NEW h, Told(in, q, h) PROVE Told(u, a, h)
    BY DEF u, a, r
  <2>3. ASSUME NEW k \in DOMAIN q, Asks(q, k, "SP", h) PROVE Told(u, a, h)
    <3>1. k \in DOMAIN a /\ Asks(a, k, "SP", h)
      BY <2>2, <2>3 DEF Asks
    <3> QED BY <3>1 DEF Told
  <2>4. ASSUME NEW k \in DOMAIN in, Asks(in, k, "SP", h), k # 1 PROVE Told(u, a, h)
    <3>1. k - 1 \in DOMAIN u /\ Asks(u, k - 1, "SP", h)
      BY <2>1, <2>4 DEF Asks
    <3> QED BY <3>1 DEF Told
  <2>5. ASSUME Asks(in, 1, "SP", h) PROVE Told(u, a, h)
    <3>1. Len(q) + 1 \in DOMAIN a /\ Asks(a, Len(q) + 1, "SP", h)
      BY <2>1, <2>2, <2>5 DEF Asks
    <3> QED BY <3>1 DEF Told
  <2> QED BY <2>3, <2>4, <2>5 DEF Told
<1>3. ASSUME NEW c \in Buttons, Client(c) = ch
      PROVE  InStep(deck'[c], PlaysNow(deck'[c].handle), to_caed'[ch], to_client'[ch], delayed'[ch])
  <2>1. InStep(deck[c], PlaysNow(deck[c].handle), to_caed[ch], in, q) /\ PlaysNow(deck[c].handle) \in BOOLEAN
    BY <1>3 DEF AgreeInv, DecksInStep, DeckInStep, PlaysNow, in, q
  <2>2. InStep(deck[c], PlaysNow(deck[c].handle), to_caed[ch], Tail(in), Append(q, Head(in)))
    BY <1>2, <2>1, ToldInStep
  <2> QED BY <1>1, <2>2
<1> QED BY <1>1, <1>3, ClientInStep

(* A client without decks                                                        *)
LEMMA GoneInStep ==
  ASSUME AgreeInv, NEW ch \in Conns, \A b \in Buttons : Client(b) = ch => deck'[b] = NoDeck,
         \A b \in Buttons : Client(b) # ch => deck'[b] = deck[b],
         \A c \in Conns : c # ch => /\ to_caed'[c] = to_caed[c] /\ to_client'[c] = to_client[c]
                                    /\ delayed'[c] = delayed[c],
         \A b \in Buttons : Client(b) # ch => PlaysNow(deck[b].handle)' = PlaysNow(deck[b].handle)
  PROVE  DecksInStep'
<1> SUFFICES ASSUME NEW b \in Buttons PROVE DeckInStep(b)'
  BY DEF DecksInStep
<1>0. Client(b) \in Conns
  BY DEF Client, Buttons
<1>1. CASE Client(b) = ch
  <2>1. deck'[b].handle = None /\ deck'[b].state \notin {"Playing", "Stopping"}
    BY <1>1 DEF NoDeck
  <2> QED BY <2>1 DEF DeckInStep, InStep
<1>2. CASE Client(b) # ch
  <2>1. DeckInStep(b)
    BY DEF AgreeInv, DecksInStep
  <2> QED BY <1>0, <1>2, <2>1 DEF DeckInStep
<1> QED BY <1>1, <1>2

LEMMA ExitInStep ==
  ASSUME AgreeInv, NEW ch \in Conns, Exit(ch)
  PROVE  DecksInStep'
<1>0. deck \in [Buttons -> Decks] /\ to_client \in [Conns -> Seq(Replies)] /\ delayed \in [Conns -> Seq(Replies)]
  BY DEF AgreeInv, PanelInv, TypesInv, PanelTypeOK
<1>1. /\ \A b \in Buttons : deck'[b] = IF Client(b) = ch THEN NoDeck ELSE deck[b]
      /\ \A c \in Conns : c # ch => /\ to_caed'[c] = to_caed[c] /\ to_client'[c] = to_client[c]
                                    /\ delayed'[c] = delayed[c]
      /\ UNCHANGED <<playing, play_handle>>
  BY <1>0 DEF Exit, caedVars, vars, streamVars, tableVars
<1>2. \A b \in Buttons : Client(b) # ch => PlaysNow(deck[b].handle)' = PlaysNow(deck[b].handle)
  BY <1>1 DEF PlaysNow
<1> QED BY <1>1, <1>2, GoneInStep

LEMMA ConnectInStep ==
  ASSUME AgreeInv, NEW ch \in Conns, connectHost(ch)
  PROVE  DecksInStep'
<1>0. to_caed \in [Conns -> Seq(Cmds)]
  BY DEF AgreeInv, PanelInv, TypesInv, PanelTypeOK, Cmds
<1>1. /\ ch \notin alive /\ UNCHANGED <<deck, delayed, to_client, playing, play_handle>>
      /\ \A c \in Conns : c # ch => to_caed'[c] = to_caed[c]
  BY <1>0 DEF connectHost, newConnection, streamVars, tableVars
<1>2. \A b \in Buttons : Client(b) = ch => deck'[b] = NoDeck
  BY <1>1 DEF AgreeInv, PanelInv, StreamInv, GoneInv, Gone
<1>3. \A b \in Buttons : Client(b) # ch => PlaysNow(deck[b].handle)' = PlaysNow(deck[b].handle)
  BY <1>1 DEF PlaysNow
<1> QED BY <1>1, <1>2, <1>3, GoneInStep

--------------------------------------------------------------------------------
(* The steps of caed keep the decks in step.                                     *)

(* A handle that a client holds: its interface is the client's and loaded, no    *)
(* other handle names it, and a stop of it is reported to the client.            *)
Held(c, h, i) ==
  /\ h \in Handles /\ h # None /\ Live(h) /\ i \in Ifs /\ play_owner[i] = c /\ ring[i] # None
  /\ \A g \in Handles : play_handle[g].iface = i => g = h
  /\ statePlayUpdate(i, "SP") = <<Reply(c, "SP", h, TRUE)>>
LEMMA HeldFacts ==
  ASSUME TypeInv, TableInv, NEW c \in Conns, NEW h \in LiveOf(c)
  PROVE  Held(c, h, play_handle[h].iface)
<1> DEFINE i == play_handle[h].iface
<1>1. /\ h \in Handles /\ h # None /\ Live(h) /\ i \in Ifs /\ play_handle[h].owner = c /\ c # None
  BY Sizes DEF LiveOf, Live, TypeInv, TypeOK, Entries
<1>2. play_owner[i] = c /\ ring[i] # None
  BY <1>1 DEF TableInv, HandleOwners, StreamsAccounted
<1>3. \A g \in Handles : play_handle[g].iface = i => g = h
  BY <1>1 DEF TableInv, StreamsAccounted, Live
<1>4. h <= h
  BY <1>1 DEF Handles
<1>5. \A g \in Handles : IsHandleOf(g, i) <=> g = h
  BY <1>1, <1>3, <1>4 DEF IsHandleOf
<1>6. HandleOf(i) = h
  BY <1>1, <1>5 DEF HandleOf
<1> QED BY <1>1, <1>2, <1>3, <1>5, <1>6 DEF statePlayUpdate, Held

Reported(c, h) == \E k \in DOMAIN sent' : sent'[k].to = c /\ sent'[k].cmd = "SP" /\ sent'[k].arg = h

(* Without a command for it, caed stops what plays only with a report.           *)
LEMMA TimersReport ==
  ASSUME TypeInv, TableInv, playing' \in [Ifs -> BOOLEAN], NEW c \in Conns, NEW h \in LiveOf(c),
         \/ \E j \in Ifs : alsaStopTimerData(j) \/ AlsaPlayCallback(j)
         \/ updateMeters \/ AlsaClock
  PROVE  \/ PlaysNow(h)' = PlaysNow(h)
         \/ ~PlaysNow(h)' /\ Reported(c, h)
<1> DEFINE i == play_handle[h].iface
           r == Reply(c, "SP", h, TRUE)
<1>0. /\ h \in Handles /\ h # None /\ i \in Ifs /\ playing \in [Ifs -> BOOLEAN]
      /\ statePlayUpdate(i, "SP") = <<r>> /\ play_handle' = play_handle
  <2>1. Held(c, h, i)
    BY HeldFacts
  <2>2. h \in Handles /\ h # None /\ i \in Ifs /\ statePlayUpdate(i, "SP") = <<r>>
    BY <2>1 DEF Held
  <2>3. playing \in [Ifs -> BOOLEAN] /\ play_handle' = play_handle
    BY CaedTimers DEF TypeInv, TypeOK
  <2> QED BY <2>1, <2>2, <2>3
<1>1. r \in Replies /\ r.to = c /\ r.cmd = "SP" /\ r.arg = h
  <2>1. h \in Int
    BY <1>0 DEF Handles
  <2> QED BY <2>1 DEF Reply, Replies, Commands
<1> HIDE DEF i, r
<1>2. PlaysNow(h) = playing[i] /\ PlaysNow(h)' = playing'[i]
  <2>1. play_handle'[h].iface = i /\ playing[i] \in BOOLEAN
    BY <1>0 DEF i
  <2> QED BY <1>0, <2>1 DEF PlaysNow, i
<1>3. ASSUME playing'[i] = FALSE, sent' = <<r>> \/ sent' = <<r>> \o <<r>>
      PROVE  ~PlaysNow(h)' /\ Reported(c, h)
  <2>1. 1 \in DOMAIN sent' /\ sent'[1] = r
    <3> DEFINE q == <<r>>
    <3>1. q \in Seq(Replies) /\ 1 \in DOMAIN q /\ q[1] = r
      BY <1>1
    <3> HIDE DEF q
    <3>2. 1 \in DOMAIN (q \o q) /\ (q \o q)[1] = r
      BY <3>1, ConcatFacts
    <3> QED BY <1>3, <3>1, <3>2 DEF q
  <2> QED BY <1>1, <1>2, <1>3, <2>1 DEF Reported
<1>4. ASSUME NEW j \in Ifs, alsaStopTimerData(j)
      PROVE  PlaysNow(h)' = PlaysNow(h) \/ (~PlaysNow(h)' /\ Reported(c, h))
  <2>1. CASE playing' = playing \/ j # i
    BY <1>0, <1>2, <1>4, <2>1 DEF alsaStopTimerData, alsaStopPlayback
  <2>2. CASE j = i /\ Stoppable(j) /\ alsaStopPlayback(j) /\ sent' = statePlayUpdate(j, "SP") \o statePlayUpdate(j, "SP")
    <3>1. playing'[i] = FALSE /\ sent' = <<r>> \o <<r>>
      BY <1>0, <2>2 DEF alsaStopPlayback
    <3> QED BY <1>3, <3>1
  <2> QED BY <1>4, <2>1, <2>2 DEF alsaStopTimerData
<1>5. ASSUME NEW j \in Ifs, AlsaPlayCallback(j) PROVE PlaysNow(h)' = PlaysNow(h)
  BY <1>2, <1>5 DEF AlsaPlayCallback, RtCheck, RtRead, RtEof, streamVars
<1>6. CASE updateMeters \/ AlsaClockFill \/ AlsaClockSkip
  BY <1>2, <1>6 DEF updateMeters, AlsaClockFill, AlsaClockSkip, streamVars
<1>7. CASE AlsaClockStop
  <2>1. playing' = [playing EXCEPT ![tick] = FALSE] /\ sent' = statePlayUpdate(tick, "SP")
    BY <1>7 DEF AlsaClockStop
  <2>2. CASE tick = i
    BY <1>0, <1>3, <2>1, <2>2
  <2>3. CASE tick # i
    BY <1>0, <1>2, <2>1, <2>3
  <2> QED BY <2>2, <2>3
<1> QED BY <1>4, <1>5, <1>6, <1>7 DEF AlsaClock

(* What Serve() does with a command                                              *)
Handled(ch, cmd, arg) ==
  \/ cmd = "PW" /\ Password(ch, TRUE)
  \/ cmd = "LP" /\ (LoadPlayback(ch, arg) \/ LoadPlaybackFails(ch, arg))
  \/ cmd \in {"UP", "PP", "PY", "SP"} /\ HandleCommandFails(ch, cmd, arg)
  \/ /\ arg \in Handles
     /\ \/ cmd = "UP" /\ UnloadPlayback(ch, arg)
        \/ cmd = "PP" /\ \E pos \in Positions : PlaybackPosition(ch, arg, pos)
        \/ cmd = "PY" /\ \E timed \in Timed : Play(ch, arg, timed)
        \/ cmd = "PY" /\ PlayFails(ch, arg, FALSE)
        \/ cmd = "SP" /\ (StopPlayback(ch, arg) \/ StopPlaybackFails(ch, arg))

(* A command of ch: a play leaves its handle playing, a stop leaves it silent    *)
(* and is reported if it played, and no other handle that is held is disturbed.  *)
Moved(c, h, ch, cmd, arg) ==
  \/ c = ch /\ arg = h /\ cmd = "PY" /\ PlaysNow(h)'
  \/ c = ch /\ arg = h /\ cmd = "SP" /\ ~PlaysNow(h)' /\ (PlaysNow(h) => Reported(c, h))
  \/ ~(c = ch /\ arg = h /\ cmd \in {"PY", "SP"}) /\ PlaysNow(h)' = PlaysNow(h)
LEMMA CommandEffect ==
  ASSUME TypeInv, TableInv, playing' \in [Ifs -> BOOLEAN], NEW c \in Conns, NEW ch \in Conns,
         NEW h \in LiveOf(c), NEW cmd, NEW arg,
         c = ch /\ cmd = "UP" => arg # h,
         Handled(ch, cmd, arg)
  PROVE  Moved(c, h, ch, cmd, arg)
<1> USE DEF Moved
<1> DEFINE i == play_handle[h].iface
           r == Reply(c, "SP", h, TRUE)
<1>0. /\ h \in Handles /\ h # None /\ i \in Ifs /\ playing \in [Ifs -> BOOLEAN]
      /\ Live(h) /\ play_owner[i] = c /\ ring[i] # None
      /\ \A g \in Handles : play_handle[g].iface = i => g = h
      /\ statePlayUpdate(i, "SP") = <<r>> /\ play_handle \in [Handles -> Entries]
  <2>1. Held(c, h, i)
    BY HeldFacts
  <2>4. playing \in [Ifs -> BOOLEAN] /\ play_handle \in [Handles -> Entries]
    BY DEF TypeInv, TypeOK
  <2> HIDE DEF i
  <2> QED BY <2>1, <2>4 DEF Held
<1>1. r.to = c /\ r.cmd = "SP" /\ r.arg = h
  BY DEF Reply
<1>01. i = play_handle[h].iface
  OBVIOUS
<1> HIDE DEF i, r
<1>2. ASSUME play_handle'[h] = play_handle[h] PROVE PlaysNow(h) = playing[i] /\ PlaysNow(h)' = playing'[i]
  BY <1>0, <1>01, <1>2 DEF PlaysNow
<1>3. ASSUME play_handle' = play_handle, playing' = playing PROVE PlaysNow(h)' = PlaysNow(h)
  BY <1>2, <1>3
<1>4. CASE cmd = "PW" /\ Password(ch, TRUE)
  BY <1>3, <1>4 DEF Password, tableVars, streamVars
<1>5. CASE cmd = "LP" /\ LoadPlaybackFails(ch, arg)
  BY <1>3, <1>5 DEF LoadPlaybackFails, tableVars, streamVars
<1>6. CASE cmd = "LP" /\ LoadPlayback(ch, arg)
  <2>1. PICK j \in Ifs, g \in Handles : IsOutputStream(j, arg) /\ LoadOn(ch, j, g)
    BY <1>6 DEF LoadPlayback
  <2>2. \A f \in Handles : play_handle[f].iface # j
    BY <2>1 DEF IsOutputStream, TableInv, StreamsAccounted
  <2>3. Purged(j) = play_handle
    BY <2>2 DEF Purged, IsHandleOf, TypeInv, TypeOK
  <2>4. /\ play_handle' = [play_handle EXCEPT ![g] = [iface |-> j, owner |-> ch]]
        /\ play_handle[g].iface = None /\ playing' = playing
    BY <2>1, <2>3 DEF LoadOn, IsNextHandle
  <2>5. g # h
    BY <1>0, <2>4 DEF Live
  <2>6. play_handle'[h] = play_handle[h]
    BY <1>0, <2>4, <2>5
  <2> QED BY <1>2, <1>6, <2>4, <2>6
<1>7. CASE cmd \in {"UP", "PP", "PY", "SP"} /\ HandleCommandFails(ch, cmd, arg)
  <2>1. UNCHANGED <<play_handle, playing>>
    BY <1>7 DEF HandleCommandFails, tableVars, streamVars
  <2>2. ~(c = ch /\ arg = h)
    BY <1>0, <1>01, <1>7 DEF HandleCommandFails
  <2> QED BY <1>3, <2>1, <2>2
<1> DEFINE j == play_handle[arg].iface
<1>8. CASE arg \in Handles /\ cmd = "UP" /\ UnloadPlayback(ch, arg)
  <2>1. arg # h
    <3>1. play_owner[j] \in {ch, None} /\ Live(arg)
      BY <1>8 DEF UnloadPlayback
    <3>2. c # None
      BY Sizes
    <3> QED BY <1>0, <1>01, <1>8, <3>1, <3>2
  <2>2. j # i
    BY <1>0, <1>8, <2>1
  <2>3. /\ play_handle' = [play_handle EXCEPT ![arg] = FreeEntry]
        /\ playing' = [playing EXCEPT ![j] = @ /\ ~(ring[j] # None)]
    BY <1>8 DEF UnloadPlayback
  <2> HIDE DEF j
  <2>4. play_handle'[h] = play_handle[h] /\ playing'[i] = playing[i]
    BY <1>0, <2>1, <2>2, <2>3
  <2> QED BY <1>2, <1>8, <2>4
<1>9. ASSUME NEW pos \in Positions, cmd = "PP", PlaybackPosition(ch, arg, pos)
      PROVE  cmd = "PP" /\ PlaysNow(h)' = PlaysNow(h)
  BY <1>3, <1>9 DEF PlaybackPosition, tableVars
<1>10. ASSUME NEW timed \in Timed, arg \in Handles, Play(ch, arg, timed)
       PROVE  \/ c = ch /\ arg = h /\ PlaysNow(h)'
              \/ arg # h /\ PlaysNow(h)' = PlaysNow(h)
  <2>1. /\ play_owner[j] = ch /\ playing' = [playing EXCEPT ![j] = TRUE] /\ play_handle' = play_handle
    BY <1>10 DEF Play, tableVars
  <2>2. CASE arg = h
    <3>1. j = i
      BY <1>01, <2>2
    <3> HIDE DEF j
    <3> QED BY <1>0, <1>2, <2>1, <2>2, <3>1
  <2>3. CASE arg # h
    <3>1. j # i
      BY <1>0, <1>10, <2>3
    <3> HIDE DEF j
    <3> QED BY <1>0, <1>2, <2>1, <2>3, <3>1
  <2> QED BY <2>2, <2>3
<1>11. CASE arg \in Handles /\ cmd = "PY" /\ PlayFails(ch, arg, FALSE)
  <2>1. UNCHANGED <<play_handle, playing>> /\ play_owner[j] = ch /\ (ring[j] = None \/ playing[j])
    BY <1>11 DEF PlayFails, tableVars, streamVars
  <2>2. CASE arg = h
    <3>1. j = i
      BY <1>01, <2>2
    <3> HIDE DEF j
    <3> QED BY <1>0, <1>2, <1>11, <2>1, <2>2, <3>1
  <2>3. CASE arg # h
    BY <1>3, <2>1, <2>3
  <2> QED BY <2>2, <2>3
<1>12. CASE arg \in Handles /\ cmd = "SP" /\ StopPlayback(ch, arg)
  <2>1. /\ play_owner[j] = ch /\ playing' = [playing EXCEPT ![j] = FALSE] /\ play_handle' = play_handle
        /\ sent' = statePlayUpdate(j, "SP")
    BY <1>12 DEF StopPlayback, alsaStopPlayback, tableVars
  <2>2. CASE arg = h
    <3>1. j = i
      BY <1>01, <2>2
    <3> HIDE DEF j
    <3>2. sent' = <<r>>
      BY <1>0, <2>1, <3>1
    <3>3. Reported(c, h)
      BY <1>1, <3>2 DEF Reported
    <3>4. c = ch /\ ~PlaysNow(h)'
      BY <1>0, <1>2, <2>1, <3>1
    <3> QED BY <1>12, <2>2, <3>3, <3>4
  <2>3. CASE arg # h
    <3>1. j # i
      BY <1>0, <1>12, <2>3
    <3> HIDE DEF j
    <3> QED BY <1>0, <1>2, <2>1, <2>3, <3>1
  <2> QED BY <2>2, <2>3
<1>13. CASE arg \in Handles /\ cmd = "SP" /\ StopPlaybackFails(ch, arg)
  <2>1. UNCHANGED <<play_handle, playing>> /\ play_owner[j] = ch /\ ~(ring[j] # None /\ playing[j])
    BY <1>13 DEF StopPlaybackFails, Stoppable, tableVars, streamVars
  <2>2. CASE arg = h
    <3>1. j = i
      BY <1>01, <2>2
    <3> HIDE DEF j
    <3> QED BY <1>0, <1>2, <1>13, <2>1, <2>2, <3>1
  <2>3. CASE arg # h
    BY <1>3, <2>1, <2>3
  <2> QED BY <2>2, <2>3
<1> HIDE DEF j
<1> QED BY <1>4, <1>5, <1>6, <1>7, <1>8, <1>9, <1>10, <1>11, <1>12, <1>13 DEF Handled

(* What a client has still to read only grows, and holds what is reported now.   *)
LEMMA HeardTold ==
  ASSUME sent' \in Seq(Replies), to_client \in [Conns -> Seq(Replies)], Replied, NEW c \in Conns, c \in alive,
         NEW h, NEW late
  PROVE  /\ Told(to_client[c], late, h) => Told(to_client'[c], late, h)
         /\ Reported(c, h) => Told(to_client'[c], late, h)
<1> DEFINE q == to_client[c]
           t == Heard(c)
           u == q \o t
<1>1. q \in Seq(Replies) /\ to_client'[c] = u
  BY DEF Replied
<1>2. t \in Seq(Replies)
  <2>1. <<>> \in Seq(Replies)
    OBVIOUS
  <2> QED BY <2>1 DEF Heard
<1>3. Reported(c, h) => t = sent'
  BY DEF Reported, Heard
<1> HIDE DEF q, t
<1>4. /\ \A k \in DOMAIN q : k \in DOMAIN u /\ u[k] = q[k]
      /\ \A k \in DOMAIN t : Len(q) + k \in DOMAIN u /\ u[Len(q) + k] = t[k]
  BY <1>1, <1>2, ConcatFacts
<1> HIDE DEF u
<1>5. Told(q, late, h) => Told(u, late, h)
  BY <1>4 DEF Told, Asks
<1>6. ASSUME Reported(c, h) PROVE Told(u, late, h)
  <2>1. PICK k \in DOMAIN t : t[k].cmd = "SP" /\ t[k].arg = h
    BY <1>3, <1>6 DEF Reported
  <2>2. Len(q) + k \in DOMAIN u /\ Asks(u, Len(q) + k, "SP", h)
    BY <1>4, <2>1 DEF Asks
  <2> QED BY <2>2 DEF Told
<1> QED BY <1>1, <1>5, <1>6 DEF q

(* A deck that has a handle                                                      *)
LEMMA DeckHeld ==
  ASSUME PanelInv, NEW b \in Buttons, deck[b].handle # None
  PROVE  /\ Client(b) \in Conns /\ Client(b) \in alive /\ deck[b].handle \in LiveOf(Client(b))
         /\ ~Unloads(to_caed[Client(b)], deck[b].handle)
<1>1. Client(b) \in Conns
  BY DEF Client, Buttons
<1>2. Client(b) \in alive
  BY <1>1 DEF PanelInv, StreamInv, GoneInv, Gone, NoDeck
<1>3. deck[b].handle \in Handles
  BY DEF PanelInv, TypesInv, PanelTypeOK, Decks
<1>4. Holds(deck, Client(b), deck[b].handle)
  BY DEF Holds
<1> QED BY <1>1, <1>2, <1>3, <1>4 DEF PanelInv, StreamInv, ClientInv, Good

(* Decks without a handle stay in step whatever caed does.                       *)
LEMMA CaedInStep ==
  ASSUME AgreeInv, UNCHANGED clientVars,
         \A b \in Buttons : deck[b].handle # None => DeckInStep(b)'
  PROVE  DecksInStep'
<1> SUFFICES ASSUME NEW b \in Buttons, deck[b].handle = None PROVE DeckInStep(b)'
  BY DEF DecksInStep
<1>1. deck'[b] = deck[b]
  BY DEF clientVars
<1>2. deck[b].state \notin {"Playing", "Stopping"}
  BY DEF AgreeInv, DecksInStep, DeckInStep, InStep
<1> QED BY <1>1, <1>2 DEF DeckInStep, InStep

LEMMA CaedRunsInStep ==
  ASSUME AgreeInv, sent' \in Seq(Replies), playing' \in [Ifs -> BOOLEAN], CaedRuns
  PROVE  DecksInStep'
<1>1. /\ \/ \E j \in Ifs : alsaStopTimerData(j) \/ AlsaPlayCallback(j)
         \/ updateMeters \/ AlsaClock
      /\ Replied /\ UNCHANGED <<clientVars, to_caed>>
  BY DEF CaedRuns, Alone
<1>2. /\ TypeInv /\ TableInv /\ PanelInv /\ to_client \in [Conns -> Seq(Replies)]
      /\ UNCHANGED <<deck, delayed, to_caed>>
  BY <1>1 DEF AgreeInv, PanelInv, TypesInv, PanelTypeOK, clientVars
<1>3. ASSUME NEW b \in Buttons, deck[b].handle # None PROVE DeckInStep(b)'
  <2> DEFINE d == deck[b]
             h == d.handle
             c == Client(b)
             p == PlaysNow(h)
             q == PlaysNow(h)'
  <2>1. c \in Conns /\ c \in alive /\ h \in LiveOf(c)
    BY <1>2, <1>3, DeckHeld
  <2>2. q = p \/ (~q /\ Reported(c, h))
    BY <1>1, <1>2, <2>1, TimersReport
  <2>3. /\ Told(to_client[c], delayed[c], h) => Told(to_client'[c], delayed[c], h)
        /\ Reported(c, h) => Told(to_client'[c], delayed[c], h)
    BY <1>1, <1>2, <2>1, HeardTold
  <2>4. p \in BOOLEAN /\ q \in BOOLEAN /\ InStep(d, p, to_caed[c], to_client[c], delayed[c]) /\ d.handle = h
    BY DEF PlaysNow, AgreeInv, DecksInStep, DeckInStep
  <2>5. deck'[b] = d /\ to_caed'[c] = to_caed[c] /\ delayed'[c] = delayed[c]
    BY <1>2
  <2>6. PlaysNow(deck[b].handle)' = q
    BY <1>2 DEF PlaysNow
  <2> HIDE DEF d, h, c, p, q
  <2>7. InStep(d, q, to_caed[c], to_client'[c], delayed[c])
    BY <2>2, <2>3, <2>4, ToldInStep
  <2> QED BY <2>5, <2>6, <2>7 DEF DeckInStep, c
<1> QED BY <1>1, <1>2, <1>3, CaedInStep

LEMMA ServeInStep ==
  ASSUME AgreeInv, sent' \in Seq(Replies), playing' \in [Ifs -> BOOLEAN], NEW ch \in Conns, Serve(ch)
  PROVE  DecksInStep'
<1> DEFINE s == to_caed[ch]
           cmd == Head(s).cmd
           arg == Head(s).arg
<1>1. /\ s # <<>> /\ Handled(ch, cmd, arg) /\ to_caed' = [to_caed EXCEPT ![ch] = Tail(s)]
      /\ Replied /\ UNCHANGED clientVars
  BY DEF Serve, Handled
<1>2. /\ TypeInv /\ TableInv /\ PanelInv /\ to_client \in [Conns -> Seq(Replies)]
      /\ UNCHANGED <<deck, delayed>> /\ to_caed \in [Conns -> Seq(Cmds)] /\ s \in Seq(Cmds)
  BY <1>1 DEF AgreeInv, PanelInv, TypesInv, PanelTypeOK, clientVars, Cmds
<1>3. /\ \A x, h : Asks(s, 1, x, h) <=> cmd = x /\ arg = h
      /\ \A h : cmd = "UP" /\ arg = h => Unloads(s, h)
  <2>1. 1 \in DOMAIN s /\ Head(s) = s[1]
    BY <1>1, <1>2, TailFacts
  <2> QED BY <2>1 DEF Asks, Unloads
<1> HIDE DEF cmd, arg
<1>4. ASSUME NEW b \in Buttons, deck[b].handle # None PROVE DeckInStep(b)'
  <2> DEFINE d == deck[b]
             h == d.handle
             c == Client(b)
             p == PlaysNow(h)
             q == PlaysNow(h)'
  <2>1. c \in Conns /\ c \in alive /\ h \in LiveOf(c) /\ ~Unloads(to_caed[c], h)
    BY <1>2, <1>4, DeckHeld
  <2>2. c = ch /\ cmd = "UP" => arg # h
    BY <1>3, <2>1
  <2>3. /\ Told(to_client[c], delayed[c], h) => Told(to_client'[c], delayed[c], h)
        /\ Reported(c, h) => Told(to_client'[c], delayed[c], h)
    BY <1>1, <1>2, <2>1, HeardTold
  <2>4. p \in BOOLEAN /\ q \in BOOLEAN /\ InStep(d, p, to_caed[c], to_client[c], delayed[c]) /\ d.handle = h
    BY DEF PlaysNow, AgreeInv, DecksInStep, DeckInStep
  <2>5. deck'[b] = d /\ delayed'[c] = delayed[c]
    BY <1>2
  <2>6. PlaysNow(deck[b].handle)' = q
    BY <1>2 DEF PlaysNow
  <2> HIDE DEF h, c
  <2>7. \/ c = ch /\ arg = h /\ cmd = "PY" /\ q
        \/ c = ch /\ arg = h /\ cmd = "SP" /\ ~q /\ (p => Reported(c, h))
        \/ ~(c = ch /\ arg = h /\ cmd \in {"PY", "SP"}) /\ q = p
    <3>1. Moved(c, h, ch, cmd, arg)
      BY <1>1, <1>2, <2>1, <2>2, CommandEffect
    <3> QED BY <3>1 DEF Moved
  <2> HIDE DEF d, p, q, s
  <2>8. CASE c = ch
    <3>0. to_caed[c] = s /\ to_caed'[c] = Tail(s)
      BY <1>1, <1>2, <2>8 DEF s
    <3>1. \/ Asks(s, 1, "PY", d.handle) /\ q
          \/ Asks(s, 1, "SP", d.handle) /\ ~q /\ (p => Told(to_client'[c], delayed[c], d.handle))
          \/ ~Asks(s, 1, "PY", d.handle) /\ ~Asks(s, 1, "SP", d.handle) /\ q = p
      BY <1>3, <2>3, <2>4, <2>7, <2>8
    <3>2. InStep(d, p, s, to_client[c], delayed[c]) /\ d.handle = h
      BY <2>4, <3>0
    <3>3. InStep(d, q, Tail(s), to_client'[c], delayed[c])
      BY <1>1, <1>2, <2>3, <2>4, <3>1, <3>2, ServedInStep
    <3> QED BY <2>5, <2>6, <3>0, <3>3 DEF DeckInStep, c
  <2>9. CASE c # ch
    <3>1. to_caed'[c] = to_caed[c] /\ q = p
      BY <1>1, <1>2, <2>1, <2>7, <2>9
    <3>2. InStep(d, q, to_caed[c], to_client'[c], delayed[c])
      BY <2>3, <2>4, <3>1, ToldInStep
    <3> QED BY <2>5, <2>6, <3>1, <3>2 DEF DeckInStep, c
  <2> QED BY <2>8, <2>9
<1> QED BY <1>1, <1>4, CaedInStep

LEMMA CloseInStep ==
  ASSUME AgreeInv, NEW ch \in Conns, connectionClosed(ch)
  PROVE  DecksInStep'
<1>0. /\ to_caed \in [Conns -> Seq(Cmds)] /\ playing \in [Ifs -> BOOLEAN] /\ TypeInv /\ TableInv /\ PanelInv
      /\ play_handle \in [Handles -> Entries]
  BY DEF AgreeInv, PanelInv, TypesInv, PanelTypeOK, Cmds, TypeInv, TypeOK
<1>1. /\ ch \notin alive /\ KillSocket(ch) /\ UNCHANGED <<deck, delayed, to_client>>
      /\ \A c \in Conns : c # ch => to_caed'[c] = to_caed[c]
  BY <1>0 DEF connectionClosed, clientVars
<1>2. \A b \in Buttons : Client(b) = ch => deck'[b] = NoDeck
  BY <1>1 DEF AgreeInv, PanelInv, StreamInv, GoneInv, Gone
<1>3. ASSUME NEW b \in Buttons, Client(b) # ch PROVE PlaysNow(deck[b].handle)' = PlaysNow(deck[b].handle)
  <2> DEFINE h == deck[b].handle
             c == Client(b)
             i == play_handle[h].iface
  <2>1. CASE h = None
    BY <1>1, <2>1 DEF PlaysNow
  <2>2. CASE h # None
    <3>1. c \in Conns /\ h \in LiveOf(c)
      BY <1>0, <2>2, DeckHeld
    <3>2. Held(c, h, i)
      BY <1>0, <3>1, HeldFacts
    <3>3. h \in Handles /\ i \in Ifs /\ play_owner[i] = c /\ play_handle[h].owner = c
      BY <3>1, <3>2 DEF Held, LiveOf
    <3>4. play_handle'[h] = play_handle[h] /\ playing'[i] = playing[i]
      BY <1>0, <1>1, <1>3, <3>3 DEF KillSocket
    <3>5. deck'[b] = deck[b]
      BY <1>1
    <3> QED BY <3>4, <3>5 DEF PlaysNow
  <2> QED BY <2>1, <2>2
<1> QED BY <1>1, <1>2, <1>3, GoneInStep

LEMMA AgreeInvInit == PanelInit => AgreeInv
<1> SUFFICES ASSUME PanelInit PROVE AgreeInv
  OBVIOUS
<1>1. PanelInv
  BY PanelInvInit
<1>2. \A b \in Buttons : deck[b].handle = None /\ deck[b].state = "none"
  BY DEF PanelInit, NoDeck
<1>3. DecksInStep
  BY <1>2 DEF DecksInStep, DeckInStep, InStep
<1> QED BY <1>1, <1>3 DEF AgreeInv

LEMMA AgreeInvNext == AgreeInv /\ [PanelNext]_panelVars => AgreeInv'
<1> SUFFICES ASSUME AgreeInv, [PanelNext]_panelVars PROVE AgreeInv'
  OBVIOUS
<1>1. PanelInv'
  BY PanelInvNext DEF AgreeInv
<1>2. sent' \in Seq(Replies) /\ playing' \in [Ifs -> BOOLEAN]
  BY <1>1 DEF PanelInv, TypeInv, TypeOK
<1>3. CASE UNCHANGED panelVars
  <2>1. UNCHANGED <<deck, playing, play_handle, to_caed, to_client, delayed>>
    BY <1>3 DEF panelVars, caedVars, clientVars, vars, tableVars, streamVars
  <2>2. DecksInStep'
    BY <2>1 DEF AgreeInv, DecksInStep, DeckInStep, PlaysNow
  <2> QED BY <1>1, <2>2 DEF AgreeInv
<1>4. CASE PanelNext
  <2>1. DecksInStep'
    BY <1>2, <1>4, CaedRunsInStep, ServeInStep, LoadEndsInStep, DeferInStep, DispatchInStep, ConnectInStep,
       ExitInStep, CloseInStep, LoadStartsInStep, UserInStep, Zenon DEF PanelNext, ClientStep
  <2> QED BY <1>1, <2>1 DEF AgreeInv
<1> QED BY <1>3, <1>4

(* When nothing is under way between a client and caed, what a button shows is   *)
(* what is heard: a deck that shows Playing plays at caed, one that is Stopping  *)
(* plays out its fade, and one that shows Paused or Stopped is silent, whatever  *)
(* clicks, macros, fades, ends of cuts and late reports have crossed before.     *)
THEOREM DecksAgreeAtRest == PanelSpec => []AgreeAtRest
<1>1. AgreeInv => AgreeAtRest
  <2> SUFFICES ASSUME AgreeInv, NEW b \in Buttons, AtRest(Client(b))
               PROVE  /\ deck[b].state = "Playing" => PlaysAtCaed(deck[b])
                      /\ deck[b].state = "Stopping" => PlaysAtCaed(deck[b]) /\ deck[b].stop_timer
                      /\ deck[b].state \in {"Paused", "Stopped"} => ~PlaysAtCaed(deck[b])
    BY DEF AgreeAtRest
  <2> DEFINE d == deck[b]
             h == d.handle
  <2>1. PanelInv /\ None \notin Handles
    BY Sizes DEF AgreeInv
  <2>2. InStep(d, PlaysNow(h), <<>>, <<>>, <<>>)
    BY DEF AgreeInv, DecksInStep, DeckInStep, AtRest
  <2>3. h # None => h \in Handles /\ Live(h)
    BY <2>1, DeckHeld DEF LiveOf
  <2>4. DOMAIN <<>> = {}
    OBVIOUS
  <2>5. /\ d.state = "Playing" => h # None /\ PlaysNow(h)
        /\ d.state = "Stopping" => h # None /\ PlaysNow(h) /\ d.stop_timer
        /\ d.state = "Paused" /\ h # None => ~PlaysNow(h)
    <3> HIDE DEF d, h
    <3>1. d.handle = h
      BY DEF h
    <3> QED BY <2>2, <2>4, <3>1 DEF InStep, Follows, Told, WillPlay, WillRest, WillEnd, d, h
  <2>6. d.state = "Stopped" => h = None
    <3>1. Client(b) \in alive /\ Good(deck, loading[Client(b)], to_caed[Client(b)], to_client[Client(b)],
                                       LiveOf(Client(b)), Client(b))
      BY <2>1 DEF AtRest, PanelInv, StreamInv, ClientInv
    <3> QED BY <3>1 DEF Good, DeckSane
  <2> QED BY <2>1, <2>3, <2>5, <2>6 DEF PlaysAtCaed, PlaysNow
<1> QED BY <1>1, AgreeInvInit, AgreeInvNext, PTL DEF PanelSpec
================================================================================
