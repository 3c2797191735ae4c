------------------------------- MODULE CaeReader -------------------------------
(* How a client of caed reads its replies: RDCae::loadPlay(), readyData() and    *)
(* DispatchCommand() of lib/rdcae.cpp, down to the words of the shared parser    *)
(* buffer.  loadPlay() reads the socket itself until the answer to its LP is     *)
(* there; every other reply it meets is put aside in delayed_cmds.  It is called *)
(* by the user, from the event loop, and also from inside DispatchCommand(): the *)
(* deck of a cart slot that loops (lib/rdcartslot.cpp), or of a log line with a  *)
(* following Play transition, is loaded again when its stop is dispatched.       *)
(*                                                                               *)
(* A reply travels as two pieces, the second of which ends in '!', so that a     *)
(* block of readBlock() may end inside a reply.  caed is reduced to the replies  *)
(* it sends; the PY and PP of one start are one command here.                    *)
EXTENDS Naturals, Sequences, SequencesExt

CONSTANTS Slots,      \* decks of the client
          Setups,     \* ways the client may be set up: the decks in use, and those that loop
          MaxLoads    \* bound: loads in a behaviour; each gets a handle of its own

ASSUME ReaderAssumption ==
  /\ Setups \subseteq [slots : SUBSET Slots, loops : SUBSET Slots]
  /\ MaxLoads \in Nat

None == "none"
ASSUME NoneIsNoSlot == None \notin Slots

Handles == 1..MaxLoads
Msgs == [op : {"LP", "UP", "PY", "SP"}, handle : 0..MaxLoads]
Msg(op, h) == [op |-> op, handle |-> h]
Garbled == [op |-> "?", handle |-> 0]
Pieces == [of : Msgs, last : BOOLEAN]

VARIABLES
  setup,      \* the setup of this behaviour
  cmds,       \* commands on their way to caed
  on_air,     \* the handles caed is playing
  wire,       \* pieces of replies on their way to the client
  mode,       \* where the outer readyData() is: "idle" (not running), "delayed", "read"
  buf,        \* what it has yet to parse of the block it read
  args,       \* the parser: the reply whose words args[] holds, and whether it is complete
  delayed,    \* delayed_cmds
  waiting,    \* the deck whose loadPlay() is waiting
  answer,     \* what that loadPlay() has read: <<>>, or <<handle>> with 0 for a refusal
  hold,       \* play_handle of each deck, 0 for none
  loads       \* loads so far

caedVars == <<cmds, on_air, wire>>
readVars == <<mode, buf, args, delayed>>
loadVars == <<waiting, answer, hold, loads>>
readerVars == <<setup, caedVars, readVars, loadVars>>

NoArgs == [of |-> Garbled, whole |-> FALSE]

(* Type invariant.  An answer to LP is never put aside.                          *)
ReaderTypeOK ==
  /\ setup \in Setups
  /\ cmds \in Seq(Msgs)
  /\ on_air \subseteq Handles
  /\ wire \in Seq(Pieces) /\ buf \in Seq(Pieces)
  /\ mode \in {"idle", "delayed", "read"}
  /\ args \in [of : Msgs \cup {Garbled}, whole : BOOLEAN]
  /\ delayed \in Seq({m \in Msgs \cup {Garbled} : m.op # "LP"})
  /\ waiting \in Slots \cup {None}
  /\ answer \in {<<>>} \cup {<<h>> : h \in 0..MaxLoads}
  /\ hold \in [Slots -> 0..MaxLoads]
  /\ loads \in 0..MaxLoads

ReaderInit ==
  /\ setup \in Setups
  /\ cmds = <<>> /\ on_air = {} /\ wire = <<>>
  /\ mode = "idle" /\ buf = <<>> /\ args = NoArgs /\ delayed = <<>>
  /\ waiting = None /\ answer = <<>> /\ loads = 0
  /\ hold = [s \in Slots |-> 0]

--------------------------------------------------------------------------------
(* caed: commands are answered in order, playouts end when they end.             *)

Reply(m) == wire' = wire \o <<[of |-> m, last |-> FALSE], [of |-> m, last |-> TRUE]>>

CaedServes ==
  /\ cmds # <<>>
  /\ LET c == Head(cmds)
     IN  \/ c.op = "LP" /\ Reply(c) /\ UNCHANGED on_air
         \/ c.op = "LP" /\ Reply(Msg("LP", 0)) /\ UNCHANGED on_air
         \/ c.op = "UP" /\ Reply(c) /\ on_air' = on_air \ {c.handle}
         \/ c.op = "PY" /\ Reply(c) /\ on_air' = on_air \cup {c.handle}
  /\ cmds' = Tail(cmds)
  /\ UNCHANGED <<setup, readVars, loadVars>>

PlayoutEnds(h) ==
  /\ h \in on_air
  /\ on_air' = on_air \ {h}
  /\ Reply(Msg("SP", h))
  /\ UNCHANGED <<setup, cmds, readVars, loadVars>>

--------------------------------------------------------------------------------
(* The parser.  Words go on after those that are there: args[0] keeps naming the *)
(* reply whose words came first.                                                 *)

AddWords(p) == IF args = NoArgs THEN [of |-> p.of, whole |-> FALSE] ELSE args
ParsedAt(p) == IF args.whole \/ args.of = p.of THEN args.of ELSE Garbled

--------------------------------------------------------------------------------
(* Loads                                                                         *)

(* loadPlay() as far as the LP it sends, after the commands first.               *)
loadPlay(s, first) ==
  /\ cmds' = cmds \o first \o <<Msg("LP", loads + 1)>>
  /\ loads' = loads + 1
  /\ waiting' = s
  /\ answer' = <<>>

(* The user starts a deck.                                                       *)
Click(s) ==
  /\ s \in setup.slots
  /\ mode = "idle" /\ waiting = None /\ hold[s] = 0 /\ loads < MaxLoads
  /\ loadPlay(s, <<>>)
  /\ UNCHANGED <<setup, on_air, wire, readVars, hold>>

(* readyData(stream,handle,name): the loop of loadPlay() takes the answer to LP  *)
(* and puts any other reply aside.                                               *)
(* Mutation: replies that are not awaited are thrown away.                       *)
PutAsideNone(m) == UNCHANGED delayed
PutAside(m) == delayed' = Append(delayed, m)

(* Mutation: the awaited answer is put aside as well.                            *)
WaitReadsKeepsLP ==
  /\ waiting # None /\ wire # <<>>
  /\ wire' = Tail(wire)
  /\ LET p == Head(wire)
     IN  IF ~p.last THEN args' = AddWords(p) /\ UNCHANGED <<answer, delayed>>
         ELSE /\ args' = NoArgs
              /\ answer' = IF ParsedAt(p).op = "LP" THEN <<ParsedAt(p).handle>> ELSE answer
              /\ delayed' = Append(delayed, ParsedAt(p))
  /\ UNCHANGED <<setup, cmds, on_air, mode, buf, waiting, hold, loads>>
WaitReads ==
  /\ waiting # None /\ wire # <<>>
  /\ wire' = Tail(wire)
  /\ LET p == Head(wire)
         m == ParsedAt(p)
     IN  IF ~p.last THEN args' = AddWords(p) /\ UNCHANGED <<answer, delayed>>
         ELSE /\ args' = NoArgs
              /\ IF m.op = "LP" THEN answer' = <<m.handle>> /\ UNCHANGED delayed
                 ELSE PutAside(m) /\ UNCHANGED answer
  /\ UNCHANGED <<setup, cmds, on_air, mode, buf, waiting, hold, loads>>

(* The wait spins, a millisecond at a time.                                      *)
WaitSpins == waiting # None /\ answer = <<>> /\ UNCHANGED readerVars

(* loadPlay() returns, the deck starts, and a dispatch it was called from goes   *)
(* on: readyData() empties the parser after DispatchCommand(), not before.       *)
LoadReturns ==
  /\ answer # <<>>
  /\ LET h == answer[1]
     IN  /\ hold' = [hold EXCEPT ![waiting] = h]
         /\ cmds' = IF h = 0 THEN cmds ELSE Append(cmds, Msg("PY", h))
  /\ waiting' = None /\ answer' = <<>>
  /\ args' = IF mode = "read" THEN NoArgs ELSE args
  /\ UNCHANGED <<setup, on_air, wire, mode, buf, delayed, loads>>

--------------------------------------------------------------------------------
(* readyData() from the event loop                                               *)

(* DispatchCommand().  A stop reaches the deck that holds the handle, which      *)
(* unloads it and, when it loops, loads again before the dispatch returns; a     *)
(* load nobody waits for is unloaded.                                            *)
(* Mutation: the deck is loaded again without the unload having been sent.       *)
UnloadFirstNot(m) == <<>>
UnloadFirst(m) == <<Msg("UP", m.handle)>>

StoppedBy(m) == {s \in Slots : m.op = "SP" /\ hold[s] = m.handle}
Reloads(m) == {s \in StoppedBy(m) \cap setup.loops : loads < MaxLoads}
DispatchCommand(m) ==
  /\ hold' = [s \in Slots |-> IF s \in StoppedBy(m) THEN 0 ELSE hold[s]]
  /\ IF Reloads(m) # {} THEN \E s \in Reloads(m) : loadPlay(s, UnloadFirst(m))
     ELSE /\ cmds' = IF StoppedBy(m) # {} \/ m.op = "LP" THEN cmds \o UnloadFirst(m) ELSE cmds
          /\ UNCHANGED <<loads, waiting, answer>>

(* The read timer, every CAE_POLL_INTERVAL                                       *)
(* Mutation: what was put aside is not looked at.                                *)
readyDataSkipsDelayed ==
  /\ mode = "idle" /\ waiting = None
  /\ mode' = "read"
  /\ UNCHANGED <<setup, caedVars, buf, args, delayed, loadVars>>
readyData ==
  /\ mode = "idle" /\ waiting = None
  /\ mode' = "delayed"
  /\ UNCHANGED <<setup, caedVars, buf, args, delayed, loadVars>>

(* First what was put aside, what is put aside meanwhile included.               *)
DispatchDelayed ==
  /\ mode = "delayed" /\ waiting = None
  /\ \/ /\ delayed # <<>>
        /\ DispatchCommand(Head(delayed))
        /\ delayed' = Tail(delayed)
        /\ UNCHANGED mode
     \/ /\ delayed = <<>>
        /\ mode' = "read"
        /\ UNCHANGED <<delayed, cmds, loadVars>>
  /\ UNCHANGED <<setup, on_air, wire, buf, args>>

(* Then block after block, each as long as what has arrived.                     *)
readBlock ==
  /\ mode = "read" /\ waiting = None /\ buf = <<>>
  /\ \E n \in 1..Len(wire) :
       /\ buf' = SubSeq(wire, 1, n)
       /\ wire' = SubSeq(wire, n + 1, Len(wire))
  /\ UNCHANGED <<setup, cmds, on_air, mode, args, delayed, loadVars>>

DispatchBlock ==
  /\ mode = "read" /\ waiting = None /\ buf # <<>>
  /\ buf' = Tail(buf)
  /\ LET p == Head(buf)
         m == ParsedAt(p)
     IN  IF ~p.last THEN args' = AddWords(p) /\ UNCHANGED <<cmds, loadVars>>
         ELSE /\ DispatchCommand(m)
              /\ args' = IF Reloads(m) = {} THEN NoArgs ELSE [of |-> m, whole |-> TRUE]
  /\ UNCHANGED <<setup, on_air, wire, mode, delayed>>

(* No more has arrived.                                                          *)
readyDataEnds ==
  /\ mode = "read" /\ waiting = None /\ buf = <<>>
  /\ mode' = "idle"
  /\ UNCHANGED <<setup, caedVars, buf, args, delayed, loadVars>>

--------------------------------------------------------------------------------
ReaderStep ==
  \/ WaitReads \/ LoadReturns
  \/ readyData \/ DispatchDelayed \/ readBlock \/ DispatchBlock \/ readyDataEnds
ReaderNext ==
  \/ CaedServes \/ ReaderStep \/ WaitSpins
  \/ \E h \in Handles : PlayoutEnds(h)
  \/ \E s \in Slots : Click(s)

ReaderSpec == ReaderInit /\ [][ReaderNext]_readerVars

(* caed answers, TCP delivers, the read timer keeps firing, and the busy wait of *)
(* loadPlay() runs until it returns.                                             *)
FairReaderSpec ==
  /\ ReaderSpec
  /\ WF_readerVars(CaedServes) /\ WF_readerVars(ReaderStep) /\ WF_readerVars(LoadReturns)
  /\ SF_readerVars(readBlock)

--------------------------------------------------------------------------------
(* A deck holds a handle whose playout caed has ended.                           *)
Ended(h) == h \notin on_air /\ Msg("PY", h) \notin ToSet(cmds)

(* The stop of a playout is never lost on the way: as long as the deck has not   *)
(* been told, its SP is in the socket, in the block being parsed or in           *)
(* delayed_cmds (readyData() and the parser it shares with the load it waits in) *)
StopsKept ==
  \A s \in Slots : (hold[s] # 0 /\ Ended(hold[s])) =>
    \/ Msg("SP", hold[s]) \in ToSet(delayed)
    \/ [of |-> Msg("SP", hold[s]), last |-> TRUE] \in ToSet(buf \o wire)

(* Every deck learns of the end of its playout, although the stop may have been  *)
(* put aside in delayed_cmds by the load of another deck: the next run of        *)
(* readyData() dispatches it, whether that load was granted or refused.          *)
StopsSeen == \A s \in Slots, h \in Handles : (hold[s] = h /\ Ended(h)) ~> (hold[s] # h)

(* The busy wait of loadPlay() ends, although its answer is parsed into the args *)
(* that a dispatch further up the stack has not emptied: the answer to the       *)
(* unload sent before it takes the words of that reply away.                     *)
LoadEnds == \A s \in Slots : (waiting = s) ~> (waiting = None)
================================================================================
