---------------------------- MODULE CaeReaderProofs ----------------------------
(* Proofs about CaeReader for every client: any decks, any setups, any number of *)
(* loads.                                                                        *)
EXTENDS CaeReader, SequenceTheorems, TLAPS

--------------------------------------------------------------------------------
(* Sequences                                                                     *)

LEMMA SeqClosed ==
  ASSUME NEW S
  PROVE  /\ <<>> \in Seq(S)
         /\ \A e \in S : <<e>> \in Seq(S)
         /\ \A e, f \in S : <<e, f>> \in Seq(S)
         /\ \A s, t \in Seq(S) : s \o t \in Seq(S)
         /\ \A s \in Seq(S), e \in S : Append(s, e) \in Seq(S)
         /\ \A s \in Seq(S) : s # <<>> => Head(s) \in S /\ Tail(s) \in Seq(S)
  OBVIOUS

LEMMA SplitType ==
  ASSUME NEW S, NEW s \in Seq(S), NEW n \in 1..Len(s)
  PROVE  SubSeq(s, 1, n) \in Seq(S) /\ SubSeq(s, n + 1, Len(s)) \in Seq(S)
<1>1. \A i \in 1..n : s[i] \in S
  BY ElementOfSeq
<1>2. \A i \in (n + 1)..Len(s) : s[i] \in S
  BY ElementOfSeq
<1> QED BY <1>1, <1>2, SubSeqProperties

--------------------------------------------------------------------------------
(* Type correctness                                                              *)

(* ReaderTypeOK is not inductive: that caed plays no handle 0 rests on no start  *)
(* being sent after a refused load.                                              *)
Sent == Msgs \cup {Garbled}
Aside == {m \in Msgs \cup {Garbled} : m.op # "LP"}
Orders == {m \in Msgs : m.op = "PY" => m.handle # 0}
ReaderInv == ReaderTypeOK /\ cmds \in Seq(Orders)

LEMMA MsgType ==
  /\ \A op \in {"LP", "UP", "SP"}, h \in 0..MaxLoads : Msg(op, h) \in Orders
  /\ \A h \in Handles : Msg("PY", h) \in Orders
  /\ Orders \subseteq Msgs /\ Msgs \subseteq Sent
  /\ \A m \in Sent : m.handle \in 0..MaxLoads
  /\ Garbled.op # "LP" /\ Garbled.op # "SP" /\ Garbled \notin Msgs
  BY ReaderAssumption DEF Msg, Msgs, Sent, Garbled, Orders, Handles

LEMMA ParserType ==
  ASSUME ReaderInv, NEW p \in Pieces
  PROVE  /\ AddWords(p) \in [of : Sent, whole : BOOLEAN]
         /\ ParsedAt(p) \in Sent
         /\ NoArgs \in [of : Sent, whole : BOOLEAN]
         /\ p.of \in Msgs /\ p.last \in BOOLEAN
  BY DEF ReaderInv, ReaderTypeOK, AddWords, ParsedAt, NoArgs, Pieces, Sent

(* What a dispatch leaves in the variables it may change                         *)
LEMMA DispatchType ==
  ASSUME ReaderInv, NEW m \in Sent, DispatchCommand(m)
  PROVE  /\ cmds' \in Seq(Orders) /\ waiting' \in Slots \cup {None}
         /\ answer' \in {<<>>} \cup {<<h>> : h \in 0..MaxLoads}
         /\ hold' \in [Slots -> 0..MaxLoads] /\ loads' \in 0..MaxLoads
<1> USE DEF ReaderInv, ReaderTypeOK
<1>1. hold' \in [Slots -> 0..MaxLoads]
  BY ReaderAssumption DEF DispatchCommand
<1>2. UnloadFirst(m) \in Seq(Orders)
  BY MsgType, SeqClosed, Zenon DEF UnloadFirst
<1>3. cmds \o UnloadFirst(m) \in Seq(Orders)
  BY <1>2, SeqClosed, Zenon
<1>4. CASE Reloads(m) # {}
  <2>1. PICK s \in Reloads(m) : loadPlay(s, UnloadFirst(m))
    BY <1>4 DEF DispatchCommand
  <2>2. s \in Slots /\ loads + 1 \in 0..MaxLoads
    BY <2>1, ReaderAssumption DEF Reloads, StoppedBy
  <2>3. <<Msg("LP", loads + 1)>> \in Seq(Orders)
    BY <2>2, MsgType, SeqClosed, Zenon
  <2>4. cmds' \in Seq(Orders)
    BY <2>1, <2>3, <1>3, SeqClosed, Zenon DEF loadPlay
  <2> QED BY <1>1, <2>1, <2>2, <2>4 DEF loadPlay
<1>5. CASE Reloads(m) = {}
  BY <1>1, <1>3, <1>5 DEF DispatchCommand
<1> QED BY <1>4, <1>5

LEMMA ReplyPieces ==
  ASSUME ReaderInv, NEW m \in Msgs, Reply(m)
  PROVE  wire' \in Seq(Pieces)
<1>1. [of |-> m, last |-> FALSE] \in Pieces /\ [of |-> m, last |-> TRUE] \in Pieces
  BY DEF Pieces
<1> QED BY <1>1, SeqClosed, Zenon DEF Reply, ReaderInv, ReaderTypeOK

LEMMA ReaderTypeInit == ReaderInit => ReaderInv
  BY ReaderAssumption, SeqClosed
  DEF ReaderInit, ReaderInv, ReaderTypeOK, NoArgs, Garbled

LEMMA ReaderTypeNext == ReaderInv /\ [ReaderNext]_readerVars => ReaderInv'
<1> SUFFICES ASSUME ReaderInv, [ReaderNext]_readerVars PROVE ReaderInv'
  OBVIOUS
<1> USE DEF ReaderInv, ReaderTypeOK, caedVars, readVars, loadVars, readerVars
<1>1. CASE CaedServes
  <2> DEFINE c == Head(cmds)
  <2>1. c \in Orders /\ cmds' \in Seq(Orders) /\ cmds' \in Seq(Msgs)
    BY <1>1, SeqClosed DEF CaedServes
  <2>2. Msg("LP", 0) \in Msgs /\ c \in Msgs
    BY <2>1, MsgType, ReaderAssumption
  <2>3. wire' \in Seq(Pieces)
    BY <1>1, <2>2, ReplyPieces DEF CaedServes
  <2>4. c.op = "PY" => c.handle \in Handles
    BY <2>1 DEF Orders, Msgs, Handles
  <2> QED BY <1>1, <2>1, <2>3, <2>4 DEF CaedServes
<1>2. ASSUME NEW h \in Handles, PlayoutEnds(h) PROVE ReaderInv'
  <2>1. Msg("SP", h) \in Msgs
    BY MsgType, ReaderAssumption DEF Handles
  <2> QED BY <1>2, <2>1, ReplyPieces DEF PlayoutEnds
<1>3. ASSUME NEW s \in Slots, Click(s) PROVE ReaderInv'
  <2>1. loads + 1 \in 0..MaxLoads
    BY <1>3, ReaderAssumption DEF Click
  <2>2. <<Msg("LP", loads + 1)>> \in Seq(Orders) /\ <<>> \in Seq(Orders)
    BY <2>1, MsgType, SeqClosed, Zenon
  <2>3. cmds' \in Seq(Orders)
    BY <1>3, <2>2, SeqClosed, Zenon DEF Click, loadPlay
  <2>4. cmds' \in Seq(Msgs)
    BY <2>3, MsgType, SeqMonotonic
  <2> QED BY <1>3, <2>1, <2>3, <2>4 DEF Click, loadPlay
<1>4. CASE WaitReads
  <2> DEFINE p == Head(wire)
             m == ParsedAt(p)
  <2>1. p \in Pieces /\ wire' \in Seq(Pieces)
    BY <1>4, SeqClosed DEF WaitReads
  <2>2. m \in Sent /\ m.handle \in 0..MaxLoads
    BY <2>1, ParserType, MsgType, Zenon
  <2>3. args' \in [of : Sent, whole : BOOLEAN]
    BY <1>4, <2>1, ParserType DEF WaitReads
  <2>4. p.last /\ m.op # "LP" => delayed' \in Seq(Aside)
    <3>1. m.op # "LP" => m \in Aside
      BY <2>2 DEF Aside, Sent
    <3>2. delayed \in Seq(Aside)
      BY Zenon DEF Aside
    <3>3. p.last /\ m.op # "LP" => delayed' = Append(delayed, m)
      BY <1>4 DEF WaitReads, PutAside
    <3>4. m \in Aside => Append(delayed, m) \in Seq(Aside)
      BY <3>2, SeqClosed, Zenon
    <3> QED BY <3>1, <3>3, <3>4
  <2>5. /\ answer' \in {<<>>} \cup {<<h>> : h \in 0..MaxLoads}
        /\ delayed' \in Seq(Aside)
    BY <1>4, <2>2, <2>4 DEF WaitReads, Aside
  <2> QED BY <1>4, <2>1, <2>3, <2>5 DEF WaitReads, Sent, Aside
<1>5. CASE WaitSpins
  BY <1>5 DEF WaitSpins
<1>6. CASE LoadReturns
  <2> DEFINE h == answer[1]
  <2>1. h \in 0..MaxLoads
    BY <1>6 DEF LoadReturns
  <2>2. h # 0 => Append(cmds, Msg("PY", h)) \in Seq(Orders)
    BY <2>1, MsgType, SeqClosed, ReaderAssumption DEF Handles
  <2>3. cmds' \in Seq(Orders)
    BY <1>6, <2>2 DEF LoadReturns
  <2>4. cmds' \in Seq(Msgs)
    BY <2>3, MsgType, SeqMonotonic
  <2> QED BY <1>6, <2>1, <2>3, <2>4 DEF LoadReturns, NoArgs
<1>7. CASE readyData
  BY <1>7 DEF readyData
<1>8. CASE DispatchDelayed
  <2>1. CASE delayed = <<>>
    BY <1>8, <2>1 DEF DispatchDelayed
  <2>2. CASE delayed # <<>>
    <3>0. delayed \in Seq(Aside) /\ Aside \subseteq Sent
      BY Zenon DEF Aside, Sent
    <3>1. Head(delayed) \in Sent /\ delayed' \in Seq(Aside)
      <4>1. Head(delayed) \in Aside /\ Tail(delayed) \in Seq(Aside)
        BY <2>2, <3>0, SeqClosed, Zenon
      <4> QED BY <1>8, <2>2, <3>0, <4>1 DEF DispatchDelayed
    <3>2. /\ cmds' \in Seq(Orders) /\ waiting' \in Slots \cup {None}
          /\ answer' \in {<<>>} \cup {<<h>> : h \in 0..MaxLoads}
          /\ hold' \in [Slots -> 0..MaxLoads] /\ loads' \in 0..MaxLoads
      BY <1>8, <2>2, <3>1, DispatchType DEF DispatchDelayed
    <3>3. cmds' \in Seq(Msgs)
      BY <3>2, MsgType, SeqMonotonic
    <3> QED BY <1>8, <2>2, <3>1, <3>2, <3>3 DEF DispatchDelayed, Aside
  <2> QED BY <2>1, <2>2
<1>9. CASE readBlock
  BY <1>9, SplitType DEF readBlock
<1>10. CASE DispatchBlock
  <2> DEFINE p == Head(buf)
             m == ParsedAt(p)
  <2>1. p \in Pieces /\ buf' \in Seq(Pieces)
    BY <1>10, SeqClosed DEF DispatchBlock
  <2>2. m \in Sent
    BY <2>1, ParserType
  <2>3. args' \in [of : Sent, whole : BOOLEAN]
    <3>1. [of |-> m, whole |-> TRUE] \in [of : Sent, whole : BOOLEAN]
      BY <2>2
    <3> QED BY <1>10, <2>1, <3>1, ParserType DEF DispatchBlock
  <2>4. /\ cmds' \in Seq(Orders) /\ waiting' \in Slots \cup {None}
        /\ answer' \in {<<>>} \cup {<<h>> : h \in 0..MaxLoads}
        /\ hold' \in [Slots -> 0..MaxLoads] /\ loads' \in 0..MaxLoads
    <3>1. CASE p.last
      BY <1>10, <2>2, <3>1, DispatchType DEF DispatchBlock
    <3>2. CASE ~p.last
      BY <1>10, <3>2 DEF DispatchBlock
    <3> QED BY <3>1, <3>2
  <2>5. cmds' \in Seq(Msgs)
    BY <2>4, MsgType, SeqMonotonic
  <2> QED BY <1>10, <2>1, <2>3, <2>4, <2>5 DEF DispatchBlock, Sent
<1>11. CASE readyDataEnds
  BY <1>11 DEF readyDataEnds
<1>12. CASE UNCHANGED readerVars
  BY <1>12
<1> QED
  BY <1>1, <1>2, <1>3, <1>4, <1>5, <1>6, <1>7, <1>8, <1>9, <1>10, <1>11, <1>12
  DEF ReaderNext, ReaderStep

(* The client never holds a reply, a handle or a command out of range, and no    *)
(* answer to LP is put aside, whatever the blocks readBlock() returns cut apart  *)
(* (RDCae::readyData(), loadPlay()).                                             *)
THEOREM ReaderTypeCorrect == ReaderSpec => []ReaderTypeOK
<1>1. ReaderInv => ReaderTypeOK
  BY DEF ReaderInv
<1> QED BY <1>1, ReaderTypeInit, ReaderTypeNext, PTL DEF ReaderSpec

--------------------------------------------------------------------------------
(* Stops, in a client none of whose decks loops.                                 *)

stream == buf \o wire
Old(h) == h <= loads /\ (waiting # None => h < loads)

(* The event loop is suspended while loadPlay() waits, and a reply is complete   *)
(* only to be emptied at once.                                                   *)
Suspended ==
  /\ mode # "read" => buf = <<>>
  /\ waiting # None => mode = "idle"
  /\ answer # <<>> => waiting # None
  /\ ~args.whole

(* Replies are whole on the way, but for the one the parser has the words of.    *)
FramedFor(str, a) ==
  /\ \A i \in 1..Len(str) :
       IF str[i].last
       THEN IF i = 1 THEN a # NoArgs /\ a.of = str[1].of
            ELSE str[i - 1].of = str[i].of /\ ~str[i - 1].last
       ELSE i < Len(str) /\ str[i + 1].of = str[i].of /\ str[i + 1].last
  /\ a # NoArgs => str # <<>> /\ str[1].last
Framed == FramedFor(stream, args)

(* At most one load is under way, and its handle is a new one: it is the last    *)
(* command, then one reply, then the answer.                                     *)
NoLoad(str) == \A i \in 1..Len(str) : str[i].of.op # "LP"
AtMostOneLoad(str) ==
  \A i, j \in 1..Len(str) :
    str[i].of.op = "LP" /\ str[j].of.op = "LP" /\ str[i].last = str[j].last => i = j
OneLoad ==
  /\ \A i \in 1..Len(cmds) : cmds[i].op = "LP" =>
       i = Len(cmds) /\ cmds[i].handle = loads /\ waiting # None /\ answer = <<>> /\ NoLoad(stream)
  /\ \A i \in 1..Len(stream) : stream[i].of.op = "LP" =>
       stream[i].of.handle \in {0, loads} /\ waiting # None /\ answer = <<>>
  /\ AtMostOneLoad(stream)
  /\ answer # <<>> => answer[1] \in {0, loads}

(* What is unloaded nobody holds any more.                                       *)
Unheld ==
  /\ \A s \in Slots : Old(hold[s])
  /\ \A i \in 1..Len(cmds) : cmds[i].op = "UP" =>
       Old(cmds[i].handle) /\ \A s \in Slots : hold[s] # 0 => hold[s] # cmds[i].handle

Plain == Suspended /\ Framed /\ OneLoad /\ Unheld /\ StopsKept
PlainInv == setup.loops = {} => Plain

Both(m) == <<[of |-> m, last |-> FALSE], [of |-> m, last |-> TRUE]>>

LEMMA BothFacts ==
  ASSUME NEW str \in Seq(Pieces), NEW m \in Msgs
  PROVE  /\ str \o Both(m) \in Seq(Pieces)
         /\ Len(str) \in Nat /\ Len(str \o Both(m)) = Len(str) + 2
         /\ \A i \in 1..Len(str) : (str \o Both(m))[i] = str[i]
         /\ (str \o Both(m))[Len(str) + 1] = [of |-> m, last |-> FALSE]
         /\ (str \o Both(m))[Len(str) + 2] = [of |-> m, last |-> TRUE]
<1>1. [of |-> m, last |-> FALSE] \in Pieces /\ [of |-> m, last |-> TRUE] \in Pieces
  BY DEF Pieces
<1>2. /\ Both(m) \in Seq(Pieces) /\ Len(Both(m)) = 2
      /\ Both(m)[1] = [of |-> m, last |-> FALSE] /\ Both(m)[2] = [of |-> m, last |-> TRUE]
  BY <1>1 DEF Both
<1>3. Len(str) \in Nat
  BY LenProperties
<1>4. /\ str \o Both(m) \in Seq(Pieces)
      /\ Len(str \o Both(m)) = Len(str) + Len(Both(m))
      /\ \A i \in 1..(Len(str) + Len(Both(m))) : (str \o Both(m))[i] =
           IF i <= Len(str) THEN str[i] ELSE Both(m)[i - Len(str)]
  BY <1>2, ConcatProperties
<1>5. ASSUME NEW t, t = str \o Both(m), NEW u, u = Both(m)
      PROVE  /\ Len(t) = Len(str) + 2
             /\ \A i \in 1..Len(str) : t[i] = str[i]
             /\ t[Len(str) + 1] = [of |-> m, last |-> FALSE]
             /\ t[Len(str) + 2] = [of |-> m, last |-> TRUE]
  <2>1. /\ Len(t) = Len(str) + 2
        /\ \A i \in 1..(Len(str) + 2) : t[i] = IF i <= Len(str) THEN str[i] ELSE u[i - Len(str)]
    BY <1>2, <1>4, <1>5, Zenon
  <2>2. t[Len(str) + 1] = u[1] /\ t[Len(str) + 2] = u[2]
    BY <1>3, <2>1
  <2> QED BY <1>2, <1>3, <1>5, <2>1, <2>2
<1> QED BY <1>3, <1>4, <1>5, Zenon

LEMMA TailFacts ==
  ASSUME NEW S, NEW str \in Seq(S), str # <<>>
  PROVE  /\ Tail(str) \in Seq(S) /\ Len(str) \in Nat \ {0} /\ Len(Tail(str)) = Len(str) - 1
         /\ \A i \in 1..(Len(str) - 1) : Tail(str)[i] = str[i + 1]
         /\ Head(str) = str[1] /\ str[1] \in S
  OBVIOUS

LEMMA FramedReply ==
  ASSUME NEW str \in Seq(Pieces), NEW a, FramedFor(str, a), NEW m \in Msgs
  PROVE  FramedFor(str \o Both(m), a)
<1> SUFFICES ASSUME NEW t, t = str \o Both(m) PROVE FramedFor(t, a)
  OBVIOUS
<1>1. /\ Len(str) \in Nat /\ Len(t) = Len(str) + 2
      /\ \A i \in 1..Len(str) : t[i] = str[i]
      /\ t[Len(str) + 1].of = m /\ t[Len(str) + 1].last = FALSE
      /\ t[Len(str) + 2].of = m /\ t[Len(str) + 2].last = TRUE
  <2>1. /\ Len(str) \in Nat /\ Len(t) = Len(str) + 2
        /\ \A i \in 1..Len(str) : t[i] = str[i]
        /\ t[Len(str) + 1] = [of |-> m, last |-> FALSE]
        /\ t[Len(str) + 2] = [of |-> m, last |-> TRUE]
    BY BothFacts, Zenon
  <2> QED BY <2>1
<1>2. ASSUME NEW i \in 1..Len(t)
      PROVE  IF t[i].last
             THEN IF i = 1 THEN a # NoArgs /\ a.of = t[1].of
                  ELSE t[i - 1].of = t[i].of /\ ~t[i - 1].last
             ELSE i < Len(t) /\ t[i + 1].of = t[i].of /\ t[i + 1].last
  <2>1. CASE i \in 1..Len(str)
    <3>1. t[i] = str[i] /\ (i # 1 => t[i - 1] = str[i - 1])
      BY <1>1, <2>1
    <3>2. i < Len(str) => t[i + 1] = str[i + 1]
      BY <1>1, <2>1
    <3>3. i < Len(str) => i < Len(t)
      BY <1>1
    <3> QED BY <2>1, <3>1, <3>2, <3>3 DEF FramedFor
  <2>2. CASE i = Len(str) + 1
    BY <1>1, <2>2
  <2>3. CASE i = Len(str) + 2
    BY <1>1, <2>3
  <2>4. i \in 1..Len(str) \/ i = Len(str) + 1 \/ i = Len(str) + 2
    BY <1>1
  <2> QED BY <2>1, <2>2, <2>3, <2>4
<1>3. a # NoArgs => t # <<>> /\ t[1].last
  <2>1. str # <<>> => 1 \in 1..Len(str)
    BY LenProperties
  <2>2. t # <<>>
    BY <1>1
  <2> QED BY <1>1, <2>1, <2>2 DEF FramedFor
<1> QED BY <1>2, <1>3, Zenon DEF FramedFor

LEMMA FramedTail ==
  ASSUME NEW str \in Seq(Pieces), NEW a, FramedFor(str, a), str # <<>>
  PROVE  /\ str[1].last => /\ a # NoArgs /\ a.of = str[1].of
                           /\ FramedFor(Tail(str), NoArgs)
         /\ ~str[1].last => /\ a = NoArgs
                            /\ FramedFor(Tail(str), [of |-> str[1].of, whole |-> FALSE])
<1> SUFFICES ASSUME NEW t, t = Tail(str)
             PROVE  /\ str[1].last => /\ a # NoArgs /\ a.of = str[1].of
                                      /\ FramedFor(t, NoArgs)
                    /\ ~str[1].last => /\ a = NoArgs
                                       /\ FramedFor(t, [of |-> str[1].of, whole |-> FALSE])
  OBVIOUS
<1>1. /\ t \in Seq(Pieces) /\ Len(str) \in Nat \ {0} /\ Len(t) = Len(str) - 1
      /\ \A i \in 1..(Len(str) - 1) : t[i] = str[i + 1]
  BY TailFacts, Zenon
<1>2. Len(t) \in Nat /\ (Len(t) # 0 => t # <<>>)
  <2>1. Len(<<>>) = 0
    OBVIOUS
  <2>2. Len(t) \in Nat
    BY <1>1, LenProperties, Zenon
  <2> QED BY <2>1, <2>2, Zenon
<1>3. str[1].of # Garbled
  <2>1. str[1] \in Pieces
    BY TailFacts, Zenon
  <2>2. str[1].of \in Msgs
    BY <2>1 DEF Pieces
  <2> QED BY <2>2, MsgType
<1>4. [of |-> str[1].of, whole |-> FALSE] # NoArgs
  BY <1>3 DEF NoArgs
<1>5. CASE str[1].last
  BY <1>1, <1>2, <1>5 DEF FramedFor
<1>6. CASE ~str[1].last
  <2> DEFINE b == [of |-> str[1].of, whole |-> FALSE]
  <2>1. b # NoArgs /\ b.of = str[1].of
    BY <1>4
  <2> HIDE DEF b
  <2>2. a = NoArgs /\ FramedFor(t, b)
    BY <1>1, <1>2, <1>6, <2>1 DEF FramedFor
  <2> QED BY <1>6, <2>2 DEF b
<1> QED BY <1>5, <1>6

LEMMA LoadsReply ==
  ASSUME NEW str \in Seq(Pieces), NEW m \in Msgs, AtMostOneLoad(str),
         m.op = "LP" => NoLoad(str)
  PROVE  /\ AtMostOneLoad(str \o Both(m))
         /\ m.op # "LP" /\ NoLoad(str) => NoLoad(str \o Both(m))
         /\ \A i \in 1..Len(str \o Both(m)) :
              (str \o Both(m))[i].of = m \/ (i \in 1..Len(str) /\ (str \o Both(m))[i] = str[i])
<1> SUFFICES ASSUME NEW t, t = str \o Both(m)
             PROVE  /\ AtMostOneLoad(t)
                    /\ m.op # "LP" /\ NoLoad(str) => NoLoad(t)
                    /\ \A i \in 1..Len(t) : t[i].of = m \/ (i \in 1..Len(str) /\ t[i] = str[i])
  OBVIOUS
<1>1. /\ Len(str) \in Nat /\ Len(t) = Len(str) + 2
      /\ \A i \in 1..Len(str) : t[i] = str[i]
      /\ t[Len(str) + 1].of = m /\ t[Len(str) + 1].last = FALSE
      /\ t[Len(str) + 2].of = m /\ t[Len(str) + 2].last = TRUE
  <2>1. /\ Len(str) \in Nat /\ Len(t) = Len(str) + 2
        /\ \A i \in 1..Len(str) : t[i] = str[i]
        /\ t[Len(str) + 1] = [of |-> m, last |-> FALSE]
        /\ t[Len(str) + 2] = [of |-> m, last |-> TRUE]
    BY BothFacts, Zenon
  <2> QED BY <2>1
<1>2. \A i \in 1..Len(t) : \/ i \in 1..Len(str) /\ t[i] = str[i]
                           \/ i = Len(str) + 1 /\ t[i].of = m /\ t[i].last = FALSE
                           \/ i = Len(str) + 2 /\ t[i].of = m /\ t[i].last = TRUE
  BY <1>1
<1>3. AtMostOneLoad(t)
  BY <1>2 DEF AtMostOneLoad, NoLoad
<1>4. m.op # "LP" /\ NoLoad(str) => NoLoad(t)
  BY <1>2 DEF NoLoad
<1> QED BY <1>2, <1>3, <1>4

LEMMA LoadsTail ==
  ASSUME NEW str \in Seq(Pieces), NEW a, str # <<>>, AtMostOneLoad(str), FramedFor(str, a)
  PROVE  /\ AtMostOneLoad(Tail(str))
         /\ str[1].of.op = "LP" /\ str[1].last => NoLoad(Tail(str))
         /\ NoLoad(str) => NoLoad(Tail(str))
         /\ \A i \in 1..Len(Tail(str)) : i + 1 \in 1..Len(str) /\ Tail(str)[i] = str[i + 1]
<1> SUFFICES ASSUME NEW t, t = Tail(str)
             PROVE  /\ AtMostOneLoad(t)
                    /\ str[1].of.op = "LP" /\ str[1].last => NoLoad(t)
                    /\ NoLoad(str) => NoLoad(t)
                    /\ \A i \in 1..Len(t) : i + 1 \in 1..Len(str) /\ t[i] = str[i + 1]
  OBVIOUS
<1>1. /\ Len(str) \in Nat \ {0} /\ Len(t) = Len(str) - 1
      /\ \A i \in 1..(Len(str) - 1) : t[i] = str[i + 1]
  BY TailFacts, Zenon
<1>2. \A i \in 1..Len(t) : i + 1 \in 1..Len(str) /\ t[i] = str[i + 1]
  BY <1>1
<1>3. AtMostOneLoad(t)
  <2> SUFFICES ASSUME NEW i \in 1..Len(t), NEW j \in 1..Len(t),
                      t[i].of.op = "LP", t[j].of.op = "LP", t[i].last = t[j].last
               PROVE  i = j
    BY DEF AtMostOneLoad
  <2>1. i + 1 = j + 1
    BY <1>2 DEF AtMostOneLoad
  <2> QED BY <2>1
<1>4. ASSUME str[1].of.op = "LP", str[1].last, NEW i \in 1..Len(t), t[i].of.op = "LP"
      PROVE  FALSE
  <2>1. i + 1 \in 1..Len(str) /\ t[i] = str[i + 1] /\ i + 1 # 1 /\ 1 \in 1..Len(str)
    BY <1>1, <1>2
  <2>2. ~str[i + 1].last
    BY <1>4, <2>1 DEF AtMostOneLoad, FramedFor
  <2>3. i + 2 \in 1..Len(str) /\ str[i + 2].of = str[i + 1].of /\ str[i + 2].last
    BY <1>1, <2>1, <2>2 DEF FramedFor
  <2>4. i + 2 = 1
    BY <1>4, <2>1, <2>3 DEF AtMostOneLoad
  <2> QED BY <2>4
<1>5. NoLoad(str) => NoLoad(t)
  BY <1>2 DEF NoLoad
<1> QED BY <1>2, <1>3, <1>4, <1>5 DEF NoLoad

LEMMA ToSetFacts ==
  ASSUME NEW S, NEW s \in Seq(S)
  PROVE  /\ \A e : e \in ToSet(s) <=> \E i \in 1..Len(s) : s[i] = e
         /\ \A e \in S : ToSet(Append(s, e)) = ToSet(s) \cup {e}
         /\ s # <<>> => ToSet(s) = {Head(s)} \cup ToSet(Tail(s))
<1>1. DOMAIN s = 1..Len(s) /\ Len(s) \in Nat
  BY LenProperties
<1>2. \A e : e \in ToSet(s) <=> \E i \in 1..Len(s) : s[i] = e
  BY <1>1 DEF ToSet
<1>3. ASSUME NEW e \in S PROVE ToSet(Append(s, e)) = ToSet(s) \cup {e}
  <2>1. /\ Append(s, e) \in Seq(S) /\ Len(Append(s, e)) = Len(s) + 1
        /\ \A i \in 1..Len(s) : Append(s, e)[i] = s[i]
        /\ Append(s, e)[Len(s) + 1] = e
    BY AppendProperties
  <2>2. ASSUME NEW t, t = Append(s, e) PROVE ToSet(t) = ToSet(s) \cup {e}
    <3>1. DOMAIN t = 1..(Len(s) + 1)
      BY <2>1, <2>2, LenProperties
    <3>2. \A i \in 1..Len(s) : t[i] = s[i]
      BY <2>1, <2>2, Zenon
    <3>3. t[Len(s) + 1] = e
      BY <2>1, <2>2, Zenon
    <3> QED BY <1>1, <3>1, <3>2, <3>3 DEF ToSet
  <2> QED BY <2>2
<1>4. ASSUME s # <<>> PROVE ToSet(s) = {Head(s)} \cup ToSet(Tail(s))
  <2>1. /\ Tail(s) \in Seq(S) /\ Len(s) \in Nat \ {0} /\ Len(Tail(s)) = Len(s) - 1
        /\ \A i \in 1..(Len(s) - 1) : Tail(s)[i] = s[i + 1]
        /\ Head(s) = s[1]
    BY <1>4, TailFacts, Zenon
  <2>2. ASSUME NEW t, t = Tail(s) PROVE ToSet(s) = {s[1]} \cup ToSet(t)
    <3>1. DOMAIN t = 1..(Len(s) - 1)
      BY <2>1, <2>2, LenProperties
    <3>2. \A i \in 1..(Len(s) - 1) : t[i] = s[i + 1]
      BY <2>1, <2>2, Zenon
    <3>3. ToSet(t) = {s[i + 1] : i \in 1..(Len(s) - 1)}
      BY <3>1, <3>2 DEF ToSet
    <3>4. \A i \in 1..Len(s) : i = 1 \/ \E j \in 1..(Len(s) - 1) : i = j + 1
      <4> TAKE i \in 1..Len(s)
      <4>1. i # 1 => i - 1 \in 1..(Len(s) - 1) /\ i = (i - 1) + 1
        BY <1>1
      <4> QED BY <4>1
    <3>5. \A j \in 1..(Len(s) - 1) : j + 1 \in 1..Len(s)
      BY <1>1
    <3>6. ToSet(s) = {s[i] : i \in 1..Len(s)} /\ 1 \in 1..Len(s)
      BY <1>1, <2>1 DEF ToSet
    <3> QED BY <3>3, <3>4, <3>5, <3>6
  <2> QED BY <2>1, <2>2
<1> QED BY <1>2, <1>3, <1>4

(* What the steps do to the stream                                               *)
LEMMA StreamReply ==
  ASSUME ReaderInv, NEW m \in Msgs, Reply(m), buf' = buf
  PROVE  /\ stream \in Seq(Pieces) /\ stream' = stream \o Both(m)
         /\ \A e \in ToSet(stream) : e \in ToSet(stream')
         /\ [of |-> m, last |-> TRUE] \in ToSet(stream')
<1>1. buf \in Seq(Pieces) /\ wire \in Seq(Pieces) /\ stream \in Seq(Pieces)
  BY SeqClosed, Zenon DEF ReaderInv, ReaderTypeOK, stream
<1>2. Both(m) \in Seq(Pieces)
  <2>1. [of |-> m, last |-> FALSE] \in Pieces /\ [of |-> m, last |-> TRUE] \in Pieces
    BY DEF Pieces
  <2> QED BY <2>1, SeqClosed, Zenon DEF Both
<1>3. stream' = stream \o Both(m)
  <2>1. wire' = wire \o Both(m)
    BY Zenon DEF Reply, Both
  <2>2. (buf \o wire) \o Both(m) = buf \o (wire \o Both(m))
    BY <1>1, <1>2, ConcatAssociative
  <2> QED BY <2>1, <2>2, Zenon DEF stream
<1>4. ASSUME NEW t, t = stream \o Both(m), NEW u, u = stream
      PROVE  (\A e \in ToSet(u) : e \in ToSet(t)) /\ [of |-> m, last |-> TRUE] \in ToSet(t)
  <2>1. /\ Len(u) \in Nat /\ Len(t) = Len(u) + 2 /\ t \in Seq(Pieces) /\ u \in Seq(Pieces)
        /\ \A i \in 1..Len(u) : t[i] = u[i]
        /\ t[Len(u) + 2] = [of |-> m, last |-> TRUE]
    BY <1>1, <1>4, BothFacts, Zenon
  <2>2. Len(u) + 2 \in 1..Len(t) /\ \A i \in 1..Len(u) : i \in 1..Len(t)
    BY <2>1
  <2>3. /\ \A e : e \in ToSet(u) <=> \E i \in 1..Len(u) : u[i] = e
        /\ \A e : e \in ToSet(t) <=> \E i \in 1..Len(t) : t[i] = e
    BY <2>1, ToSetFacts
  <2>4. \A e \in ToSet(u) : e \in ToSet(t)
    BY <2>1, <2>2, <2>3, Zenon
  <2> QED BY <2>1, <2>2, <2>3, <2>4, Zenon
<1> QED BY <1>1, <1>3, <1>4, Zenon

LEMMA StreamHead ==
  ASSUME ReaderInv
  PROVE  /\ stream \in Seq(Pieces)
         /\ buf # <<>> => /\ stream # <<>> /\ stream[1] = Head(buf)
                          /\ Tail(stream) = Tail(buf) \o wire
         /\ buf = <<>> => stream = wire
<1> USE DEF ReaderInv, ReaderTypeOK
<1>1. buf \in Seq(Pieces) /\ wire \in Seq(Pieces) /\ stream \in Seq(Pieces)
  BY SeqClosed, Zenon DEF stream
<1>2. buf = <<>> => stream = wire
  BY <1>1, ConcatEmptySeq DEF stream
<1>3. ASSUME buf # <<>>
      PROVE  /\ stream # <<>> /\ stream[1] = Head(buf)
             /\ Tail(stream) = Tail(buf) \o wire
  BY <1>1, <1>3 DEF stream
<1> QED BY <1>1, <1>2, <1>3

LEMMA AppendFacts ==
  ASSUME NEW S, NEW s \in Seq(S), NEW e \in S
  PROVE  /\ Len(s) \in Nat /\ Len(Append(s, e)) = Len(s) + 1
         /\ \A i \in 1..(Len(s) + 1) :
              \/ i \in 1..Len(s) /\ Append(s, e)[i] = s[i]
              \/ i = Len(s) + 1 /\ Append(s, e)[i] = e
<1>1. /\ Len(Append(s, e)) = Len(s) + 1 /\ Len(s) \in Nat
      /\ \A i \in 1..Len(s) : Append(s, e)[i] = s[i]
      /\ Append(s, e)[Len(s) + 1] = e
  BY AppendProperties, LenProperties
<1>2. \A i \in 1..(Len(s) + 1) : i \in 1..Len(s) \/ i = Len(s) + 1
  BY <1>1
<1> QED BY <1>1, <1>2, Zenon

(* A load is sent with a handle that nothing else has.                           *)
LEMMA ClickKeeps ==
  ASSUME ReaderInv, Plain, NEW s \in Slots, Click(s)
  PROVE  Plain'
<1> USE DEF Click, loadPlay, readVars
<1>1. stream' = stream /\ args' = args /\ loads \in Nat /\ loads' = loads + 1
  BY ReaderAssumption DEF stream, ReaderInv, ReaderTypeOK
<1>2. waiting = None /\ waiting' # None /\ answer' = <<>> /\ mode' = "idle" /\ mode = "idle"
  BY NoneIsNoSlot
<1>3. loads + 1 \in 0..MaxLoads
  BY ReaderAssumption DEF ReaderInv, ReaderTypeOK
<1>4. Msg("LP", loads + 1) \in Msgs /\ cmds \in Seq(Msgs)
  BY <1>3, MsgType DEF ReaderInv, ReaderTypeOK
<1>5. cmds' = Append(cmds, Msg("LP", loads + 1))
  <2>1. cmds \o <<>> = cmds
    BY <1>4, ConcatEmptySeq
  <2> QED BY <1>4, <2>1, AppendIsConcat, Zenon
<1>6. /\ Len(cmds) \in Nat /\ Len(cmds') = Len(cmds) + 1
      /\ \A i \in 1..Len(cmds') :
           \/ i \in 1..Len(cmds) /\ cmds'[i] = cmds[i]
           \/ i = Len(cmds) + 1 /\ cmds'[i] = Msg("LP", loads + 1)
  <2>1. /\ Len(cmds) \in Nat /\ Len(cmds') = Len(cmds) + 1
        /\ \A i \in 1..(Len(cmds) + 1) :
             \/ i \in 1..Len(cmds) /\ cmds'[i] = cmds[i]
             \/ i = Len(cmds) + 1 /\ cmds'[i] = Msg("LP", loads + 1)
    BY <1>4, <1>5, AppendFacts
  <2> QED BY <2>1, Zenon
<1>7. NoLoad(stream) /\ \A i \in 1..Len(cmds) : cmds[i].op # "LP"
  BY <1>2 DEF Plain, OneLoad, NoLoad
<1>8. Suspended'
  BY <1>1, <1>2 DEF Plain, Suspended
<1>9. Framed'
  BY <1>1, Zenon DEF Plain, Framed
<1>10. OneLoad'
  <2>1. AtMostOneLoad(stream') /\ NoLoad(stream')
    BY <1>1, <1>7, Zenon DEF Plain, OneLoad
  <2>2. ASSUME NEW i \in 1..Len(cmds'), cmds'[i].op = "LP"
        PROVE  i = Len(cmds') /\ cmds'[i].handle = loads'
    BY <1>1, <1>6, <1>7, <2>2 DEF Msg
  <2> QED BY <1>2, <2>1, <2>2, Zenon DEF OneLoad, NoLoad
<1>11. Unheld'
  <2>1. \A r \in Slots : hold[r] \in Nat
    BY ReaderAssumption DEF ReaderInv, ReaderTypeOK
  <2>2. \A r \in Slots : Old(hold[r])'
    BY <1>1, <2>1 DEF Plain, Unheld, Old
  <2>3. ASSUME NEW i \in 1..Len(cmds'), cmds'[i].op = "UP"
        PROVE  Old(cmds[i].handle)' /\ \A r \in Slots : hold'[r] # 0 => hold'[r] # cmds'[i].handle
    <3>1. i \in 1..Len(cmds) /\ cmds'[i] = cmds[i]
      BY <1>6, <2>3 DEF Msg
    <3>2. cmds[i].handle \in Nat
      <4>1. cmds[i] \in Msgs
        BY <1>4, <3>1, ElementOfSeq
      <4> QED BY <4>1, ReaderAssumption DEF Msgs
    <3> QED BY <1>1, <2>3, <3>1, <3>2 DEF Plain, Unheld, Old
  <2> QED BY <2>2, <2>3 DEF Unheld
<1>12. StopsKept'
  <2>1. ToSet(cmds') = ToSet(cmds) \cup {Msg("LP", loads + 1)}
    <3>1. ToSet(Append(cmds, Msg("LP", loads + 1))) = ToSet(cmds) \cup {Msg("LP", loads + 1)}
      BY <1>4, ToSetFacts
    <3> QED BY <1>5, <3>1
  <2>2. \A h : Ended(h)' => Ended(h)
    <3>1. on_air' = on_air
      OBVIOUS
    <3> QED BY <2>1, <3>1, Zenon DEF Ended
  <2> QED BY <1>1, <2>2, Zenon DEF Plain, StopsKept, stream
<1> QED BY <1>8, <1>9, <1>10, <1>11, <1>12, Zenon DEF Plain

(* A dispatch where no deck loops: whoever was stopped holds nothing any more,   *)
(* and at most an unload is sent.                                                *)
LEMMA DispatchPlain ==
  ASSUME ReaderInv, Plain, setup.loops = {}, NEW m \in Sent, m.op # "LP", DispatchCommand(m)
  PROVE  /\ Reloads(m) = {} /\ loads' = loads /\ waiting' = waiting /\ answer' = answer
         /\ Unheld'
         /\ (\A i \in 1..Len(cmds) : cmds[i].op # "LP") => \A i \in 1..Len(cmds') : cmds'[i].op # "LP"
         /\ \A s \in Slots : hold'[s] # 0 => hold'[s] = hold[s] /\ m # Msg("SP", hold[s])
         /\ ToSet(cmds) \subseteq ToSet(cmds')
<1>1. /\ Reloads(m) = {} /\ loads' = loads /\ waiting' = waiting /\ answer' = answer
      /\ hold' = [s \in Slots |-> IF s \in StoppedBy(m) THEN 0 ELSE hold[s]]
      /\ cmds' = IF StoppedBy(m) # {} THEN cmds \o <<Msg("UP", m.handle)>> ELSE cmds
  <2>1. Reloads(m) = {}
    BY DEF Reloads
  <2> QED BY <2>1 DEF DispatchCommand, UnloadFirst
<1>2. \A s \in Slots : hold'[s] # 0 => hold'[s] = hold[s] /\ ~(m.op = "SP" /\ hold[s] = m.handle)
  BY <1>1 DEF StoppedBy
<1>3. \A s \in Slots : hold'[s] # 0 => hold'[s] = hold[s] /\ m # Msg("SP", hold[s])
  BY <1>2 DEF Msg
<1>4. \A s \in Slots : Old(hold[s])'
  BY <1>1, ReaderAssumption DEF Old, Plain, Unheld, ReaderInv, ReaderTypeOK
<1>5. CASE StoppedBy(m) = {}
  <2>1. cmds' = cmds
    BY <1>1, <1>5
  <2>2. Unheld'
    BY <1>1, <1>2, <1>4, <2>1 DEF Plain, Unheld, Old
  <2> QED BY <1>1, <1>3, <2>1, <2>2
<1>6. CASE StoppedBy(m) # {}
  <2> DEFINE u == Msg("UP", m.handle)
  <2>1. u \in Msgs /\ cmds \in Seq(Msgs)
    BY MsgType, Zenon DEF ReaderInv, ReaderTypeOK
  <2>2. cmds' = Append(cmds, u)
    BY <1>1, <1>6, <2>1, AppendIsConcat
  <2>3. u.op = "UP" /\ u.handle = m.handle
    BY DEF Msg
  <2> HIDE DEF u
  <2>4. /\ Len(cmds) \in Nat /\ Len(cmds') = Len(cmds) + 1
        /\ \A i \in 1..(Len(cmds) + 1) : \/ i \in 1..Len(cmds) /\ cmds'[i] = cmds[i]
                                         \/ i = Len(cmds) + 1 /\ cmds'[i] = u
    BY <2>1, <2>2, AppendFacts
  <2>5. \A i \in 1..Len(cmds') : \/ i \in 1..Len(cmds) /\ cmds'[i] = cmds[i]
                                 \/ cmds'[i] = u
    BY <2>4, Zenon
  <2>6. ToSet(cmds) \subseteq ToSet(cmds')
    <3>1. ToSet(Append(cmds, u)) = ToSet(cmds) \cup {u}
      BY <2>1, ToSetFacts
    <3> QED BY <2>2, <3>1
  <2>7. Old(m.handle)
    <3>1. PICK s \in Slots : hold[s] = m.handle
      BY <1>6 DEF StoppedBy
    <3> QED BY <3>1 DEF Plain, Unheld
  <2>8. ASSUME NEW i \in 1..Len(cmds'), cmds'[i].op = "UP"
        PROVE  Old(cmds[i].handle)' /\ \A s \in Slots : hold'[s] # 0 => hold'[s] # cmds'[i].handle
    <3>1. CASE i \in 1..Len(cmds) /\ cmds'[i] = cmds[i]
      BY <1>1, <1>2, <2>8, <3>1 DEF Plain, Unheld, Old
    <3>2. CASE cmds'[i] = u
      <4>1. Old(cmds[i].handle)'
        BY <1>1, <2>3, <2>7, <3>2 DEF Old
      <4>2. \A s \in Slots : hold'[s] # 0 => hold'[s] # m.handle
        BY <1>1, <1>2, <1>6 DEF StoppedBy
      <4> QED BY <2>3, <3>2, <4>1, <4>2
    <3> QED BY <2>5, <3>1, <3>2
  <2>9. Unheld'
    BY <1>4, <2>8 DEF Unheld
  <2>10. (\A i \in 1..Len(cmds) : cmds[i].op # "LP") => \A i \in 1..Len(cmds') : cmds'[i].op # "LP"
    BY <2>3, <2>5
  <2> QED BY <1>1, <1>3, <2>6, <2>9, <2>10
<1> QED BY <1>5, <1>6

(* A stop that has not reached its deck stays where it is kept, or is put aside. *)
LEMMA StopsCarried ==
  ASSUME StopsKept,
         \A s \in Slots : hold'[s] # 0 /\ Ended(hold[s])' =>
           /\ hold'[s] = hold[s] /\ Ended(hold[s])
           /\ Msg("SP", hold[s]) \in ToSet(delayed) => Msg("SP", hold[s]) \in ToSet(delayed')
           /\ [of |-> Msg("SP", hold[s]), last |-> TRUE] \in ToSet(stream) =>
                \/ Msg("SP", hold[s]) \in ToSet(delayed')
                \/ [of |-> Msg("SP", hold[s]), last |-> TRUE] \in ToSet(stream')
  PROVE  StopsKept'
  BY Zenon DEF StopsKept, stream

(* caed answers a command: a load's reply takes the place of the command.        *)
LEMMA ServesKeeps ==
  ASSUME ReaderInv, Plain, CaedServes
  PROVE  Plain'
<1> DEFINE c == Head(cmds)
<1>1. /\ cmds \in Seq(Msgs) /\ cmds # <<>> /\ cmds' = Tail(cmds) /\ buf' = buf /\ mode' = mode
      /\ args' = args /\ delayed' = delayed /\ waiting' = waiting /\ answer' = answer
      /\ hold' = hold /\ loads' = loads
  BY DEF CaedServes, readVars, loadVars, ReaderInv, ReaderTypeOK
<1>2. /\ cmds' \in Seq(Msgs) /\ Len(cmds) \in Nat \ {0} /\ Len(cmds') = Len(cmds) - 1
      /\ \A i \in 1..(Len(cmds) - 1) : cmds'[i] = cmds[i + 1]
      /\ c = cmds[1] /\ c \in Msgs
  BY <1>1, TailFacts
<1>3. \A i \in 1..Len(cmds') : i + 1 \in 1..Len(cmds) /\ cmds'[i] = cmds[i + 1]
  BY <1>2
<1>4. 1 \in 1..Len(cmds)
  BY <1>2
<1>5. PICK m \in Msgs : /\ Reply(m) /\ m.op = c.op
                        /\ m.op = "LP" => m.handle \in {0, c.handle}
  <2>1. Msg("LP", 0) \in Msgs /\ Msg("LP", 0).op = "LP" /\ Msg("LP", 0).handle = 0
    BY MsgType, ReaderAssumption DEF Msg
  <2>2. CASE Reply(c)
    BY <1>2, <2>2
  <2>3. CASE c.op = "LP" /\ Reply(Msg("LP", 0))
    BY <2>1, <2>3
  <2> QED BY <2>2, <2>3 DEF CaedServes
<1> HIDE DEF c
<1>6. /\ stream \in Seq(Pieces) /\ stream' = stream \o Both(m)
      /\ \A e \in ToSet(stream) : e \in ToSet(stream')
  BY <1>1, <1>5, StreamReply
<1>7. Suspended'
  BY <1>1 DEF Plain, Suspended
<1>8. Framed'
  BY <1>1, <1>6, FramedReply DEF Plain, Framed
<1>9. OneLoad'
  <2>1. m.op = "LP" => /\ NoLoad(stream) /\ m.handle \in {0, loads} /\ waiting # None /\ answer = <<>>
                       /\ Len(cmds) = 1
    BY <1>2, <1>4, <1>5 DEF Plain, OneLoad
  <2>2. AtMostOneLoad(stream)
    BY DEF Plain, OneLoad
  <2>3. /\ AtMostOneLoad(stream')
        /\ m.op # "LP" /\ NoLoad(stream) => NoLoad(stream')
        /\ \A i \in 1..Len(stream') :
             stream'[i].of = m \/ (i \in 1..Len(stream) /\ stream'[i] = stream[i])
    BY <1>6, <2>1, <2>2, LoadsReply
  <2>4. ASSUME NEW i \in 1..Len(cmds'), cmds'[i].op = "LP"
        PROVE  /\ i = Len(cmds') /\ cmds'[i].handle = loads /\ waiting # None /\ answer = <<>>
               /\ NoLoad(stream')
    <3>1. i + 1 \in 1..Len(cmds) /\ cmds[i + 1].op = "LP" /\ cmds'[i] = cmds[i + 1]
      BY <1>3, <2>4
    <3>2. /\ i + 1 = Len(cmds) /\ cmds[i + 1].handle = loads /\ waiting # None /\ answer = <<>>
          /\ NoLoad(stream)
      BY <3>1 DEF Plain, OneLoad
    <3>3. m.op # "LP"
      BY <1>2, <2>1, <3>2
    <3>4. i = Len(cmds')
      BY <1>2, <3>2
    <3> QED BY <2>3, <3>1, <3>2, <3>3, <3>4
  <2>5. ASSUME NEW i \in 1..Len(stream'), stream'[i].of.op = "LP"
        PROVE  stream'[i].of.handle \in {0, loads} /\ waiting # None /\ answer = <<>>
    <3>1. CASE stream'[i].of = m
      BY <2>1, <2>5, <3>1
    <3>2. CASE i \in 1..Len(stream) /\ stream'[i] = stream[i]
      BY <2>5, <3>2 DEF Plain, OneLoad
    <3> QED BY <2>3, <3>1, <3>2
  <2>6. answer # <<>> => answer[1] \in {0, loads}
    BY DEF Plain, OneLoad
  <2> QED BY <1>1, <2>3, <2>4, <2>5, <2>6 DEF OneLoad
<1>10. Unheld'
  <2>1. \A s \in Slots : Old(hold[s])'
    BY <1>1 DEF Plain, Unheld, Old
  <2>2. ASSUME NEW i \in 1..Len(cmds'), cmds'[i].op = "UP"
        PROVE  Old(cmds[i].handle)' /\ \A s \in Slots : hold'[s] # 0 => hold'[s] # cmds'[i].handle
    BY <1>1, <1>3, <2>2 DEF Plain, Unheld, Old
  <2> QED BY <2>1, <2>2 DEF Unheld
<1>11. StopsKept'
  <2>1. ToSet(cmds) = {c} \cup ToSet(cmds')
    BY <1>1, ToSetFacts DEF c
  <2>2. ASSUME NEW s \in Slots, hold[s] # 0, Ended(hold[s])' PROVE Ended(hold[s])
    <3>1. hold[s] \notin on_air' /\ Msg("PY", hold[s]) \notin ToSet(cmds')
      BY <1>1, <2>2 DEF Ended
    <3>2. c.op = "UP" => hold[s] # c.handle
      BY <1>2, <1>4, <2>2 DEF Plain, Unheld
    <3>3. c # Msg("PY", hold[s])
      BY <3>1 DEF CaedServes, Msg, c
    <3>4. hold[s] \notin on_air
      BY <3>1, <3>2 DEF CaedServes, c
    <3> QED BY <2>1, <3>1, <3>3, <3>4 DEF Ended
  <2>3. StopsKept
    BY DEF Plain
  <2>4. ASSUME NEW s \in Slots, hold'[s] # 0, Ended(hold[s])'
        PROVE  hold'[s] = hold[s] /\ Ended(hold[s])
    BY <1>1, <2>2, <2>4
  <2> QED BY <1>1, <1>6, <2>3, <2>4, StopsCarried
<1> QED BY <1>7, <1>8, <1>9, <1>10, <1>11 DEF Plain

(* A playout ends: its stop is on the way.                                       *)
LEMMA EndsKeeps ==
  ASSUME ReaderInv, Plain, NEW h \in Handles, PlayoutEnds(h)
  PROVE  Plain'
<1> DEFINE m == Msg("SP", h)
<1>1. /\ cmds' = cmds /\ buf' = buf /\ mode' = mode
      /\ args' = args /\ delayed' = delayed /\ waiting' = waiting /\ answer' = answer
      /\ hold' = hold /\ loads' = loads /\ on_air' = on_air \ {h} /\ Reply(m)
  BY DEF PlayoutEnds, readVars, loadVars
<1>2. m \in Msgs /\ m.op # "LP"
  BY MsgType, ReaderAssumption DEF Handles, Msg
<1>3. /\ stream \in Seq(Pieces) /\ stream' = stream \o Both(m)
      /\ \A e \in ToSet(stream) : e \in ToSet(stream')
      /\ [of |-> m, last |-> TRUE] \in ToSet(stream')
  BY <1>1, <1>2, StreamReply
<1>4. Suspended'
  BY <1>1 DEF Plain, Suspended
<1>5. Framed'
  BY <1>1, <1>2, <1>3, FramedReply DEF Plain, Framed
<1>6. OneLoad'
  <2>1. AtMostOneLoad(stream)
    BY DEF Plain, OneLoad
  <2> HIDE DEF m
  <2>2. /\ AtMostOneLoad(stream')
        /\ NoLoad(stream) => NoLoad(stream')
        /\ \A i \in 1..Len(stream') :
             stream'[i].of = m \/ (i \in 1..Len(stream) /\ stream'[i] = stream[i])
    BY <1>2, <1>3, <2>1, LoadsReply
  <2> QED BY <1>1, <1>2, <2>2 DEF Plain, OneLoad
<1>7. Unheld'
  BY <1>1 DEF Plain, Unheld, Old
<1>8. StopsKept'
  <2>1. StopsKept
    BY DEF Plain
  <2>2. ASSUME NEW s \in Slots, Ended(hold[s])', hold[s] # h PROVE Ended(hold[s])
    BY <1>1, <2>2 DEF Ended
  <2> QED BY <1>1, <1>3, <2>1, <2>2, Zenon DEF StopsKept, stream
<1> QED BY <1>4, <1>5, <1>6, <1>7, <1>8 DEF Plain

(* The parser, given the head of a framed stream                                 *)
LEMMA ParserReads ==
  ASSUME ReaderInv, Suspended, Framed, stream # <<>>
  PROVE  /\ stream[1] \in Pieces /\ stream[1].of \in Msgs
         /\ stream[1].last => ParsedAt(stream[1]) = stream[1].of
         /\ ~stream[1].last => AddWords(stream[1]) = [of |-> stream[1].of, whole |-> FALSE]
<1>1. stream \in Seq(Pieces)
  BY StreamHead
<1>2. stream[1] \in Pieces
  BY <1>1, TailFacts
<1>3. /\ stream[1].last => args # NoArgs /\ args.of = stream[1].of
      /\ ~stream[1].last => args = NoArgs
  BY <1>1, FramedTail DEF Framed
<1> QED BY <1>2, <1>3 DEF ParsedAt, AddWords, Pieces

(* loadPlay() reads: its answer, or a reply that it puts aside                   *)
LEMMA WaitKeeps ==
  ASSUME ReaderInv, Plain, WaitReads
  PROVE  Plain'
<1> DEFINE p == stream[1]
<1>1. /\ waiting # None /\ mode = "idle" /\ buf = <<>> /\ stream = wire /\ wire # <<>>
      /\ Head(wire) = p /\ stream \in Seq(Pieces)
  <2>1. waiting # None /\ mode = "idle" /\ buf = <<>> /\ wire # <<>>
    BY DEF WaitReads, Plain, Suspended
  <2>2. stream = wire /\ stream \in Seq(Pieces)
    BY <2>1, StreamHead
  <2> QED BY <2>1, <2>2, TailFacts
<1>2. stream' = Tail(stream)
  <2>1. buf' = <<>> /\ wire' = Tail(wire) /\ Tail(wire) \in Seq(Pieces)
    BY <1>1, TailFacts DEF WaitReads
  <2> QED BY <1>1, <2>1, ConcatEmptySeq DEF stream
<1>3. /\ cmds' = cmds /\ mode' = mode /\ waiting' = waiting /\ hold' = hold /\ loads' = loads
      /\ on_air' = on_air /\ buf' = buf
  BY DEF WaitReads
<1>4. /\ p \in Pieces /\ p.of \in Msgs
      /\ p.last => ParsedAt(p) = p.of
      /\ ~p.last => AddWords(p) = [of |-> p.of, whole |-> FALSE]
  BY <1>1, ParserReads DEF Plain
<1>5. /\ ~p.last => args' = [of |-> p.of, whole |-> FALSE] /\ answer' = answer /\ delayed' = delayed
      /\ p.last => /\ args' = NoArgs
                   /\ p.of.op = "LP" => answer' = <<p.of.handle>> /\ delayed' = delayed
                   /\ p.of.op # "LP" => answer' = answer /\ delayed' = Append(delayed, p.of)
  BY <1>1, <1>4 DEF WaitReads, PutAside
<1> HIDE DEF p
<1>6. Framed'
  <2>1. /\ p.last => FramedFor(stream', NoArgs)
        /\ ~p.last => FramedFor(stream', [of |-> p.of, whole |-> FALSE])
    BY <1>1, <1>2, FramedTail, Zenon DEF Plain, Framed, p
  <2>2. FramedFor(stream', args')
    BY <1>5, <2>1, Zenon
  <2> QED BY <2>2, Zenon DEF Framed
<1>7. Suspended'
  <2>1. ~args'.whole
    BY <1>5 DEF NoArgs
  <2> QED BY <1>1, <1>3, <2>1 DEF Plain, Suspended
<1>8. /\ AtMostOneLoad(stream')
      /\ p.of.op = "LP" /\ p.last => NoLoad(stream')
      /\ NoLoad(stream) => NoLoad(stream')
      /\ \A i \in 1..Len(stream') : i + 1 \in 1..Len(stream) /\ stream'[i] = stream[i + 1]
  BY <1>1, <1>2, LoadsTail DEF Plain, OneLoad, Framed, p
<1>9. 1 \in 1..Len(stream)
  BY <1>1, TailFacts
<1>10. OneLoad'
  <2>1. p.of.op = "LP" => p.of.handle \in {0, loads} /\ answer = <<>>
    BY <1>9 DEF Plain, OneLoad, p
  <2>2. CASE p.last /\ p.of.op = "LP"
    <3>1. \A i \in 1..Len(cmds) : cmds[i].op # "LP"
      BY <1>9, <2>2 DEF Plain, OneLoad, NoLoad, p
    <3>2. NoLoad(stream') /\ AtMostOneLoad(stream')
      BY <1>8, <2>2
    <3>3. answer'[1] \in {0, loads}
      BY <1>5, <2>1, <2>2
    <3> QED BY <1>3, <3>1, <3>2, <3>3 DEF OneLoad, NoLoad
  <2>3. CASE ~(p.last /\ p.of.op = "LP")
    <3>1. answer' = answer
      BY <1>5, <2>3
    <3> QED BY <1>3, <1>8, <3>1 DEF Plain, OneLoad
  <2> QED BY <2>2, <2>3
<1>11. Unheld'
  BY <1>3 DEF Plain, Unheld, Old
<1>12. StopsKept'
  <2>1. ToSet(stream) = {p} \cup ToSet(stream')
    BY <1>1, <1>2, ToSetFacts
  <2>2. delayed \in Seq(Sent)
    <3>1. Aside \subseteq Sent /\ delayed \in Seq(Aside)
      BY Zenon DEF Aside, Sent, ReaderInv, ReaderTypeOK
    <3> QED BY <3>1, SeqMonotonic
  <2>3. ToSet(Append(delayed, p.of)) = ToSet(delayed) \cup {p.of}
    <3>1. p.of \in Sent
      BY <1>4 DEF Sent
    <3> QED BY <2>2, <3>1, ToSetFacts
  <2>4. ToSet(delayed) \subseteq ToSet(delayed')
    BY <1>5, <2>3
  <2>5. \A h : p = [of |-> Msg("SP", h), last |-> TRUE] => Msg("SP", h) \in ToSet(delayed')
    <3> TAKE h
    <3> HAVE p = [of |-> Msg("SP", h), last |-> TRUE]
    <3>1. p.last /\ p.of = Msg("SP", h) /\ p.of.op # "LP"
      BY DEF Msg
    <3> QED BY <1>5, <2>3, <3>1
  <2>6. StopsKept
    BY DEF Plain
  <2>7. ASSUME NEW s \in Slots, Ended(hold[s])' PROVE Ended(hold[s])
    BY <1>3, <2>7 DEF Ended
  <2> QED BY <1>3, <2>1, <2>4, <2>5, <2>6, <2>7, StopsCarried, Zenon
<1> QED BY <1>6, <1>7, <1>10, <1>11, <1>12 DEF Plain

(* loadPlay() returns: the deck holds a new handle, and its start is on the way. *)
LEMMA ReturnKeeps ==
  ASSUME ReaderInv, Plain, LoadReturns
  PROVE  Plain'
<1> DEFINE h == answer[1]
<1>1. /\ answer # <<>> /\ waiting # None /\ waiting \in Slots /\ mode = "idle"
      /\ h \in {0, loads} /\ h \in Nat /\ loads \in Nat
  BY ReaderAssumption DEF LoadReturns, Plain, Suspended, OneLoad, ReaderInv, ReaderTypeOK
<1>2. /\ on_air' = on_air /\ mode' = mode /\ buf' = buf /\ delayed' = delayed
      /\ loads' = loads /\ args' = args /\ waiting' = None /\ answer' = <<>>
      /\ hold' = [hold EXCEPT ![waiting] = h] /\ hold \in [Slots -> 0..MaxLoads]
      /\ stream' = stream
  BY <1>1 DEF LoadReturns, stream, ReaderInv, ReaderTypeOK
<1>3. NoLoad(stream) /\ \A i \in 1..Len(cmds) : cmds[i].op # "LP"
  BY <1>1 DEF Plain, OneLoad, NoLoad
<1>4. h # 0 => Msg("PY", h) \in Msgs /\ cmds' = Append(cmds, Msg("PY", h))
  <2>1. h # 0 => h \in Handles
    BY <1>1, ReaderAssumption DEF Handles, ReaderInv, ReaderTypeOK
  <2> QED BY <2>1, MsgType DEF LoadReturns
<1>5. h = 0 => cmds' = cmds
  BY DEF LoadReturns
<1>6. cmds \in Seq(Msgs)
  BY DEF ReaderInv, ReaderTypeOK
<1> HIDE DEF h
<1>7. \A i \in 1..Len(cmds') : \/ i \in 1..Len(cmds) /\ cmds'[i] = cmds[i]
                               \/ cmds'[i] = Msg("PY", h)
  <2>1. CASE h = 0
    BY <1>5, <2>1
  <2>2. CASE h # 0
    <3>1. /\ Len(cmds') = Len(cmds) + 1
          /\ \A i \in 1..(Len(cmds) + 1) : \/ i \in 1..Len(cmds) /\ cmds'[i] = cmds[i]
                                           \/ i = Len(cmds) + 1 /\ cmds'[i] = Msg("PY", h)
      BY <1>4, <1>6, <2>2, AppendFacts
    <3> QED BY <3>1, Zenon
  <2> QED BY <2>1, <2>2
<1>8. /\ ToSet(cmds) \subseteq ToSet(cmds')
      /\ h # 0 => Msg("PY", h) \in ToSet(cmds')
  <2>1. CASE h = 0
    BY <1>5, <2>1
  <2>2. CASE h # 0
    <3>1. ToSet(Append(cmds, Msg("PY", h))) = ToSet(cmds) \cup {Msg("PY", h)}
      BY <1>4, <1>6, <2>2, ToSetFacts
    <3> QED BY <1>4, <2>2, <3>1
  <2> QED BY <2>1, <2>2
<1>9. Suspended'
  BY <1>1, <1>2 DEF Plain, Suspended
<1>10. Framed'
  BY <1>2, Zenon DEF Plain, Framed
<1>11. OneLoad'
  <2>1. \A i \in 1..Len(cmds') : cmds'[i].op # "LP"
    BY <1>3, <1>7 DEF Msg
  <2>2. NoLoad(stream') /\ AtMostOneLoad(stream')
    BY <1>2, <1>3 DEF Plain, OneLoad
  <2> QED BY <1>2, <2>1, <2>2 DEF OneLoad, NoLoad
<1>12. Unheld'
  <2>1. \A s \in Slots : Old(hold[s])'
    BY <1>1, <1>2 DEF Plain, Unheld, Old
  <2>2. ASSUME NEW i \in 1..Len(cmds'), cmds'[i].op = "UP"
        PROVE  Old(cmds[i].handle)' /\ \A s \in Slots : hold'[s] # 0 => hold'[s] # cmds'[i].handle
    <3>1. i \in 1..Len(cmds) /\ cmds'[i] = cmds[i]
      BY <1>7, <2>2 DEF Msg
    <3>2. Old(cmds[i].handle) /\ \A s \in Slots : hold[s] # 0 => hold[s] # cmds[i].handle
      BY <2>2, <3>1 DEF Plain, Unheld
    <3>3. cmds[i].handle \in Nat
      <4>1. cmds[i] \in Msgs
        BY <1>6, <3>1, ElementOfSeq
      <4> QED BY <4>1, ReaderAssumption DEF Msgs
    <3>4. cmds[i].handle < loads
      BY <1>1, <3>2 DEF Old
    <3>5. Old(cmds[i].handle)'
      BY <1>1, <1>2, <3>1, <3>3, <3>4 DEF Old
    <3> QED BY <1>1, <1>2, <3>1, <3>2, <3>3, <3>4, <3>5
  <2> QED BY <2>1, <2>2 DEF Unheld
<1>13. StopsKept'
  <2>1. ASSUME NEW s \in Slots, hold'[s] # 0, Ended(hold[s])'
        PROVE  hold'[s] = hold[s] /\ Ended(hold[s])
    <3>1. hold'[s] \notin on_air /\ Msg("PY", hold'[s]) \notin ToSet(cmds')
      BY <1>2, <2>1 DEF Ended
    <3>2. s # waiting
      BY <1>2, <1>8, <2>1, <3>1
    <3>3. hold'[s] = hold[s]
      BY <1>2, <3>2
    <3> QED BY <1>8, <3>1, <3>3 DEF Ended
  <2>2. StopsKept
    BY DEF Plain
  <2> QED BY <1>2, <2>1, <2>2, StopsCarried, Zenon
<1> QED BY <1>9, <1>10, <1>11, <1>12, <1>13 DEF Plain

(* readyData() goes through what was put aside.                                  *)
LEMMA DelayedKeeps ==
  ASSUME ReaderInv, Plain, setup.loops = {}, DispatchDelayed
  PROVE  Plain'
<1>1. /\ mode = "delayed" /\ waiting = None /\ on_air' = on_air /\ wire' = wire /\ buf' = buf
      /\ args' = args /\ stream' = stream /\ buf = <<>>
  BY DEF DispatchDelayed, stream, Plain, Suspended
<1>2. NoLoad(stream) /\ \A i \in 1..Len(cmds) : cmds[i].op # "LP"
  BY <1>1 DEF Plain, OneLoad, NoLoad
<1>3. CASE delayed = <<>>
  <2>1. /\ delayed' = delayed /\ cmds' = cmds /\ hold' = hold /\ loads' = loads
        /\ waiting' = waiting /\ answer' = answer /\ mode' = "read"
    BY <1>3 DEF DispatchDelayed, loadVars
  <2>2. Suspended'
    BY <1>1, <2>1 DEF Plain, Suspended
  <2>3. Framed'
    BY <1>1, Zenon DEF Plain, Framed
  <2>4. OneLoad' /\ Unheld'
    BY <1>1, <2>1 DEF Plain, OneLoad, Unheld, Old
  <2>5. StopsKept'
    BY <1>1, <2>1 DEF Plain, StopsKept, Ended
  <2> QED BY <2>2, <2>3, <2>4, <2>5 DEF Plain
<1>4. CASE delayed # <<>>
  <2> DEFINE m == Head(delayed)
  <2>1. DispatchCommand(m) /\ delayed' = Tail(delayed) /\ mode' = mode
    BY <1>4 DEF DispatchDelayed
  <2>2. delayed \in Seq(Aside)
    BY Zenon DEF Aside, ReaderInv, ReaderTypeOK
  <2>3. m \in Aside /\ ToSet(delayed) = {m} \cup ToSet(Tail(delayed))
    BY <1>4, <2>2, ToSetFacts, TailFacts
  <2>4. m \in Sent /\ m.op # "LP"
    BY <2>3 DEF Aside, Sent
  <2> HIDE DEF m
  <2>5. /\ loads' = loads /\ waiting' = waiting /\ answer' = answer
        /\ Unheld'
        /\ \A i \in 1..Len(cmds') : cmds'[i].op # "LP"
        /\ \A s \in Slots : hold'[s] # 0 => hold'[s] = hold[s] /\ m # Msg("SP", hold[s])
        /\ ToSet(cmds) \subseteq ToSet(cmds')
    BY <1>2, <2>1, <2>4, DispatchPlain
  <2>6. Suspended'
    BY <1>1, <2>1, <2>5 DEF Plain, Suspended
  <2>7. Framed'
    BY <1>1, Zenon DEF Plain, Framed
  <2>8. OneLoad'
    BY <1>1, <1>2, <2>5 DEF Plain, OneLoad
  <2>9. StopsKept'
    <3>1. ASSUME NEW s \in Slots, hold'[s] # 0, Ended(hold[s])'
          PROVE  hold'[s] = hold[s] /\ Ended(hold[s])
      BY <1>1, <2>5, <3>1 DEF Ended
    <3>2. StopsKept
      BY DEF Plain
    <3> QED BY <1>1, <2>1, <2>3, <2>5, <3>1, <3>2, StopsCarried, Zenon
  <2> QED BY <2>5, <2>6, <2>7, <2>8, <2>9 DEF Plain
<1> QED BY <1>3, <1>4

(* readyData() goes through a block: a reply, once complete, reaches its deck.   *)
LEMMA BlockKeeps ==
  ASSUME ReaderInv, Plain, setup.loops = {}, DispatchBlock
  PROVE  Plain'
<1> DEFINE p == stream[1]
<1>1. /\ waiting = None /\ mode = "read" /\ buf # <<>> /\ on_air' = on_air /\ wire' = wire
      /\ mode' = mode /\ delayed' = delayed /\ buf' = Tail(buf)
  BY DEF DispatchBlock
<1>2. stream # <<>> /\ p = Head(buf) /\ stream' = Tail(stream) /\ stream \in Seq(Pieces)
  BY <1>1, StreamHead DEF stream
<1>3. /\ p \in Pieces /\ p.of \in Msgs
      /\ p.last => ParsedAt(p) = p.of
      /\ ~p.last => AddWords(p) = [of |-> p.of, whole |-> FALSE]
  BY <1>2, ParserReads DEF Plain
<1>4. /\ NoLoad(stream) /\ \A i \in 1..Len(cmds) : cmds[i].op # "LP"
      /\ AtMostOneLoad(stream)
  BY <1>1 DEF Plain, OneLoad, NoLoad
<1>5. p.of.op # "LP"
  <2>1. 1 \in 1..Len(stream)
    BY <1>2, TailFacts
  <2> QED BY <1>4, <2>1 DEF NoLoad
<1>6. /\ ~p.last => /\ args' = [of |-> p.of, whole |-> FALSE] /\ cmds' = cmds /\ waiting' = waiting
                    /\ answer' = answer /\ hold' = hold /\ loads' = loads
      /\ p.last => /\ DispatchCommand(p.of)
                   /\ args' = IF Reloads(p.of) = {} THEN NoArgs ELSE [of |-> p.of, whole |-> TRUE]
  BY <1>2, <1>3 DEF DispatchBlock, loadVars
<1> HIDE DEF p
<1>7. p.last => /\ Reloads(p.of) = {} /\ loads' = loads /\ waiting' = waiting /\ answer' = answer
                /\ Unheld'
                /\ \A i \in 1..Len(cmds') : cmds'[i].op # "LP"
                /\ \A s \in Slots : hold'[s] # 0 => hold'[s] = hold[s] /\ p.of # Msg("SP", hold[s])
                /\ ToSet(cmds) \subseteq ToSet(cmds')
  <2>1. p.of \in Sent
    BY <1>3 DEF Sent
  <2> QED BY <1>4, <1>5, <1>6, <2>1, DispatchPlain
<1>8. /\ loads' = loads /\ waiting' = waiting /\ answer' = answer
      /\ p.last => args' = NoArgs
      /\ ToSet(cmds) \subseteq ToSet(cmds')
      /\ \A i \in 1..Len(cmds') : cmds'[i].op # "LP"
  BY <1>4, <1>6, <1>7
<1>9. Framed'
  <2>1. /\ p.last => FramedFor(stream', NoArgs)
        /\ ~p.last => FramedFor(stream', [of |-> p.of, whole |-> FALSE])
    BY <1>2, FramedTail, Zenon DEF Plain, Framed, p
  <2>2. FramedFor(stream', args')
    BY <1>6, <1>8, <2>1, Zenon
  <2> QED BY <2>2, Zenon DEF Framed
<1>10. Suspended'
  <2>1. ~args'.whole
    BY <1>6, <1>8 DEF NoArgs
  <2> QED BY <1>1, <1>8, <2>1 DEF Plain, Suspended
<1>11. OneLoad'
  <2>1. NoLoad(stream') /\ AtMostOneLoad(stream')
    BY <1>2, <1>4, LoadsTail DEF Plain, Framed
  <2> QED BY <1>8, <2>1 DEF Plain, OneLoad, NoLoad
<1>12. Unheld'
  <2>1. ~p.last => Unheld'
    BY <1>6 DEF Plain, Unheld, Old
  <2> QED BY <1>7, <2>1
<1>13. StopsKept'
  <2>1. ToSet(stream) = {p} \cup ToSet(stream')
    <3>1. Head(stream) = p
      BY <1>2, TailFacts DEF p
    <3> QED BY <1>2, <3>1, ToSetFacts
  <2>2. \A s \in Slots : hold'[s] # 0 => /\ hold'[s] = hold[s]
                                         /\ p # [of |-> Msg("SP", hold[s]), last |-> TRUE]
    BY <1>6, <1>7
  <2>3. ASSUME NEW s \in Slots, hold'[s] # 0, Ended(hold[s])'
        PROVE  hold'[s] = hold[s] /\ Ended(hold[s])
    BY <1>1, <1>8, <2>2, <2>3 DEF Ended
  <2>4. StopsKept
    BY DEF Plain
  <2> QED BY <1>1, <2>1, <2>2, <2>3, <2>4, StopsCarried, Zenon
<1> QED BY <1>9, <1>10, <1>11, <1>12, <1>13 DEF Plain

LEMMA PlainInit == ReaderInit => PlainInv
<1> SUFFICES ASSUME ReaderInit PROVE Plain
  BY DEF PlainInv
<1>1. stream = <<>> /\ Len(stream) = 0 /\ Len(cmds) = 0
  BY DEF ReaderInit, stream
<1>2. Suspended /\ OneLoad /\ Unheld /\ StopsKept
  BY <1>1, ReaderAssumption
  DEF ReaderInit, Suspended, OneLoad, AtMostOneLoad, NoLoad, Unheld, Old, StopsKept, NoArgs
<1>3. Framed
  BY <1>1 DEF ReaderInit, Framed, FramedFor
<1> QED BY <1>2, <1>3 DEF Plain

LEMMA PlainNext == ReaderInv /\ PlainInv /\ [ReaderNext]_readerVars => PlainInv'
<1>1. [ReaderNext]_readerVars => setup' = setup
  BY DEF ReaderNext, ReaderStep, readerVars, caedVars, readVars, loadVars, CaedServes, PlayoutEnds, Click,
         WaitReads, WaitSpins, LoadReturns, readyData, DispatchDelayed, readBlock, DispatchBlock,
         readyDataEnds
<1> SUFFICES ASSUME ReaderInv, Plain, setup.loops = {}, [ReaderNext]_readerVars
             PROVE  Plain'
  BY <1>1 DEF PlainInv
<1> USE DEF caedVars, readVars, loadVars, readerVars
(* Steps that leave the stream, the commands and the loads as they are           *)
<1>2. ASSUME stream' = stream, UNCHANGED <<cmds, on_air, args, delayed, waiting, answer, hold, loads>>,
             Suspended'
      PROVE  Plain'
  <2>1. Framed'
    BY <1>2, Zenon DEF Plain, Framed
  <2>2. OneLoad' /\ Unheld'
    BY <1>2 DEF Plain, OneLoad, Unheld, Old
  <2>3. StopsKept'
    BY <1>2 DEF Plain, StopsKept, Ended, stream
  <2> QED BY <1>2, <2>1, <2>2, <2>3 DEF Plain
<1>3. CASE readBlock
  <2>1. PICK n \in 1..Len(wire) : buf' = SubSeq(wire, 1, n) /\ wire' = SubSeq(wire, n + 1, Len(wire))
    BY <1>3 DEF readBlock
  <2>2. wire \in Seq(Pieces) /\ stream = wire
    BY <1>3, StreamHead DEF readBlock, ReaderInv, ReaderTypeOK
  <2>3. stream' = wire
    <3>1. Len(wire) \in Nat /\ 1 \in 1..(Len(wire) + 1) /\ n \in 0..Len(wire) /\ Len(wire) \in n..Len(wire)
      BY <2>2, LenProperties
    <3>2. SubSeq(wire, 1, n) \o SubSeq(wire, n + 1, Len(wire)) = SubSeq(wire, 1, Len(wire))
      BY <2>2, <3>1, ConcatAdjacentSubSeq
    <3> QED BY <2>1, <2>2, <3>2, SubSeqFull DEF stream
  <2>4. Suspended'
    BY <1>3 DEF readBlock, Plain, Suspended
  <2> QED BY <1>2, <1>3, <2>2, <2>3, <2>4 DEF readBlock
<1>4. CASE readyData
  BY <1>2, <1>4 DEF readyData, stream, Plain, Suspended
<1>5. CASE readyDataEnds
  BY <1>2, <1>5 DEF readyDataEnds, stream, Plain, Suspended
<1>6. CASE UNCHANGED readerVars
  BY <1>2, <1>6 DEF stream, Plain, Suspended
<1>7. CASE WaitSpins
  BY <1>6, <1>7 DEF WaitSpins
<1> QED
  BY <1>3, <1>4, <1>5, <1>6, <1>7, ServesKeeps, EndsKeeps, ClickKeeps, WaitKeeps, ReturnKeeps,
     DelayedKeeps, BlockKeeps
  DEF ReaderNext, ReaderStep

(* In a client none of whose decks loops, no stop of a playout is ever lost,     *)
(* wherever blocks end and however the replies, the loads and the ends of other  *)
(* playouts interleave: readyData() and loadPlay() share one parser, and neither *)
(* takes words from the other.  (With a deck that loops beside another one the   *)
(* stop is lost: run cae_lost_stop.)                                             *)
THEOREM StopsNeverLost == ReaderSpec => [](setup.loops = {} => StopsKept)
<1>1. ReaderInv /\ PlainInv => (setup.loops = {} => StopsKept)
  BY DEF PlainInv, Plain
<1> QED BY <1>1, ReaderTypeInit, ReaderTypeNext, PlainInit, PlainNext, PTL DEF ReaderSpec
================================================================================
