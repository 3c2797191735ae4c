---------------------------- MODULE RingBufferProofs ----------------------------
(* Proofs about RingBuffer for every size of the ring and every size of call.    *)
EXTENDS RingBuffer, TLAPS

--------------------------------------------------------------------------------
(* The inductive invariant.                                                      *)

(* What a call may still do, in the stream or not: wherever it finds its pointer *)
(* next, as it left it or at 0, both of its parts end within the buffer.         *)
CopySane(c) == /\ c.n >= 1 /\ c.k <= c.n /\ c.at + c.n <= Size
               /\ Masked(c.at + c.n) + c.rest <= Size /\ Masked(c.n) + c.rest <= Size
MaskSane(c) == c.k = 0 /\ c.rest = 0 /\ Masked(c.at) + c.n <= Size
LoadSane(c) == c.k = 0 /\ c.n >= 1 /\ c.at < Size
CallSane(c, ptr) ==
  /\ c.pc \in {"idle", "reset"} => ptr < Size /\ c.k = 0
  /\ c.pc \in {"load", "copy", "mask"} => ptr \in {c.at, 0}
  /\ c.pc = "load" => LoadSane(c)
  /\ c.pc = "copy" => CopySane(c)
  /\ c.pc = "mask" => MaskSane(c)
CallsSane == /\ CallSane(wr, write_ptr) /\ wr.pc # "load" /\ (wr.pc \in {"copy", "mask"} => wr.at = write_ptr)
             /\ CallSane(rd, read_ptr) /\ rd.pc # "reset"

(* Bytes the writer has handed over and the reader has not given back            *)
Between == (sent - wr.k) - (got - rd.k)

(* The reader in the stream: the pointers are as far apart as bytes are between  *)
(* them, each call keeps to the side of its own, and each of those bytes, and    *)
(* each that the writer has copied since, is in its place.                       *)
PointersApart == /\ Between >= 0 /\ Between <= Size - 1 /\ rd.k <= Between
                 /\ Masked(write_ptr) = Masked(Masked(read_ptr) + Between)
WriterKeeps ==
  /\ wr.pc # "reset"
  /\ wr.pc = "copy" => /\ Between + wr.n + wr.rest <= Size - 1
                       /\ wr.rest > 0 => write_ptr + wr.n = Size
  /\ wr.pc = "mask" => /\ Between + wr.n <= Size - 1
                       /\ wr.n > 0 => write_ptr = Size
ReaderKeeps ==
  /\ rd.pc # "idle" => rd.at = read_ptr
  /\ rd.pc = "load" => readSpace(rd.rest, read_ptr) <= Between
  /\ rd.pc = "copy" => /\ rd.n + rd.rest <= Between
                       /\ rd.rest > 0 => read_ptr + rd.n = Size
  /\ rd.pc = "mask" => /\ rd.n <= Between
                       /\ rd.n > 0 => read_ptr = Size
BytesInPlace == \A j \in 0..(Between + wr.k - 1) : buf[Masked(read_ptr + j)] = got - rd.k + j + 1
InStream == PointersApart /\ WriterKeeps /\ ReaderKeeps /\ BytesInPlace /\ last = got

RingInv == RingTypeOK /\ CallsSane /\ (adrift \/ InStream)

--------------------------------------------------------------------------------
(* The parts of a call.                                                          *)

LEMMA CallFacts ==
  ASSUME NEW p \in 0..(Size - 1), NEW q \in {p, 0}, NEW space \in 1..Size, NEW cnt \in 1..Size,
         NEW c, c = Call(p, q, space, cnt)
  PROVE  /\ c \in Calls /\ c.pc = "copy" /\ c.at = q /\ c.k = 0 /\ CopySane(c)
         /\ q = p => /\ c.n + c.rest <= space /\ c.n + c.rest <= cnt
                     /\ c.rest > 0 => p + c.n = Size
<1> DEFINE to == IF cnt > space THEN space ELSE cnt
           wraps == p + to > Size
           n == IF wraps THEN Size - q ELSE to
           rest == IF wraps THEN Masked(p + to) ELSE 0
<1>1. to \in 1..Size /\ to <= space /\ to <= cnt
  BY RingAssumption
<1>2. c = [pc |-> "copy", at |-> q, n |-> n, rest |-> rest, k |-> 0]
  BY DEF Call
<1>3. c.pc = "copy" /\ c.at = q /\ c.n = n /\ c.rest = rest /\ c.k = 0
  BY <1>2
<1> HIDE DEF to
<1>4. /\ n \in 1..Size /\ rest \in 0..Size /\ q + n <= Size
      /\ q = p => n + rest = to /\ (rest > 0 => p + n = Size)
  BY <1>1, RingAssumption DEF Masked
<1>5. Masked(q + n) + rest <= Size /\ Masked(n) + rest <= Size
  <2>1. CASE ~wraps
    BY <1>1, <2>1, RingAssumption DEF Masked
  <2>2. CASE wraps /\ q = p
    BY <1>1, <2>2, RingAssumption DEF Masked
  <2>3. CASE wraps /\ q = 0
    BY <1>1, <2>3, RingAssumption DEF Masked
  <2> QED BY <2>1, <2>2, <2>3
<1> HIDE DEF n, rest
<1>6. c \in Calls
  <2>1. q \in 0..Size /\ n \in 0..Size /\ 0 \in 0..Size
    BY <1>4, RingAssumption
  <2> QED BY <1>2, <1>4, <2>1 DEF Calls
<1>7. CopySane(c)
  BY <1>3, <1>4, <1>5, RingAssumption DEF CopySane
<1> QED BY <1>1, <1>3, <1>4, <1>6, <1>7

LEMMA AdvancedFacts ==
  ASSUME NEW c \in Calls, NEW ptr \in 0..Size, NEW d, d = Advanced(c, ptr)
  PROVE  d \in Calls /\ d.pc = "mask" /\ d.at = ptr /\ d.n = c.rest /\ d.rest = 0 /\ d.k = 0
<1>1. 0 \in 0..Size
  BY RingAssumption
<1> QED BY <1>1 DEF Advanced, Calls

LEMMA ResumedFacts ==
  ASSUME NEW c \in Calls, NEW ptr \in 0..Size, NEW d, d = Resumed(c, ptr)
  PROVE  /\ d \in Calls
         /\ c.n = 0 => d.pc = "idle" /\ d.k = 0
         /\ c.n # 0 => d.pc = "copy" /\ d.at = Masked(ptr) /\ d.n = c.n /\ d.rest = c.rest /\ d.k = c.k
<1>1. 0 \in 0..Size /\ Masked(ptr) \in 0..Size
  BY RingAssumption DEF Masked
<1>2. CASE c.n = 0
  <2>1. d = NoCall
    BY <1>2 DEF Resumed
  <2> QED BY <1>1, <1>2, <2>1 DEF NoCall, Calls
<1>3. CASE c.n # 0
  <2>1. d = [c EXCEPT !.pc = "copy", !.at = Masked(ptr)]
    BY <1>3 DEF Resumed
  <2> QED BY <1>1, <1>3, <2>1 DEF Calls
<1> QED BY <1>2, <1>3

LEMMA CountedFacts ==
  ASSUME NEW c \in Calls, c.k < c.n, NEW d, d = [c EXCEPT !.k = @ + 1]
  PROVE  /\ d \in Calls /\ d.pc = c.pc /\ d.at = c.at /\ d.n = c.n /\ d.rest = c.rest /\ d.k = c.k + 1
<1>1. c.k + 1 \in 0..Size
  BY RingAssumption DEF Calls
<1> QED BY <1>1 DEF Calls

(* The numbers of a call                                                         *)
LEMMA CallNumbers ==
  ASSUME NEW c \in Calls
  PROVE  /\ c.at \in 0..Size /\ c.n \in 0..Size /\ c.rest \in 0..Size /\ c.k \in 0..Size
         /\ c.pc \in {"idle", "load", "copy", "mask", "reset"}
BY DEF Calls

(* A call begins, goes on and ends within the buffer.                            *)
LEMMA StartSane ==
  ASSUME NEW p \in 0..(Size - 1), NEW q \in {p, 0}, NEW ptr \in {q, 0}, NEW space \in 1..Size, NEW cnt \in 1..Size,
         NEW c, c = Call(p, q, space, cnt)
  PROVE  c \in Calls /\ CallSane(c, ptr) /\ c.pc = "copy" /\ c.at = q
BY CallFacts DEF CallSane

LEMMA AdvanceSane ==
  ASSUME NEW c \in Calls, CopySane(c), NEW p \in {c.at, 0}, NEW d, d = Advanced(c, p + c.n)
  PROVE  d \in Calls /\ CallSane(d, p + c.n) /\ d.pc = "mask" /\ d.at = p + c.n /\ p + c.n \in 0..Size
<1>1. /\ c.at \in 0..Size /\ c.n \in 0..Size /\ c.rest \in 0..Size /\ c.at + c.n <= Size
      /\ Masked(c.at + c.n) + c.rest <= Size /\ Masked(c.n) + c.rest <= Size
  BY CallNumbers DEF CopySane
<1>2. p + c.n \in 0..Size /\ Masked(p + c.n) + c.rest <= Size
  <2>1. CASE p = c.at
    BY <1>1, <2>1, RingAssumption
  <2>2. CASE p = 0
    <3>1. p + c.n = c.n
      BY <1>1, <2>2
    <3> QED BY <1>1, <3>1
  <2> QED BY <2>1, <2>2
<1>3. d \in Calls /\ d.pc = "mask" /\ d.at = p + c.n /\ d.n = c.rest /\ d.rest = 0 /\ d.k = 0
  BY <1>2, AdvancedFacts
<1>4. MaskSane(d)
  BY <1>2, <1>3 DEF MaskSane
<1> QED BY <1>2, <1>3, <1>4 DEF CallSane

LEMMA ResumeSane ==
  ASSUME NEW c \in Calls, MaskSane(c), NEW p \in {c.at, 0}, NEW d, d = Resumed(c, p)
  PROVE  /\ d \in Calls /\ CallSane(d, Masked(p)) /\ d.pc \in {"idle", "copy"} /\ (d.pc = "copy" => d.at = Masked(p))
         /\ Masked(p) \in 0..Size
<1>1. c.at \in 0..Size /\ c.n \in 0..Size /\ c.rest = 0 /\ c.k = 0 /\ Masked(c.at) + c.n <= Size /\ p \in 0..Size
  BY CallNumbers, RingAssumption DEF MaskSane
<1>2. /\ d \in Calls
      /\ c.n = 0 => d.pc = "idle" /\ d.k = 0
      /\ c.n # 0 => d.pc = "copy" /\ d.at = Masked(p) /\ d.n = c.n /\ d.rest = c.rest /\ d.k = c.k
  BY <1>1, ResumedFacts
<1>3. Masked(p) \in 0..(Size - 1) /\ Masked(p) \in 0..Size /\ Masked(p) + c.n <= Size
  BY <1>1, RingAssumption DEF Masked
<1>4. CASE c.n = 0
  BY <1>2, <1>3, <1>4, RingAssumption DEF CallSane
<1>5. CASE c.n # 0
  <2>1. CopySane(d)
    <3>1. d.n >= 1 /\ d.k <= d.n /\ d.at + d.n <= Size /\ d.rest = 0 /\ d.at \in Nat /\ d.n \in 0..Size
      BY <1>1, <1>2, <1>3, <1>5, RingAssumption
    <3>2. Masked(d.at + d.n) <= Size /\ Masked(d.n) <= Size /\ Masked(d.at + d.n) \in Int /\ Masked(d.n) \in Int
      BY <3>1, RingAssumption DEF Masked
    <3> QED BY <3>1, <3>2 DEF CopySane
  <2> QED BY <1>2, <1>3, <1>5, <2>1 DEF CallSane
<1> QED BY <1>2, <1>3, <1>4, <1>5

LEMMA CountSane ==
  ASSUME NEW c \in Calls, NEW ptr \in 0..Size, CallSane(c, ptr), c.pc = "copy", c.k < c.n,
         NEW d, d = [c EXCEPT !.k = @ + 1]
  PROVE  d \in Calls /\ CallSane(d, ptr) /\ d.pc = "copy" /\ d.at = c.at /\ c.at + c.k \in 0..(Size - 1)
<1>1. /\ d \in Calls /\ d.pc = c.pc /\ d.at = c.at /\ d.n = c.n /\ d.rest = c.rest /\ d.k = c.k + 1
  BY CountedFacts
<1>2. CopySane(c)
  BY DEF CallSane
<1>3. CopySane(d) /\ c.at + c.k \in 0..(Size - 1)
  BY <1>1, <1>2, CallNumbers, RingAssumption DEF CopySane
<1> QED BY <1>1, <1>3 DEF CallSane

(* What a thread sees of the ring is a number of bytes that fits.                *)
LEMMA Spaces ==
  ASSUME NEW w \in 0..Size, NEW r \in 0..Size
  PROVE  /\ w < Size => writeSpace(w, r) \in 0..(Size - 1)
         /\ r < Size => readSpace(w, r) \in 0..Size
BY RingAssumption DEF writeSpace, readSpace, Masked

--------------------------------------------------------------------------------
(* Whatever the reader reads, every step keeps the calls within the buffer.      *)

(* How read() begins, and what it has of its own pointer in hand.                *)
LEMMA ReadStartCases ==
  ASSUME RingTypeOK, CallsSane, ReadStart
  PROVE  \/ rd' = NoCall
         \/ \E p0, p, q \in {rd.at, read_ptr} :
              /\ p \in 0..(Size - 1) /\ q \in {p, 0} /\ read_ptr \in {q, 0}
              /\ readSpace(rd.rest, p0) \in 1..Size /\ rd.n \in 1..Size
              /\ rd' = Call(p, q, readSpace(rd.rest, p0), rd.n)
<1>1. rd \in Calls /\ read_ptr \in {rd.at, 0} /\ rd.n >= 1 /\ rd.at < Size
  BY DEF RingTypeOK, CallsSane, CallSane, LoadSane, ReadStart
<1>2. rd.at \in 0..(Size - 1) /\ rd.n \in 1..Size /\ rd.rest \in 0..Size /\ 0 \in 0..(Size - 1)
  BY <1>1, CallNumbers, RingAssumption
<1>3. PICK p0, p, q \in {rd.at, read_ptr} :
        /\ p0 = read_ptr => p = read_ptr
        /\ p = read_ptr => q = read_ptr
        /\ rd' = IF readSpace(rd.rest, p0) = 0 THEN NoCall ELSE Call(p, q, readSpace(rd.rest, p0), rd.n)
  BY DEF ReadStart
<1>4. p0 \in 0..(Size - 1) /\ p \in 0..(Size - 1) /\ q \in {p, 0} /\ read_ptr \in {q, 0}
  BY <1>1, <1>2, <1>3
<1>5. CASE readSpace(rd.rest, p0) = 0
  BY <1>3, <1>5
<1>6. CASE readSpace(rd.rest, p0) # 0
  <2>1. p0 \in 0..Size /\ p0 < Size
    BY <1>4, RingAssumption
  <2>2. readSpace(rd.rest, p0) \in 0..Size
    BY <1>2, <2>1, Spaces
  <2>3. readSpace(rd.rest, p0) \in 1..Size
    BY <1>6, <2>2, RingAssumption
  <2>4. rd' = Call(p, q, readSpace(rd.rest, p0), rd.n)
    BY <1>3, <1>6
  <2> QED BY <1>2, <1>4, <2>3, <2>4
<1> QED BY <1>5, <1>6

LEMMA SaneNext ==
  ASSUME RingTypeOK, CallsSane, RingNext
  PROVE  RingTypeOK' /\ CallsSane'
<1>0. /\ buf \in [0..(Size - 1) -> Nat] /\ write_ptr \in 0..Size /\ read_ptr \in 0..Size /\ wr \in Calls /\ rd \in Calls
      /\ sent \in Nat /\ got \in Nat /\ last \in Nat /\ adrift \in BOOLEAN
      /\ CallSane(wr, write_ptr) /\ CallSane(rd, read_ptr) /\ rd.pc # "reset"
      /\ wr.pc # "load" /\ (wr.pc \in {"copy", "mask"} => wr.at = write_ptr)
  BY DEF RingTypeOK, CallsSane
<1>01. NoCall \in Calls /\ NoCall.pc = "idle" /\ NoCall.k = 0 /\ 0 \in 0..Size /\ 0 < Size
  BY RingAssumption DEF NoCall, Calls
<1>1. ASSUME NEW cnt \in 1..Size, WriteStart(cnt) PROVE RingTypeOK' /\ CallsSane'
  <2>1. write_ptr \in 0..(Size - 1) /\ writeSpace(write_ptr, read_ptr) \in 1..Size
    <3>1. write_ptr < Size /\ writeSpace(write_ptr, read_ptr) # 0
      BY <1>0, <1>1 DEF WriteStart, CallSane
    <3>2. writeSpace(write_ptr, read_ptr) \in 0..(Size - 1)
      BY <1>0, <3>1, Spaces
    <3> QED BY <1>0, <3>1, <3>2, RingAssumption
  <2>2. wr' \in Calls /\ CallSane(wr', write_ptr) /\ wr'.pc = "copy" /\ wr'.at = write_ptr
    BY <1>1, <2>1, StartSane DEF WriteStart
  <2> QED BY <1>0, <1>1, <2>2 DEF WriteStart, RingTypeOK, CallsSane
<1>2. CASE WriteByte
  <2>1. /\ wr' \in Calls /\ CallSane(wr', write_ptr) /\ wr'.pc = "copy" /\ wr'.at = wr.at
        /\ wr.at + wr.k \in 0..(Size - 1)
    BY <1>0, <1>2, CountSane DEF WriteByte
  <2>2. sent + 1 \in Nat
    BY <1>0
  <2>3. buf' \in [0..(Size - 1) -> Nat]
    BY <1>0, <1>2, <2>2 DEF WriteByte
  <2> QED BY <1>0, <1>2, <2>1, <2>2, <2>3 DEF WriteByte, RingTypeOK, CallsSane
<1>3. CASE WriteAdvance
  <2>1. CopySane(wr) /\ wr.at = write_ptr /\ write_ptr' = write_ptr + wr.n /\ wr' = Advanced(wr, write_ptr + wr.n)
    BY <1>0, <1>3 DEF WriteAdvance, CallSane
  <2>2. /\ wr' \in Calls /\ CallSane(wr', write_ptr + wr.n) /\ wr'.pc = "mask" /\ wr'.at = write_ptr + wr.n
        /\ write_ptr + wr.n \in 0..Size
    BY <1>0, <2>1, AdvanceSane
  <2> QED BY <1>0, <1>3, <2>1, <2>2 DEF WriteAdvance, RingTypeOK, CallsSane
<1>4. CASE WriteMask
  <2>1. MaskSane(wr) /\ wr.at = write_ptr
    BY <1>0, <1>4 DEF WriteMask, CallSane
  <2>2. /\ wr' \in Calls /\ CallSane(wr', Masked(write_ptr)) /\ wr'.pc \in {"idle", "copy"}
        /\ (wr'.pc = "copy" => wr'.at = Masked(write_ptr)) /\ Masked(write_ptr) \in 0..Size
    BY <1>0, <1>4, <2>1, ResumeSane DEF WriteMask
  <2> QED BY <1>0, <1>4, <2>2 DEF WriteMask, RingTypeOK, CallsSane
<1>5. CASE ResetRead
  <2>1. wr' \in Calls /\ wr'.pc = "reset" /\ wr'.k = wr.k
    BY <1>0, <1>5 DEF ResetRead, Calls
  <2>2. CallSane(wr', write_ptr)
    BY <1>0, <1>5, <2>1 DEF ResetRead, CallSane
  <2>3. CallSane(rd, 0)
    BY <1>0, <1>01 DEF CallSane
  <2> QED BY <1>0, <1>01, <1>5, <2>1, <2>2, <2>3 DEF ResetRead, RingTypeOK, CallsSane
<1>6. CASE ResetWrite
  <2>1. CallSane(NoCall, 0)
    BY <1>01 DEF CallSane
  <2>2. adrift' \in BOOLEAN /\ got' \in Nat /\ last' \in Nat
    BY <1>0, <1>6 DEF ResetWrite
  <2> QED BY <1>0, <1>01, <1>6, <2>1, <2>2 DEF ResetWrite, RingTypeOK, CallsSane
<1>7. ASSUME NEW cnt \in 1..Size, ReadEnter(cnt) PROVE RingTypeOK' /\ CallsSane'
  <2>1. rd' = [pc |-> "load", at |-> read_ptr, n |-> cnt, rest |-> write_ptr, k |-> 0] /\ read_ptr < Size
    BY <1>0, <1>7 DEF ReadEnter, CallSane
  <2>2. cnt \in 0..Size /\ cnt >= 1
    BY RingAssumption
  <2>3. rd' \in Calls
    BY <1>0, <1>01, <2>1, <2>2 DEF Calls
  <2>4. CallSane(rd', read_ptr)
    BY <2>1, <2>2 DEF CallSane, LoadSane
  <2>5. adrift' \in BOOLEAN
    BY <1>7 DEF ReadEnter
  <2> QED BY <1>0, <1>7, <2>1, <2>3, <2>4, <2>5 DEF ReadEnter, RingTypeOK, CallsSane
<1>8. CASE ReadStart
  <2>1. rd' \in Calls /\ CallSane(rd', read_ptr) /\ rd'.pc # "reset"
    <3>1. CASE rd' = NoCall
      <4>1. read_ptr < Size
        BY <1>0, <1>01, <1>8 DEF ReadStart, CallSane, LoadSane
      <4> QED BY <1>01, <3>1, <4>1 DEF CallSane
    <3>2. CASE rd' # NoCall
      <4>1. PICK p0, p, q \in {rd.at, read_ptr} :
              /\ p \in 0..(Size - 1) /\ q \in {p, 0} /\ read_ptr \in {q, 0}
              /\ readSpace(rd.rest, p0) \in 1..Size /\ rd.n \in 1..Size
              /\ rd' = Call(p, q, readSpace(rd.rest, p0), rd.n)
        BY <1>8, <3>2, ReadStartCases
      <4> QED BY <4>1, StartSane
    <3> QED BY <3>1, <3>2
  <2> QED BY <1>0, <1>8, <2>1 DEF ReadStart, RingTypeOK, CallsSane
<1>9. CASE ReadReload
  <2>1. rd' = [rd EXCEPT !.at = read_ptr] /\ rd.pc = "copy" /\ read_ptr = 0 /\ CopySane(rd)
    BY <1>0, <1>9 DEF ReadReload, CallSane
  <2>2. rd' \in Calls /\ rd'.pc = "copy" /\ rd'.at = 0 /\ rd'.n = rd.n /\ rd'.rest = rd.rest /\ rd'.k = rd.k
    BY <1>0, <2>1 DEF Calls
  <2>3. CopySane(rd')
    BY <1>0, <2>1, <2>2, CallNumbers, RingAssumption DEF CopySane
  <2> QED BY <1>0, <1>9, <2>1, <2>2, <2>3 DEF ReadReload, RingTypeOK, CallsSane, CallSane
<1>10. CASE ReadByte
  <2>1. rd' \in Calls /\ CallSane(rd', read_ptr) /\ rd'.pc = "copy" /\ rd.at + rd.k \in 0..(Size - 1)
    BY <1>0, <1>10, CountSane DEF ReadByte
  <2>2. last' \in Nat /\ got' \in Nat
    BY <1>0, <1>10, <2>1 DEF ReadByte
  <2> QED BY <1>0, <1>10, <2>1, <2>2 DEF ReadByte, RingTypeOK, CallsSane
<1>11. CASE ReadAdvance
  <2>1. PICK p \in {rd.at, read_ptr} : read_ptr' = p + rd.n
    BY <1>11 DEF ReadAdvance
  <2>2. CopySane(rd) /\ p \in {rd.at, 0} /\ rd' = Advanced(rd, p + rd.n)
    BY <1>0, <1>11, <2>1 DEF ReadAdvance, CallSane
  <2>3. rd' \in Calls /\ CallSane(rd', p + rd.n) /\ rd'.pc = "mask" /\ p + rd.n \in 0..Size
    BY <1>0, <2>2, AdvanceSane
  <2> QED BY <1>0, <1>11, <2>1, <2>3 DEF ReadAdvance, RingTypeOK, CallsSane
<1>12. CASE ReadMask
  <2>1. PICK p \in {rd.at, read_ptr} : read_ptr' = Masked(p) /\ rd' = Resumed(rd, p)
    BY <1>12 DEF ReadMask
  <2>2. MaskSane(rd) /\ p \in {rd.at, 0}
    BY <1>0, <1>12, <2>1 DEF ReadMask, CallSane
  <2>3. rd' \in Calls /\ CallSane(rd', Masked(p)) /\ rd'.pc # "reset" /\ Masked(p) \in 0..Size
    BY <1>0, <2>1, <2>2, ResumeSane
  <2> QED BY <1>0, <1>12, <2>1, <2>3 DEF ReadMask, RingTypeOK, CallsSane
<1> QED BY <1>1, <1>2, <1>3, <1>4, <1>5, <1>6, <1>7, <1>8, <1>9, <1>10, <1>11, <1>12 DEF RingNext, Writes, Reads

--------------------------------------------------------------------------------
(* The steps of the writer keep the reader in the stream.                        *)

(* The numbers of a state, for what follows                                      *)
LEMMA Numbers ==
  ASSUME RingTypeOK
  PROVE  /\ wr.at \in 0..Size /\ wr.n \in 0..Size /\ wr.rest \in 0..Size /\ wr.k \in 0..Size
         /\ rd.at \in 0..Size /\ rd.n \in 0..Size /\ rd.rest \in 0..Size /\ rd.k \in 0..Size
         /\ write_ptr \in 0..Size /\ read_ptr \in 0..Size /\ sent \in Nat /\ got \in Nat /\ last \in Nat
         /\ Size \in Nat /\ Size >= 2 /\ Between \in Int
         /\ wr.pc \in {"idle", "load", "copy", "mask", "reset"} /\ rd.pc \in {"idle", "load", "copy", "mask", "reset"}
<1>1. wr \in Calls /\ rd \in Calls
  BY DEF RingTypeOK
<1>2. /\ wr.at \in 0..Size /\ wr.n \in 0..Size /\ wr.rest \in 0..Size /\ wr.k \in 0..Size
      /\ wr.pc \in {"idle", "load", "copy", "mask", "reset"}
  BY <1>1, CallNumbers
<1>3. /\ rd.at \in 0..Size /\ rd.n \in 0..Size /\ rd.rest \in 0..Size /\ rd.k \in 0..Size
      /\ rd.pc \in {"idle", "load", "copy", "mask", "reset"}
  BY <1>1, CallNumbers
<1>4. write_ptr \in 0..Size /\ read_ptr \in 0..Size /\ sent \in Nat /\ got \in Nat /\ last \in Nat
  BY DEF RingTypeOK
<1>5. Between \in Int
  BY <1>2, <1>3, <1>4, RingAssumption DEF Between
<1> QED BY <1>2, <1>3, <1>4, <1>5, RingAssumption

(* The writer begins: it sees no more space than the reader leaves, even while   *)
(* the reader's pointer is not yet masked.                                       *)
LEMMA WriteSpaceFree ==
  ASSUME RingTypeOK, CallsSane, InStream, wr.pc = "idle"
  PROVE  writeSpace(write_ptr, read_ptr) <= Size - 1 - Between /\ wr.k = 0 /\ write_ptr < Size
<1>1. wr.k = 0 /\ write_ptr < Size
  BY DEF CallsSane, CallSane
<1>2. Between >= 0 /\ Between <= Size - 1 /\ Masked(write_ptr) = Masked(Masked(read_ptr) + Between)
  BY DEF InStream, PointersApart
<1> QED BY <1>1, <1>2, Numbers DEF writeSpace, Masked

LEMMA WriteStartKeeps ==
  ASSUME RingTypeOK, CallsSane, InStream, NEW cnt \in 1..Size, WriteStart(cnt)
  PROVE  InStream'
<1> DEFINE space == writeSpace(write_ptr, read_ptr)
<1>1. /\ wr.pc = "idle" /\ space # 0 /\ wr' = Call(write_ptr, write_ptr, space, cnt)
      /\ UNCHANGED <<buf, write_ptr, read_ptr, rd, sent, got, last, adrift>>
  BY DEF WriteStart
<1>2. space <= Size - 1 - Between /\ wr.k = 0 /\ write_ptr \in 0..(Size - 1) /\ space \in 1..Size
  BY <1>1, WriteSpaceFree, Spaces, Numbers
<1> HIDE DEF space
<1>3. /\ wr'.pc = "copy" /\ wr'.k = 0
      /\ wr'.n + wr'.rest <= space /\ (wr'.rest > 0 => write_ptr + wr'.n = Size)
      /\ wr'.n \in Int /\ wr'.rest \in Int
  <2>1. /\ wr'.pc = "copy" /\ wr'.k = 0 /\ wr' \in Calls
        /\ wr'.n + wr'.rest <= space /\ (wr'.rest > 0 => write_ptr + wr'.n = Size)
    BY <1>1, <1>2, CallFacts
  <2> QED BY <2>1, CallNumbers
<1>4. Between' = Between /\ wr'.k = wr.k
  BY <1>1, <1>2, <1>3 DEF Between
<1>5. PointersApart' /\ ReaderKeeps'
  BY <1>1, <1>4 DEF InStream, PointersApart, ReaderKeeps
<1>6. WriterKeeps'
  BY <1>1, <1>2, <1>3, <1>4, Numbers DEF WriterKeeps
<1>7. BytesInPlace'
  BY <1>1, <1>4 DEF InStream, BytesInPlace
<1> QED BY <1>1, <1>5, <1>6, <1>7 DEF InStream

(* A byte is copied to the first place behind those in between.                  *)
LEMMA WriteByteKeeps ==
  ASSUME RingTypeOK, CallsSane, InStream, WriteByte
  PROVE  InStream'
<1> DEFINE p == write_ptr + wr.k
<1>1. /\ wr.pc = "copy" /\ wr.k < wr.n /\ buf' = [buf EXCEPT ![p] = sent + 1] /\ sent' = sent + 1
      /\ wr' = [wr EXCEPT !.k = @ + 1] /\ UNCHANGED <<write_ptr, read_ptr, rd, got, last, adrift>>
  BY DEF WriteByte, CallsSane
<1>2. wr'.pc = wr.pc /\ wr'.at = wr.at /\ wr'.n = wr.n /\ wr'.rest = wr.rest /\ wr'.k = wr.k + 1
  <2>1. wr \in Calls
    BY DEF RingTypeOK
  <2> QED BY <1>1, <2>1, CountedFacts
<1>3. Between' = Between
  BY <1>1, <1>2, Numbers DEF Between
<1>4. PointersApart' /\ ReaderKeeps' /\ WriterKeeps'
  BY <1>1, <1>2, <1>3 DEF InStream, PointersApart, ReaderKeeps, WriterKeeps
<1>5. /\ Between + wr.n <= Size - 1 /\ Between >= 0 /\ write_ptr + wr.n <= Size
      /\ Masked(write_ptr) = Masked(Masked(read_ptr) + Between)
  <2>1. Between + wr.n + wr.rest <= Size - 1 /\ Between >= 0 /\ Masked(write_ptr) = Masked(Masked(read_ptr) + Between)
    BY <1>1 DEF InStream, WriterKeeps, PointersApart
  <2>2. write_ptr + wr.n <= Size
    BY <1>1 DEF CallsSane, CallSane, CopySane
  <2> QED BY <2>1, <2>2, Numbers
<1>6. p = Masked(read_ptr + (Between + wr.k)) /\ p \in 0..(Size - 1)
  <2>1. /\ write_ptr < Size /\ write_ptr \in Nat /\ read_ptr \in 0..Size /\ Between \in Nat /\ wr.k \in Nat
        /\ Between + wr.k < Size /\ p < Size /\ Size \in Nat
    BY <1>1, <1>5, Numbers
  <2>2. write_ptr = Masked(Masked(read_ptr) + Between)
    BY <1>5, <2>1 DEF Masked
  <2>3. CASE read_ptr = Size
    BY <2>1, <2>2, <2>3 DEF Masked
  <2>4. CASE read_ptr < Size /\ read_ptr + Between < Size
    BY <2>1, <2>2, <2>4 DEF Masked
  <2>5. CASE read_ptr < Size /\ read_ptr + Between >= Size
    BY <2>1, <2>2, <2>5 DEF Masked
  <2> QED BY <2>1, <2>3, <2>4, <2>5
<1>7. \A j \in 0..(Between + wr.k - 1) : Masked(read_ptr + j) # p /\ Masked(read_ptr + j) \in 0..(Size - 1)
  BY <1>1, <1>5, Numbers DEF Masked
<1> HIDE DEF p
<1>8. buf'[p] = sent + 1 /\ \A x \in 0..(Size - 1) : x # p => buf'[x] = buf[x]
  <2>1. buf \in [0..(Size - 1) -> Nat]
    BY DEF RingTypeOK
  <2> QED BY <1>1, <1>6, <2>1
<1>9. ASSUME NEW j \in 0..(Between' + wr'.k - 1) PROVE buf'[Masked(read_ptr + j)] = got - rd.k + j + 1
  <2>1. CASE j = Between + wr.k
    <3>1. sent + 1 = got - rd.k + j + 1
      BY <2>1, Numbers DEF Between
    <3> QED BY <1>6, <1>8, <2>1, <3>1
  <2>2. CASE j # Between + wr.k
    <3>1. j \in 0..(Between + wr.k - 1)
      BY <1>2, <1>3, <2>2, Numbers
    <3>2. buf[Masked(read_ptr + j)] = got - rd.k + j + 1
      BY <3>1 DEF InStream, BytesInPlace
    <3> QED BY <1>7, <1>8, <3>1, <3>2
  <2> QED BY <2>1, <2>2
<1>10. BytesInPlace'
  BY <1>1, <1>9 DEF BytesInPlace
<1> QED BY <1>1, <1>4, <1>10 DEF InStream

(* The part copied is handed over.                                               *)
LEMMA WriteAdvanceKeeps ==
  ASSUME RingTypeOK, CallsSane, InStream, WriteAdvance
  PROVE  InStream'
<1>1. /\ wr.pc = "copy" /\ wr.k = wr.n /\ write_ptr' = write_ptr + wr.n /\ wr' = Advanced(wr, write_ptr')
      /\ UNCHANGED <<buf, read_ptr, rd, sent, got, last, adrift>>
  BY DEF WriteAdvance
<1>2. wr'.pc = "mask" /\ wr'.n = wr.rest /\ wr'.k = 0
  <2>1. wr \in Calls /\ write_ptr + wr.n \in 0..Size
    <3>1. wr \in Calls
      BY DEF RingTypeOK
    <3>2. wr.at = write_ptr /\ wr.at + wr.n <= Size
      BY <1>1 DEF CallsSane, CallSane, CopySane
    <3> QED BY <3>1, <3>2, Numbers
  <2> QED BY <1>1, <2>1, AdvancedFacts
<1>3. Between' = Between + wr.n
  BY <1>1, <1>2, Numbers DEF Between
<1>4. /\ Between + wr.n + wr.rest <= Size - 1 /\ Between >= 0 /\ Between <= Size - 1 /\ rd.k <= Between
      /\ wr.n >= 1 /\ write_ptr + wr.n <= Size
      /\ wr.rest > 0 => write_ptr + wr.n = Size
      /\ Masked(write_ptr) = Masked(Masked(read_ptr) + Between)
  <2>1. Between + wr.n + wr.rest <= Size - 1 /\ (wr.rest > 0 => write_ptr + wr.n = Size)
    BY <1>1 DEF InStream, WriterKeeps
  <2>2. Between >= 0 /\ Between <= Size - 1 /\ rd.k <= Between /\ Masked(write_ptr) = Masked(Masked(read_ptr) + Between)
    BY DEF InStream, PointersApart
  <2>3. wr.n >= 1 /\ write_ptr + wr.n <= Size
    BY <1>1 DEF CallsSane, CallSane, CopySane
  <2> QED BY <2>1, <2>2, <2>3
<1>5. Masked(write_ptr + wr.n) = Masked(Masked(read_ptr) + (Between + wr.n))
  <2>1. /\ write_ptr < Size /\ write_ptr \in Nat /\ read_ptr \in 0..Size /\ Between \in Nat /\ wr.n \in Nat
        /\ Between + wr.n < Size /\ Size \in Nat
    BY <1>4, Numbers
  <2>2. write_ptr = Masked(Masked(read_ptr) + Between)
    BY <1>4, <2>1 DEF Masked
  <2>3. CASE read_ptr = Size
    BY <1>4, <2>1, <2>2, <2>3 DEF Masked
  <2>4. CASE read_ptr < Size /\ read_ptr + Between < Size
    BY <1>4, <2>1, <2>2, <2>4 DEF Masked
  <2>5. CASE read_ptr < Size /\ read_ptr + Between >= Size
    BY <1>4, <2>1, <2>2, <2>5 DEF Masked
  <2> QED BY <2>1, <2>3, <2>4, <2>5
<1>6. PointersApart'
  <2>1. Between + wr.n >= 0 /\ Between + wr.n <= Size - 1 /\ rd.k <= Between + wr.n
    BY <1>4, Numbers
  <2> QED BY <1>1, <1>3, <1>5, <2>1 DEF PointersApart
<1>7. WriterKeeps'
  BY <1>1, <1>2, <1>3, <1>4, Numbers DEF WriterKeeps
<1>8. ReaderKeeps'
  <2>1. /\ rd.n + rd.rest <= Between => rd.n + rd.rest <= Between + wr.n
        /\ rd.n <= Between => rd.n <= Between + wr.n
    BY Numbers
  <2>2. rd.pc = "load" => readSpace(rd.rest, read_ptr) <= Between + wr.n
    <3> SUFFICES ASSUME rd.pc = "load" PROVE readSpace(rd.rest, read_ptr) <= Between + wr.n
      OBVIOUS
    <3>1. readSpace(rd.rest, read_ptr) <= Between /\ read_ptr < Size
      BY DEF InStream, ReaderKeeps, CallsSane, CallSane, LoadSane
    <3>2. readSpace(rd.rest, read_ptr) \in 0..Size
      BY <3>1, Spaces, Numbers
    <3> QED BY <3>1, <3>2, Numbers
  <2> QED BY <1>1, <1>3, <2>1, <2>2 DEF InStream, ReaderKeeps
<1>9. BytesInPlace'
  <2>1. 0..(Between' + wr'.k - 1) = 0..(Between + wr.k - 1)
    <3>1. Between' + wr'.k - 1 = Between + wr.k - 1
      BY <1>1, <1>2, <1>3, Numbers
    <3> QED BY <3>1
  <2>2. \A j \in 0..(Between + wr.k - 1) : buf[Masked(read_ptr + j)] = got - rd.k + j + 1
    BY DEF InStream, BytesInPlace
  <2> QED BY <1>1, <2>1, <2>2 DEF BytesInPlace
<1> QED BY <1>1, <1>6, <1>7, <1>8, <1>9 DEF InStream

LEMMA WriteMaskKeeps ==
  ASSUME RingTypeOK, CallsSane, InStream, WriteMask
  PROVE  InStream'
<1>1. /\ wr.pc = "mask" /\ write_ptr' = Masked(write_ptr) /\ wr' = Resumed(wr, write_ptr)
      /\ UNCHANGED <<buf, read_ptr, rd, sent, got, last, adrift>>
  BY DEF WriteMask
<1>2. /\ wr.n = 0 => wr'.pc = "idle" /\ wr'.k = 0
      /\ wr.n # 0 => wr'.pc = "copy" /\ wr'.at = Masked(write_ptr) /\ wr'.n = wr.n /\ wr'.rest = wr.rest /\ wr'.k = wr.k
  <2>1. wr \in Calls /\ write_ptr \in 0..Size
    BY DEF RingTypeOK
  <2> QED BY <1>1, <2>1, ResumedFacts
<1>3. wr.k = 0 /\ wr.rest = 0 /\ wr'.k = 0
  <2>1. wr.k = 0 /\ wr.rest = 0
    BY <1>1 DEF CallsSane, CallSane, MaskSane
  <2> QED BY <1>2, <2>1
<1>4. Between' = Between
  BY <1>1, <1>3 DEF Between
<1>5. Masked(Masked(write_ptr)) = Masked(write_ptr)
  BY Numbers DEF Masked
<1>6. PointersApart' /\ ReaderKeeps'
  BY <1>1, <1>4, <1>5 DEF InStream, PointersApart, ReaderKeeps
<1>7. WriterKeeps'
  <2>1. Between + wr.n <= Size - 1
    BY <1>1 DEF InStream, WriterKeeps
  <2> QED BY <1>1, <1>2, <1>3, <1>4, <2>1, Numbers DEF WriterKeeps
<1>8. BytesInPlace'
  BY <1>1, <1>3, <1>4 DEF InStream, BytesInPlace
<1> QED BY <1>1, <1>6, <1>7, <1>8 DEF InStream

(* A reset() that meets no read() begins the stream anew.                        *)
LEMMA ResetKeeps ==
  ASSUME RingTypeOK, CallsSane, ResetWrite
  PROVE  adrift' \/ InStream'
<1> SUFFICES ASSUME ~adrift' PROVE InStream'
  OBVIOUS
<1>1. /\ rd.pc = "idle" /\ read_ptr = 0 /\ write_ptr' = 0 /\ wr' = NoCall /\ got' = sent /\ last' = sent
      /\ UNCHANGED <<buf, read_ptr, rd, sent>>
  BY DEF ResetWrite
<1>2. rd.k = 0
  BY <1>1 DEF CallsSane, CallSane
<1>3. wr'.pc = "idle" /\ wr'.k = 0
  BY <1>1 DEF NoCall
<1>4. Between' = 0
  BY <1>1, <1>2, <1>3, Numbers DEF Between
<1>5. PointersApart'
  BY <1>1, <1>2, <1>4, Numbers DEF PointersApart, Masked
<1>6. WriterKeeps' /\ ReaderKeeps'
  BY <1>1, <1>3 DEF WriterKeeps, ReaderKeeps
<1>7. BytesInPlace'
  BY <1>3, <1>4 DEF BytesInPlace
<1> QED BY <1>1, <1>5, <1>6, <1>7 DEF InStream

--------------------------------------------------------------------------------
(* The steps of the reader keep it in the stream, but for one.                   *)

(* It sees no more bytes than there are, even while the writer's pointer is not  *)
(* yet masked, unless its own stands at 0 and the writer's at the end.           *)
LEMMA ReadSpaceThere ==
  ASSUME RingTypeOK, CallsSane, InStream, rd.pc = "idle"
  PROVE  /\ rd.k = 0 /\ read_ptr < Size
         /\ readSpace(write_ptr, read_ptr) <= Between \/ (write_ptr = Size /\ read_ptr = 0)
<1>1. rd.k = 0 /\ read_ptr < Size
  BY DEF CallsSane, CallSane
<1>2. Between >= 0 /\ Between <= Size - 1 /\ Masked(write_ptr) = Masked(Masked(read_ptr) + Between)
  BY DEF InStream, PointersApart
<1>3. CASE write_ptr = Size
  BY <1>1, <1>2, <1>3, Numbers DEF readSpace, Masked
<1>4. CASE write_ptr < Size
  BY <1>1, <1>2, <1>4, Numbers DEF readSpace, Masked
<1> QED BY <1>1, <1>3, <1>4, Numbers

LEMMA ReadEnterKeeps ==
  ASSUME RingTypeOK, CallsSane, InStream, NEW cnt \in 1..Size, ReadEnter(cnt)
  PROVE  adrift' \/ InStream'
<1> SUFFICES ASSUME ~adrift' PROVE InStream'
  OBVIOUS
<1>1. /\ rd.pc = "idle" /\ rd' = [pc |-> "load", at |-> read_ptr, n |-> cnt, rest |-> write_ptr, k |-> 0]
      /\ ~(readSpace(write_ptr, read_ptr) > sent - wr.k - got)
      /\ UNCHANGED <<buf, write_ptr, read_ptr, wr, sent, got, last>>
  BY DEF ReadEnter
<1>2. rd'.pc = "load" /\ rd'.at = read_ptr /\ rd'.rest = write_ptr /\ rd'.k = 0 /\ rd.k = 0 /\ read_ptr < Size
  BY <1>1 DEF CallsSane, CallSane
<1>3. Between' = Between /\ Between = sent - wr.k - got
  BY <1>1, <1>2, Numbers DEF Between
<1>4. readSpace(write_ptr, read_ptr) <= Between
  <2>1. readSpace(write_ptr, read_ptr) \in 0..Size
    BY <1>2, Spaces, Numbers
  <2> QED BY <1>1, <1>3, <2>1, Numbers
<1>5. PointersApart' /\ WriterKeeps'
  BY <1>1, <1>2, <1>3 DEF InStream, PointersApart, WriterKeeps
<1>6. ReaderKeeps'
  BY <1>1, <1>2, <1>3, <1>4 DEF ReaderKeeps
<1>7. BytesInPlace'
  BY <1>1, <1>2, <1>3 DEF InStream, BytesInPlace
<1> QED BY <1>1, <1>5, <1>6, <1>7 DEF InStream

LEMMA ReadStartKeeps ==
  ASSUME RingTypeOK, CallsSane, InStream, ReadStart
  PROVE  InStream'
<1>1. /\ rd.pc = "load" /\ rd.at = read_ptr /\ rd.k = 0 /\ readSpace(rd.rest, read_ptr) <= Between
      /\ UNCHANGED <<buf, write_ptr, read_ptr, wr, sent, got, last, adrift>>
  BY DEF ReadStart, InStream, ReaderKeeps, CallsSane, CallSane, LoadSane
<1>2. \/ rd'.pc = "idle" /\ rd'.k = 0
      \/ /\ rd'.pc = "copy" /\ rd'.at = read_ptr /\ rd'.k = 0 /\ rd'.n + rd'.rest <= Between
         /\ rd'.rest > 0 => read_ptr + rd'.n = Size
  <2>1. CASE rd' = NoCall
    BY <2>1 DEF NoCall
  <2>2. CASE rd' # NoCall
    <3>1. /\ read_ptr \in 0..(Size - 1) /\ readSpace(rd.rest, read_ptr) \in 1..Size /\ rd.n \in 1..Size
          /\ rd' = Call(read_ptr, read_ptr, readSpace(rd.rest, read_ptr), rd.n)
      BY <1>1, <2>2, ReadStartCases
    <3>2. /\ rd'.pc = "copy" /\ rd'.at = read_ptr /\ rd'.k = 0 /\ rd' \in Calls
          /\ rd'.n + rd'.rest <= readSpace(rd.rest, read_ptr) /\ (rd'.rest > 0 => read_ptr + rd'.n = Size)
      BY <3>1, CallFacts
    <3>3. rd'.n \in Int /\ rd'.rest \in Int
      BY <3>2, CallNumbers
    <3>4. rd'.n + rd'.rest <= Between
      BY <1>1, <3>1, <3>2, <3>3, Numbers
    <3> QED BY <3>2, <3>4
  <2> QED BY <2>1, <2>2
<1>3. Between' = Between /\ rd'.k = rd.k
  BY <1>1, <1>2 DEF Between
<1>4. PointersApart' /\ WriterKeeps'
  BY <1>1, <1>3 DEF InStream, PointersApart, WriterKeeps
<1>5. ReaderKeeps'
  BY <1>1, <1>2, <1>3 DEF ReaderKeeps
<1>6. BytesInPlace'
  BY <1>1, <1>3 DEF InStream, BytesInPlace
<1> QED BY <1>1, <1>4, <1>5, <1>6 DEF InStream

(* The byte copied out is the next one.                                          *)
LEMMA ReadByteKeeps ==
  ASSUME RingTypeOK, CallsSane, InStream, ~adrift, ReadByte
  PROVE  InStream'
<1>1. /\ rd.pc = "copy" /\ rd.k < rd.n /\ last' = buf[rd.at + rd.k] /\ got' = got + 1
      /\ rd' = [rd EXCEPT !.k = @ + 1] /\ UNCHANGED <<buf, write_ptr, read_ptr, wr, sent, adrift>>
  BY DEF ReadByte
<1>2. rd'.pc = rd.pc /\ rd'.at = rd.at /\ rd'.n = rd.n /\ rd'.rest = rd.rest /\ rd'.k = rd.k + 1
  <2>1. rd \in Calls
    BY DEF RingTypeOK
  <2> QED BY <1>1, <2>1, CountedFacts
<1>3. Between' = Between /\ got' - rd'.k = got - rd.k
  BY <1>1, <1>2, Numbers DEF Between
<1>4. rd.at = read_ptr /\ rd.n + rd.rest <= Between /\ read_ptr + rd.n <= Size /\ (rd.rest > 0 => read_ptr + rd.n = Size)
  BY <1>1 DEF InStream, ReaderKeeps, CallsSane, CallSane, CopySane
<1>5. last' = got'
  <2>1. rd.k \in 0..(Between + wr.k - 1) /\ Masked(read_ptr + rd.k) = rd.at + rd.k
    BY <1>1, <1>4, Numbers DEF Masked
  <2>2. buf[Masked(read_ptr + rd.k)] = got - rd.k + rd.k + 1
    BY <2>1 DEF InStream, BytesInPlace
  <2> QED BY <1>1, <2>1, <2>2, Numbers
<1>6. PointersApart'
  <2>1. rd.k + 1 <= Between
    BY <1>1, <1>4, Numbers
  <2> QED BY <1>1, <1>2, <1>3, <2>1 DEF InStream, PointersApart
<1>7. WriterKeeps' /\ ReaderKeeps'
  BY <1>1, <1>2, <1>3 DEF InStream, WriterKeeps, ReaderKeeps
<1>8. BytesInPlace'
  BY <1>1, <1>3 DEF InStream, BytesInPlace
<1> QED BY <1>5, <1>6, <1>7, <1>8 DEF InStream

(* The places of the part read are given back.                                   *)
LEMMA ReadAdvanceKeeps ==
  ASSUME RingTypeOK, CallsSane, InStream, ReadAdvance
  PROVE  InStream'
<1>1. /\ rd.pc = "copy" /\ rd.k = rd.n /\ read_ptr' = read_ptr + rd.n /\ rd' = Advanced(rd, read_ptr')
      /\ UNCHANGED <<buf, write_ptr, wr, sent, got, last, adrift>>
  BY DEF ReadAdvance, InStream, ReaderKeeps
<1>2. rd'.pc = "mask" /\ rd'.at = read_ptr' /\ rd'.n = rd.rest /\ rd'.k = 0
  <2>1. rd \in Calls /\ read_ptr + rd.n \in 0..Size
    <3>1. rd \in Calls
      BY DEF RingTypeOK
    <3>2. rd.at = read_ptr /\ rd.at + rd.n <= Size
      BY <1>1 DEF InStream, ReaderKeeps, CallsSane, CallSane, CopySane
    <3> QED BY <3>1, <3>2, Numbers
  <2> QED BY <1>1, <2>1, AdvancedFacts
<1>3. Between' = Between - rd.n /\ got' - rd'.k = got - rd.k + rd.n
  BY <1>1, <1>2, Numbers DEF Between
<1>4. /\ rd.n + rd.rest <= Between /\ Between >= 0 /\ Between <= Size - 1 /\ rd.n >= 1
      /\ read_ptr + rd.n <= Size /\ (rd.rest > 0 => read_ptr + rd.n = Size)
      /\ Masked(write_ptr) = Masked(Masked(read_ptr) + Between)
  <2>1. rd.n + rd.rest <= Between /\ (rd.rest > 0 => read_ptr + rd.n = Size)
    BY <1>1 DEF InStream, ReaderKeeps
  <2>2. Between >= 0 /\ Between <= Size - 1 /\ Masked(write_ptr) = Masked(Masked(read_ptr) + Between)
    BY DEF InStream, PointersApart
  <2>3. rd.n >= 1 /\ read_ptr + rd.n <= Size
    BY <1>1 DEF CallsSane, CallSane, CopySane, InStream, ReaderKeeps
  <2> QED BY <2>1, <2>2, <2>3
<1>5. Masked(Masked(read_ptr) + Between) = Masked(Masked(read_ptr + rd.n) + (Between - rd.n))
  <2>1. /\ read_ptr < Size /\ read_ptr \in Nat /\ Between \in Nat /\ rd.n \in Nat
        /\ rd.n <= Between /\ Between < Size /\ Size \in Nat
    BY <1>4, Numbers
  <2>2. CASE read_ptr + rd.n = Size
    BY <2>1, <2>2 DEF Masked
  <2>3. CASE read_ptr + rd.n < Size
    BY <2>1, <2>3 DEF Masked
  <2> QED BY <1>4, <2>1, <2>2, <2>3
<1>6. PointersApart'
  <2>1. Between - rd.n >= 0 /\ Between - rd.n <= Size - 1
    BY <1>4, Numbers
  <2> QED BY <1>1, <1>2, <1>3, <1>4, <1>5, <2>1 DEF PointersApart
<1>7. WriterKeeps'
  <2>1. /\ Between + wr.n + wr.rest <= Size - 1 => Between - rd.n + wr.n + wr.rest <= Size - 1
        /\ Between + wr.n <= Size - 1 => Between - rd.n + wr.n <= Size - 1
    BY Numbers
  <2> QED BY <1>1, <1>3, <2>1 DEF InStream, WriterKeeps
<1>8. ReaderKeeps'
  <2>1. rd.rest <= Between - rd.n
    BY <1>4, Numbers
  <2> QED BY <1>1, <1>2, <1>3, <1>4, <2>1 DEF ReaderKeeps
<1>9. ASSUME NEW j \in 0..(Between' + wr'.k - 1) PROVE buf'[Masked(read_ptr' + j)] = got' - rd'.k + j + 1
  <2>1. rd.n + j \in 0..(Between + wr.k - 1) /\ j \in Int
    BY <1>1, <1>3, <1>4, Numbers
  <2>2. buf[Masked(read_ptr + (rd.n + j))] = got - rd.k + (rd.n + j) + 1
    BY <2>1 DEF InStream, BytesInPlace
  <2>3. read_ptr + (rd.n + j) = read_ptr' + j /\ got - rd.k + (rd.n + j) + 1 = got' - rd'.k + j + 1
    BY <1>1, <1>3, <2>1, Numbers
  <2> QED BY <1>1, <2>2, <2>3
<1>10. BytesInPlace'
  BY <1>9 DEF BytesInPlace
<1> QED BY <1>1, <1>6, <1>7, <1>8, <1>10 DEF InStream

LEMMA ReadMaskKeeps ==
  ASSUME RingTypeOK, CallsSane, InStream, ReadMask
  PROVE  InStream'
<1>1. /\ rd.pc = "mask" /\ read_ptr' = Masked(read_ptr) /\ rd' = Resumed(rd, read_ptr)
      /\ UNCHANGED <<buf, write_ptr, wr, sent, got, last, adrift>>
  BY DEF ReadMask, InStream, ReaderKeeps
<1>2. /\ rd.n = 0 => rd'.pc = "idle" /\ rd'.k = 0
      /\ rd.n # 0 => rd'.pc = "copy" /\ rd'.at = Masked(read_ptr) /\ rd'.n = rd.n /\ rd'.rest = rd.rest /\ rd'.k = rd.k
  <2>1. rd \in Calls /\ read_ptr \in 0..Size
    BY DEF RingTypeOK
  <2> QED BY <1>1, <2>1, ResumedFacts
<1>3. rd.k = 0 /\ rd.rest = 0 /\ rd'.k = 0
  <2>1. rd.k = 0 /\ rd.rest = 0
    BY <1>1 DEF CallsSane, CallSane, MaskSane
  <2> QED BY <1>2, <2>1
<1>4. Between' = Between
  BY <1>1, <1>3 DEF Between
<1>5. Masked(Masked(read_ptr)) = Masked(read_ptr)
  BY Numbers DEF Masked
<1>6. PointersApart' /\ WriterKeeps'
  BY <1>1, <1>3, <1>4, <1>5 DEF InStream, PointersApart, WriterKeeps
<1>7. ReaderKeeps'
  <2>1. rd.n <= Between
    BY <1>1 DEF InStream, ReaderKeeps
  <2> QED BY <1>1, <1>2, <1>3, <1>4, <2>1, Numbers DEF ReaderKeeps
<1>8. ASSUME NEW j \in 0..(Between' + wr'.k - 1) PROVE buf'[Masked(read_ptr' + j)] = got' - rd'.k + j + 1
  <2>1. j \in 0..(Between + wr.k - 1)
    BY <1>1, <1>4
  <2>2. buf[Masked(read_ptr + j)] = got - rd.k + j + 1
    BY <2>1 DEF InStream, BytesInPlace
  <2>3. Between + wr.k <= Size - 1
    <3>1. Between <= Size - 1
      BY DEF InStream, PointersApart
    <3>2. wr.pc \in {"idle", "mask"} => wr.k = 0
      BY DEF CallsSane, CallSane, MaskSane
    <3>3. wr.pc = "copy" => wr.k <= wr.n /\ Between + wr.n + wr.rest <= Size - 1
      BY DEF CallsSane, CallSane, CopySane, InStream, WriterKeeps
    <3>4. wr.pc # "reset" /\ wr.pc # "load"
      BY DEF InStream, WriterKeeps, CallsSane
    <3> QED BY <3>1, <3>2, <3>3, <3>4, Numbers
  <2>4. Masked(Masked(read_ptr) + j) = Masked(read_ptr + j)
    BY <2>1, <2>3, Numbers DEF Masked
  <2> QED BY <1>1, <1>3, <2>2, <2>4
<1>9. BytesInPlace'
  BY <1>8 DEF BytesInPlace
<1> QED BY <1>1, <1>6, <1>7, <1>9 DEF InStream

--------------------------------------------------------------------------------
LEMMA RingInvInit == RingInit => RingInv
<1> SUFFICES ASSUME RingInit PROVE RingInv
  OBVIOUS
<1>1. NoCall \in Calls /\ NoCall.pc = "idle" /\ NoCall.k = 0
  BY RingAssumption DEF NoCall, Calls
<1>2. RingTypeOK
  <2>1. buf \in [0..(Size - 1) -> Nat]
    BY DEF RingInit
  <2>2. 0 \in 0..Size /\ 0 \in Nat
    BY RingAssumption
  <2> QED BY <1>1, <2>1, <2>2 DEF RingInit, RingTypeOK
<1>3. CallsSane
  BY <1>1, RingAssumption DEF RingInit, CallsSane, CallSane
<1>4. Between = 0
  BY <1>1 DEF RingInit, Between
<1>5. PointersApart /\ WriterKeeps /\ ReaderKeeps
  BY <1>1, <1>4, RingAssumption DEF RingInit, PointersApart, WriterKeeps, ReaderKeeps, Masked
<1>6. BytesInPlace /\ last = got
  BY <1>1, <1>4 DEF RingInit, BytesInPlace
<1> QED BY <1>2, <1>3, <1>5, <1>6 DEF RingInv, InStream

LEMMA InStreamNext ==
  ASSUME RingTypeOK, CallsSane, adrift \/ InStream, RingNext
  PROVE  adrift' \/ InStream'
<1>1. CASE ResetRead
  BY <1>1 DEF ResetRead
<1>2. CASE ResetWrite
  BY <1>2, ResetKeeps
<1>3. CASE (Writes \/ Reads) /\ adrift
  BY <1>3 DEF Writes, Reads, WriteStart, WriteByte, WriteAdvance, WriteMask,
              ReadEnter, ReadStart, ReadReload, ReadByte, ReadAdvance, ReadMask
<1>4. CASE Writes /\ ~adrift
  BY <1>4, WriteStartKeeps, WriteByteKeeps, WriteAdvanceKeeps, WriteMaskKeeps DEF Writes
<1>5. CASE Reads /\ ~adrift
  <2>1. ~ReadReload
    BY <1>5 DEF ReadReload, InStream, ReaderKeeps
  <2> QED BY <1>5, <2>1, ReadEnterKeeps, ReadStartKeeps, ReadByteKeeps, ReadAdvanceKeeps, ReadMaskKeeps DEF Reads
<1> QED BY <1>1, <1>2, <1>3, <1>4, <1>5 DEF RingNext

LEMMA RingInvNext == RingInv /\ [RingNext]_ringVars => RingInv'
<1> SUFFICES ASSUME RingInv, [RingNext]_ringVars PROVE RingInv'
  OBVIOUS
<1>1. CASE RingNext
  BY <1>1, SaneNext, InStreamNext DEF RingInv
<1>2. CASE UNCHANGED ringVars
  BY <1>2 DEF ringVars, RingInv, RingTypeOK, CallsSane, InStream, PointersApart, WriterKeeps, ReaderKeeps,
              BytesInPlace, Between
<1> QED BY <1>1, <1>2

LEMMA RingAlways == RingSpec => []RingInv
BY RingInvInit, RingInvNext, PTL DEF RingSpec

(* The pointers, the calls and the buffer of a ring are what their types say,    *)
(* for a ring of any size.                                                       *)
THEOREM RingTypeCorrect == RingSpec => []RingTypeOK
<1>1. RingInv => RingTypeOK
  BY DEF RingInv
<1> QED BY <1>1, RingAlways, PTL

(* No memcpy of read() or write() leaves the buffer, in whatever order the two   *)
(* threads and reset() store the pointers, and even when the reader has left the *)
(* stream.                                                                       *)
THEOREM CopiesStayInside == RingSpec => []CopiesInside
<1>1. RingInv => CopiesInside
  BY DEF RingInv, CallsSane, CallSane, CopySane, CopiesInside, Inside
<1> QED BY <1>1, RingAlways, PTL

(* As long as the reader is in the stream it is given each byte once and in      *)
(* order, for any size of the ring and of the calls, although neither thread     *)
(* locks and each sees the other's pointer unmasked at times; and what is        *)
(* written and not read is where the reader will look for it.                    *)
THEOREM BytesComeInOrder == RingSpec => []ReadsInOrder
<1>1. RingInv /\ ~adrift => last = got
  BY DEF RingInv, InStream
<1>2. ASSUME RingInv, ~adrift, NEW j \in 0..(sent - wr.k - got - 1)
      PROVE  buf[Masked(read_ptr + rd.k + j)] = got + j + 1
  <2>1. RingTypeOK /\ BytesInPlace
    BY <1>2 DEF RingInv, InStream
  <2>2. rd.k + j \in 0..(Between + wr.k - 1) /\ j \in Int
    BY <2>1, Numbers DEF Between
  <2>3. buf[Masked(read_ptr + (rd.k + j))] = got - rd.k + (rd.k + j) + 1
    BY <2>1, <2>2 DEF BytesInPlace
  <2>4. read_ptr + (rd.k + j) = read_ptr + rd.k + j /\ got - rd.k + (rd.k + j) + 1 = got + j + 1
    BY <2>1, <2>2, Numbers
  <2> QED BY <2>3, <2>4
<1>3. RingInv => ReadsInOrder
  BY <1>1, <1>2 DEF ReadsInOrder
<1> QED BY <1>3, RingAlways, PTL

(* The reader leaves the stream in two ways only: by a reset(), or by a read()   *)
(* that loads the pointer of a writer which has advanced it to the end of the    *)
(* buffer and not yet masked it, when its own is at 0.  No other interleaving of *)
(* the two threads makes it read what is not there.                              *)
THEOREM OnlyWrapLosesReader == RingSpec => LeavesOnlyAtWrap
<1> DEFINE Leaves == ~adrift /\ adrift' => \/ Resets /\ read_ptr' = 0 /\ wr'.pc = "reset"
                                           \/ write_ptr = Size /\ wr.pc = "mask" /\ read_ptr = 0
<1>1. RingInv /\ [RingNext]_ringVars => [Leaves]_ringVars
  <2> SUFFICES ASSUME RingInv, RingNext, ~adrift, adrift'
               PROVE  \/ Resets /\ read_ptr' = 0 /\ wr'.pc = "reset"
                      \/ write_ptr = Size /\ wr.pc = "mask" /\ read_ptr = 0
    OBVIOUS
  <2>1. RingTypeOK /\ CallsSane /\ InStream
    BY DEF RingInv
  <2>2. CASE ResetRead
    <3>1. wr \in Calls
      BY <2>1 DEF RingTypeOK
    <3> QED BY <2>2, <3>1 DEF ResetRead, Calls
  <2>3. ~ResetWrite
    BY <2>1 DEF InStream, WriterKeeps, ResetWrite
  <2>4. ASSUME NEW cnt \in 1..Size, ReadEnter(cnt) PROVE write_ptr = Size /\ wr.pc = "mask" /\ read_ptr = 0
    <3>1. readSpace(write_ptr, read_ptr) > sent - wr.k - got /\ rd.pc = "idle"
      BY <2>4 DEF ReadEnter
    <3>2. /\ rd.k = 0 /\ read_ptr < Size
          /\ readSpace(write_ptr, read_ptr) <= Between \/ (write_ptr = Size /\ read_ptr = 0)
      BY <2>1, <3>1, ReadSpaceThere
    <3>3. Between = sent - wr.k - got /\ Between \in Int /\ readSpace(write_ptr, read_ptr) \in 0..Size
      BY <2>1, <3>2, Numbers, Spaces DEF Between
    <3>4. write_ptr = Size /\ read_ptr = 0
      BY <3>1, <3>2, <3>3
    <3>5. wr.pc = "mask"
      <4>1. wr.pc # "reset" /\ wr.pc # "load" /\ wr.pc \in {"idle", "load", "copy", "mask", "reset"} /\ wr.n \in Nat /\ Size \in Nat
        BY <2>1, Numbers DEF InStream, WriterKeeps, CallsSane
      <4>2. wr.pc = "idle" => write_ptr < Size
        BY <2>1 DEF CallsSane, CallSane
      <4>3. wr.pc = "copy" => write_ptr + wr.n <= Size /\ wr.n >= 1
        BY <2>1 DEF CallsSane, CallSane, CopySane
      <4> QED BY <3>4, <4>1, <4>2, <4>3
    <3> QED BY <3>4, <3>5
  <2>5. CASE Writes
    BY <2>5 DEF Writes, WriteStart, WriteByte, WriteAdvance, WriteMask
  <2>6. CASE ReadStart \/ ReadReload \/ ReadByte \/ ReadAdvance \/ ReadMask
    BY <2>6 DEF ReadStart, ReadReload, ReadByte, ReadAdvance, ReadMask
  <2> QED BY <2>2, <2>3, <2>4, <2>5, <2>6 DEF RingNext, Reads
<1> QED BY <1>1, RingAlways, PTL DEF RingSpec, LeavesOnlyAtWrap

(* A read() copies no more than it was asked for, for any sizes, unless a reset()*)
(* comes between two loads of its pointer: then it may overflow its caller's     *)
(* buffer.                                                                       *)
THEOREM ReadsNoMoreThanAsked == RingSpec => ReadsAsAsked
<1>1. RingInv /\ [RingNext]_ringVars =>
        [rd.pc = "load" /\ rd'.pc = "copy" /\ rd'.n + rd'.rest > rd.n => rd.at # read_ptr]_ringVars
  <2> SUFFICES ASSUME RingInv, RingNext, rd.pc = "load", rd'.pc = "copy", rd.at = read_ptr
               PROVE  ~(rd'.n + rd'.rest > rd.n)
    OBVIOUS
  <2>1. RingTypeOK /\ CallsSane
    BY DEF RingInv
  <2>2. ReadStart
    BY DEF RingNext, Writes, Reads, WriteStart, WriteByte, WriteAdvance, WriteMask, ResetRead, ResetWrite,
           ReadEnter, ReadReload, ReadByte, ReadAdvance, ReadMask
  <2>3. rd' # NoCall
    BY DEF NoCall
  <2>4. /\ read_ptr \in 0..(Size - 1) /\ readSpace(rd.rest, read_ptr) \in 1..Size /\ rd.n \in 1..Size
        /\ rd' = Call(read_ptr, read_ptr, readSpace(rd.rest, read_ptr), rd.n)
    BY <2>1, <2>2, <2>3, ReadStartCases
  <2>5. rd' \in Calls /\ rd'.n + rd'.rest <= rd.n
    BY <2>4, CallFacts
  <2> QED BY <2>4, <2>5, CallNumbers
<1> QED BY <1>1, RingAlways, PTL DEF RingSpec, ReadsAsAsked

--------------------------------------------------------------------------------
(* The ring implements the number of bytes that caed takes it for.               *)

Level == IF adrift THEN 0 ELSE sent - wr.k - got

LEMMA QueueSteps ==
  ASSUME RingInv, RingInv', RingNext
  PROVE  Queue!QueueNext \/ (Level' = Level /\ adrift' = adrift)
<1>1. RingTypeOK /\ CallsSane
  BY DEF RingInv
<1>2. CASE ResetRead
  BY <1>2 DEF ResetRead, Level, Queue!QueueNext, Queue!Lose
<1>3. CASE ResetWrite
  <2>1. wr'.k = 0 /\ (~adrift' => got' = sent /\ sent' = sent) /\ sent \in Nat
    BY <1>1, <1>3 DEF ResetWrite, NoCall, RingTypeOK
  <2>2. Level' = 0
    BY <2>1 DEF Level
  <2>3. adrift
    BY <1>3 DEF RingInv, InStream, WriterKeeps, ResetWrite
  <2>4. adrift' \in BOOLEAN
    BY DEF RingInv, RingTypeOK
  <2> QED BY <2>2, <2>3, <2>4 DEF Level, Queue!QueueNext, Queue!Lose, Queue!Clear
<1>4. CASE (Writes \/ Reads) /\ adrift
  BY <1>4 DEF Writes, Reads, WriteStart, WriteByte, WriteAdvance, WriteMask,
              ReadEnter, ReadStart, ReadReload, ReadByte, ReadAdvance, ReadMask, Level
<1>5. ASSUME ~adrift, adrift' PROVE Queue!QueueNext
  BY <1>5 DEF Queue!QueueNext, Queue!Lose
<1>6. ASSUME ~adrift, ~adrift', Writes \/ Reads PROVE Queue!QueueNext \/ Level' = Level
  <2>0. InStream /\ InStream' /\ CallsSane' /\ RingTypeOK'
    BY <1>6 DEF RingInv
  <2>1. Level = sent - wr.k - got /\ Level' = sent' - wr'.k - got'
    BY <1>6 DEF Level
  <2>2. ASSUME NEW cnt \in 1..Size, WriteStart(cnt) PROVE Level' = Level
    <3>1. wr.k = 0 /\ wr'.k = 0 /\ UNCHANGED <<sent, got>>
      BY <1>1, <2>2 DEF WriteStart, Call, CallsSane, CallSane
    <3> QED BY <2>1, <3>1
  <2>3. CASE WriteByte
    <3>1. wr \in Calls /\ wr'.k = wr.k + 1 /\ sent' = sent + 1 /\ got' = got
      BY <1>1, <2>3, CountedFacts DEF WriteByte, RingTypeOK
    <3> QED BY <1>1, <2>1, <3>1, Numbers
  <2>4. CASE WriteAdvance
    <3>1. wr \in Calls /\ wr'.k = 0 /\ wr.k = wr.n /\ sent' = sent /\ got' = got /\ wr.pc = "copy" /\ adrift' = adrift
      <4>1. wr \in Calls /\ write_ptr' \in 0..Size
        BY <1>1, <2>0 DEF RingTypeOK
      <4> QED BY <2>4, <4>1, AdvancedFacts DEF WriteAdvance
    <3>2. wr.n >= 1
      BY <1>1, <3>1 DEF CallsSane, CallSane, CopySane
    <3>3. Between' <= Size - 1 /\ rd'.k <= Between'
      BY <2>0 DEF InStream, PointersApart
    <3>4. Level' \in (Level + 1)..(Size - 1)
      <4>1. Level' = Level + wr.n /\ Level \in Int
        BY <1>1, <2>1, <3>1, Numbers
      <4>2. Level' <= Size - 1
        <5>1. RingTypeOK'
          BY <2>0
        <5>2. /\ rd'.k \in Nat /\ wr'.k \in Nat /\ sent' \in Nat /\ got' \in Nat /\ Size \in Nat
          BY <5>1, RingAssumption DEF RingTypeOK, Calls
        <5>3. Between' = (sent' - wr'.k) - (got' - rd'.k)
          BY DEF Between
        <5> QED BY <2>1, <3>3, <5>2, <5>3
      <4> QED BY <1>1, <3>2, <4>1, <4>2, Numbers
    <3> QED BY <1>6, <3>1, <3>4 DEF Level, Queue!QueueNext, Queue!Put
  <2>5. CASE WriteMask
    <3>1. wr \in Calls /\ write_ptr \in 0..Size /\ wr' = Resumed(wr, write_ptr) /\ sent' = sent /\ got' = got /\ wr.k = 0
      BY <1>1, <2>5 DEF WriteMask, RingTypeOK, CallsSane, CallSane, MaskSane
    <3>2. wr'.k = 0
      BY <3>1, ResumedFacts
    <3> QED BY <2>1, <3>1, <3>2
  <2>6. ASSUME (\E cnt \in 1..Size : ReadEnter(cnt)) \/ ReadStart \/ ReadReload PROVE Level' = Level
    BY <2>1, <2>6 DEF ReadEnter, ReadStart, ReadReload
  <2>7. CASE ReadByte
    <3>1. got' = got + 1 /\ UNCHANGED <<sent, wr, adrift>> /\ rd.pc = "copy" /\ rd.k < rd.n
      BY <1>6, <2>7 DEF ReadByte
    <3>2. rd.n + rd.rest <= Between
      BY <2>0, <3>1 DEF InStream, ReaderKeeps
    <3>3. Level > 0 /\ Level' = Level - 1
      BY <1>1, <2>1, <3>1, <3>2, Numbers DEF Between
    <3> QED BY <1>6, <3>1, <3>3 DEF Level, Queue!QueueNext, Queue!Take
  <2>8. CASE ReadAdvance \/ ReadMask
    BY <2>1, <2>8 DEF ReadAdvance, ReadMask
  <2> QED BY <1>6, <2>2, <2>3, <2>4, <2>5, <2>6, <2>7, <2>8 DEF Writes, Reads
<1>7. adrift \in BOOLEAN /\ adrift' \in BOOLEAN
  BY DEF RingInv, RingTypeOK
<1> QED BY <1>2, <1>3, <1>4, <1>5, <1>6, <1>7 DEF RingNext

(* Seen by its level, a ring buffer is what module Caed takes it for: writes add *)
(* to it as long as it holds fewer bytes than its size less one, each byte read  *)
(* takes one away, a reset empties it, and nothing else changes it while the     *)
(* reader is in the stream.                                                      *)
THEOREM RingImplementsQueue == RingSpec => RingIsQueue
<1>1. RingInit => Queue!QueueInit
  BY DEF RingInit, NoCall, Queue!QueueInit
<1>2. RingInv /\ RingInv' /\ [RingNext]_ringVars => [Queue!QueueNext]_<<Level, adrift>>
  <2> SUFFICES ASSUME RingInv, RingInv', [RingNext]_ringVars PROVE [Queue!QueueNext]_<<Level, adrift>>
    OBVIOUS
  <2>1. CASE RingNext
    BY <2>1, QueueSteps
  <2>2. CASE UNCHANGED ringVars
    BY <2>2 DEF ringVars, Level
  <2> QED BY <2>1, <2>2
<1>3. RingInv /\ RingInv' /\ [RingNext]_ringVars =>
        [Queue!QueueNext]_<<IF adrift THEN 0 ELSE sent - wr.k - got, adrift>>
  BY <1>2 DEF Level
<1> QED BY <1>1, <1>3, RingAlways, PTL DEF RingSpec, RingIsQueue, Queue!QueueSpec
================================================================================
