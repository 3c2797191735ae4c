------------------------------- MODULE RingBuffer ------------------------------
(* lib/rdringbuffer.cpp between one thread that writes and one that reads, as    *)
(* caed uses it for every playout, capture and passthrough.  Neither locks: each *)
(* loads the other's pointer once a call, copies byte by byte, and stores its    *)
(* own pointer twice, before and after masking it (both pointers are volatile).  *)
(* The writer's thread also calls reset(), which stores the reader's pointer:    *)
(* each time read() loads its own it may find it as it left it, or 0.            *)
(*                                                                               *)
(* Bytes are numbered as they are written.  The advance and vector methods,      *)
(* which nothing calls, are left out.                                            *)
EXTENDS Integers

CONSTANTS Size,      \* rb->size, a power of two
          Resets,    \* whether reset() is called while the ring is in use
          MaxSent    \* bound: bytes written

ASSUME RingAssumption == Size \in Nat /\ Size >= 2 /\ Resets \in BOOLEAN /\ MaxSent \in Nat

VARIABLES
  buf,         \* the number of the byte in each place
  write_ptr,
  read_ptr,
  wr,          \* the writer's call
  rd,          \* the reader's call
  (* history: *)
  sent,        \* bytes copied in
  got,         \* bytes copied out, as long as they are the next ones
  last,        \* the byte copied out last
  adrift       \* the reader has left the stream

ringVars == <<buf, write_ptr, read_ptr, wr, rd, sent, got, last, adrift>>

(* A call: its own pointer as it last loaded or stored it, the bytes of this     *)
(* part and of the second one, and those copied so far.  A read() that has not   *)
(* loaded its own pointer yet: the bytes asked for and the writer's pointer.     *)
NoCall == [pc |-> "idle", at |-> 0, n |-> 0, rest |-> 0, k |-> 0]
Calls == [pc : {"idle", "load", "copy", "mask", "reset"},
          at : 0..Size, n : 0..Size, rest : 0..Size, k : 0..Size]

RingTypeOK ==
  /\ buf \in [0..(Size - 1) -> Nat]
  /\ write_ptr \in 0..Size /\ read_ptr \in 0..Size
  /\ wr \in Calls /\ rd \in Calls
  /\ sent \in Nat /\ got \in Nat /\ last \in Nat /\ adrift \in BOOLEAN

RingInit ==
  /\ buf = [p \in 0..(Size - 1) |-> 0]
  /\ write_ptr = 0 /\ read_ptr = 0
  /\ wr = NoCall /\ rd = NoCall
  /\ sent = 0 /\ got = 0 /\ last = 0 /\ adrift = FALSE

--------------------------------------------------------------------------------
(* x & size_mask, for x less than twice the size                                 *)
Masked(x) == IF x < Size THEN x ELSE x - Size

(* Mutation: no place is left free between a full ring and an empty one.         *)
writeSpaceAll(w, r) == IF w > r THEN Masked(r - w + Size) ELSE IF w < r THEN r - w ELSE Size
writeSpace(w, r) == IF w > r THEN Masked(r - w + Size) - 1 ELSE IF w < r THEN r - w - 1 ELSE Size - 1

(* Mutation: nothing is there to read once the writer has wrapped.               *)
readSpaceUnwrapped(w, r) == IF w > r THEN w - r ELSE 0
(* Mutation: the sum is not masked, and an empty ring is taken for a full one.   *)
readSpaceUnmasked(w, r) == IF w > r THEN w - r ELSE w - r + Size
readSpace(w, r) == IF w > r THEN w - r ELSE Masked(w - r + Size)

(* Mutation: a call is never in two parts.                                       *)
CallWhole(p, q, space, cnt) ==
  [pc |-> "copy", at |-> q, n |-> IF cnt > space THEN space ELSE cnt, rest |-> 0, k |-> 0]
(* Mutation: all that is to be had is copied, whatever was asked for.            *)
CallAll(p, q, space, cnt) ==
  LET wraps == p + space > Size
  IN  [pc |-> "copy", at |-> q, n |-> IF wraps THEN Size - q ELSE space,
       rest |-> IF wraps THEN Masked(p + space) ELSE 0, k |-> 0]
(* A call for cnt bytes where space are to be had: in two parts if it wraps.  It *)
(* finds its pointer at p when it works out the end and at q from then on.       *)
Call(p, q, space, cnt) ==
  LET to == IF cnt > space THEN space ELSE cnt
      wraps == p + to > Size
  IN  [pc |-> "copy", at |-> q, n |-> IF wraps THEN Size - q ELSE to,
       rest |-> IF wraps THEN Masked(p + to) ELSE 0, k |-> 0]
(* The pointer is stored past a part, then masked, and the second part begins.   *)
Advanced(c, ptr) == [c EXCEPT !.pc = "mask", !.at = ptr, !.n = c.rest, !.rest = 0, !.k = 0]
(* Mutation: the second part begins one place late.                              *)
ResumedLate(c, ptr) == IF c.n = 0 THEN NoCall ELSE [c EXCEPT !.pc = "copy", !.at = Masked(ptr) + 1]
Resumed(c, ptr) == IF c.n = 0 THEN NoCall ELSE [c EXCEPT !.pc = "copy", !.at = Masked(ptr)]

--------------------------------------------------------------------------------
(* The writer's thread                                                           *)

WriteStart(cnt) ==
  /\ wr.pc = "idle" /\ writeSpace(write_ptr, read_ptr) # 0 /\ sent + cnt <= MaxSent
  /\ wr' = Call(write_ptr, write_ptr, writeSpace(write_ptr, read_ptr), cnt)
  /\ UNCHANGED <<buf, write_ptr, read_ptr, rd, sent, got, last, adrift>>

WriteByte ==
  /\ wr.pc = "copy" /\ wr.k < wr.n
  /\ buf' = [buf EXCEPT ![wr.at + wr.k] = sent + 1]
  /\ sent' = sent + 1
  /\ wr' = [wr EXCEPT !.k = @ + 1]
  /\ UNCHANGED <<write_ptr, read_ptr, rd, got, last, adrift>>

WriteAdvance ==
  /\ wr.pc = "copy" /\ wr.k = wr.n
  /\ write_ptr' = write_ptr + wr.n
  /\ wr' = Advanced(wr, write_ptr')
  /\ UNCHANGED <<buf, read_ptr, rd, sent, got, last, adrift>>

(* Mutation: the pointer is not masked.                                          *)
WriteMaskSkipped ==
  /\ wr.pc = "mask"
  /\ wr' = Resumed(wr, write_ptr)
  /\ UNCHANGED <<buf, write_ptr, read_ptr, rd, sent, got, last, adrift>>
WriteMask ==
  /\ wr.pc = "mask"
  /\ write_ptr' = Masked(write_ptr)
  /\ wr' = Resumed(wr, write_ptr)
  /\ UNCHANGED <<buf, read_ptr, rd, sent, got, last, adrift>>

(* reset(), which only the writer's thread calls: two stores.  The reader is     *)
(* back in the stream if no read() was under way meanwhile; what it had not read *)
(* is gone.                                                                      *)
ResetRead ==
  /\ Resets /\ wr.pc = "idle"
  /\ read_ptr' = 0
  /\ wr' = [wr EXCEPT !.pc = "reset"]
  /\ adrift' = TRUE
  /\ UNCHANGED <<buf, write_ptr, rd, sent, got, last>>

ResetWrite ==
  /\ wr.pc = "reset"
  /\ write_ptr' = 0
  /\ wr' = NoCall
  /\ adrift' = ~(rd.pc = "idle" /\ read_ptr = 0)
  /\ got' = IF adrift' THEN got ELSE sent
  /\ last' = IF adrift' THEN last ELSE sent
  /\ UNCHANGED <<buf, read_ptr, rd, sent>>

--------------------------------------------------------------------------------
(* The reader's thread                                                           *)

(* readSpace() loads the writer's pointer first.  The reader leaves the stream   *)
(* when the two pointers promise it more than is written.                        *)
ReadEnter(cnt) ==
  /\ rd.pc = "idle"
  /\ rd' = [pc |-> "load", at |-> read_ptr, n |-> cnt, rest |-> write_ptr, k |-> 0]
  /\ adrift' = (adrift \/ readSpace(write_ptr, read_ptr) > sent - wr.k - got)
  /\ UNCHANGED <<buf, write_ptr, read_ptr, wr, sent, got, last>>

(* It loads its own three times, in readSpace(), for the end and for the part    *)
(* before it: from the one on that follows a reset(), as that left it.           *)
ReadStart ==
  /\ rd.pc = "load"
  /\ \E p0, p, q \in {rd.at, read_ptr} :
       /\ p0 = read_ptr => p = read_ptr
       /\ p = read_ptr => q = read_ptr
       /\ rd' = IF readSpace(rd.rest, p0) = 0 THEN NoCall ELSE Call(p, q, readSpace(rd.rest, p0), rd.n)
  /\ UNCHANGED <<buf, write_ptr, read_ptr, wr, sent, got, last, adrift>>

(* It loads it again where a copy begins.                                        *)
ReadReload ==
  /\ rd.pc = "copy" /\ rd.k = 0 /\ rd.at # read_ptr
  /\ rd' = [rd EXCEPT !.at = read_ptr]
  /\ UNCHANGED <<buf, write_ptr, read_ptr, wr, sent, got, last, adrift>>

ReadByte ==
  /\ rd.pc = "copy" /\ rd.k < rd.n
  /\ last' = buf[rd.at + rd.k]
  /\ got' = IF adrift THEN got ELSE got + 1
  /\ rd' = [rd EXCEPT !.k = @ + 1]
  /\ UNCHANGED <<buf, write_ptr, read_ptr, wr, sent, adrift>>

(* The two stores, each of what the load before it found: a reset() in between   *)
(* is lost.                                                                      *)
ReadAdvance ==
  /\ rd.pc = "copy" /\ rd.k = rd.n
  /\ \E p \in {rd.at, read_ptr} : read_ptr' = p + rd.n
  /\ rd' = Advanced(rd, read_ptr')
  /\ UNCHANGED <<buf, write_ptr, wr, sent, got, last, adrift>>

ReadMask ==
  /\ rd.pc = "mask"
  /\ \E p \in {rd.at, read_ptr} : read_ptr' = Masked(p) /\ rd' = Resumed(rd, p)
  /\ UNCHANGED <<buf, write_ptr, wr, sent, got, last, adrift>>

--------------------------------------------------------------------------------
(* A call for no bytes changes nothing.                                          *)
Writes == (\E cnt \in 1..Size : WriteStart(cnt)) \/ WriteByte \/ WriteAdvance \/ WriteMask
Reads == \/ \E cnt \in 1..Size : ReadEnter(cnt)
         \/ ReadStart \/ ReadReload \/ ReadByte \/ ReadAdvance \/ ReadMask
RingNext == Writes \/ ResetRead \/ ResetWrite \/ Reads

RingSpec == RingInit /\ [][RingNext]_ringVars

(* Neither thread stops inside a call, and the reader keeps reading.             *)
RingFairness ==
  /\ WF_ringVars(WriteByte \/ WriteAdvance \/ WriteMask \/ ResetWrite)
  /\ WF_ringVars(Reads)

RingFairSpec == RingSpec /\ RingFairness

--------------------------------------------------------------------------------
(* No copy leaves the buffer, wherever the other thread and a reset() have left  *)
(* the pointers.                                                                 *)
Inside(c) == c.pc = "copy" => c.at + c.n <= Size
CopiesInside == Inside(wr) /\ Inside(rd)

(* As long as the reader is in the stream it gets the bytes in the order they    *)
(* were written, none twice and none left out; and those still to come are in    *)
(* their places, ahead of it: the writer takes none that it has still to read.   *)
ReadsInOrder ==
  \/ adrift
  \/ /\ last = got
     /\ \A j \in 0..(sent - wr.k - got - 1) : buf[Masked(read_ptr + rd.k + j)] = got + j + 1

(* The reader leaves the stream in two ways only: by a reset(), or by a read()   *)
(* that sees the pointer of a writer at the end of the buffer, not yet masked,   *)
(* with its own already there and masked.                                        *)
LeavesOnlyAtWrap ==
  [][~adrift /\ adrift' => \/ Resets /\ read_ptr' = 0 /\ wr'.pc = "reset"
                           \/ write_ptr = Size /\ wr.pc = "mask" /\ read_ptr = 0]_ringVars

(* read() sets out to copy no more than it was asked for, or its caller's buffer *)
(* overflows: unless a reset() has stored its pointer since it last loaded it.   *)
ReadsAsAsked ==
  [][rd.pc = "load" /\ rd'.pc = "copy" /\ rd'.n + rd'.rest > rd.n => rd.at # read_ptr]_ringVars

(* All that is written is read in the end, if the reader stays in the stream.    *)
AllRead == sent # got ~> adrift \/ sent = got

(* The ring as the number of bytes it holds                                      *)
Queue == INSTANCE ByteQueue WITH Capacity <- Size - 1, lost <- adrift,
                                 level <- IF adrift THEN 0 ELSE sent - wr.k - got
RingIsQueue == Queue!QueueSpec
================================================================================
