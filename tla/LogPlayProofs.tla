----------------------------- MODULE LogPlayProofs -----------------------------
(* Proofs about LogPlay for every log, every number of decks and every size of   *)
(* runningEvents().                                                              *)
EXTENDS LogPlay, FiniteSetTheorems, SequenceTheorems, TLAPS

--------------------------------------------------------------------------------
(* Numbers and sequences                                                         *)

(* A set of numbers that is not empty has a least one.                           *)
LEMMA NatMin == ASSUME NEW T \in SUBSET Nat, T # {} PROVE \E x \in T : \A y \in T : x <= y
<1> DEFINE R == {ss \in Nat \X Nat : ss[1] < ss[2]}
<1>1. IsWellFoundedOn(R, Nat)
  BY NatLessThanWellFounded DEF OpToRel
<1>2. \A x, y \in Nat : x < y => <<x, y>> \in R
  OBVIOUS
<1>3. PICK x \in T : \A y \in T : ~ (<<y, x>> \in R)
  BY <1>1, WFMin
<1> HIDE DEF R
<1>4. \A y \in T : ~(y < x)
  BY <1>2, <1>3
<1> QED BY <1>4

(* Min() of FiniteSetsExt is a member and no greater than another.               *)
LEMMA MinIn ==
  ASSUME NEW T \in SUBSET Nat, T # {}
  PROVE  Min(T) \in T /\ \A y \in T : Min(T) <= y
BY NatMin DEF Min

(* What keeps the domain of a sequence and stays in the set is a sequence too.   *)
LEMMA SeqMap ==
  ASSUME NEW S, NEW s \in Seq(S), NEW f, f = [i \in DOMAIN s |-> f[i]],
         \A i \in DOMAIN s : f[i] \in S
  PROVE  f \in Seq(S) /\ Len(f) = Len(s) /\ DOMAIN f = DOMAIN s
<1>1. Len(s) \in Nat /\ DOMAIN s = 1..Len(s)
  BY LenProperties
<1>2. f \in [1..Len(s) -> S]
  BY <1>1
<1> QED BY <1>1, <1>2

(* RemoveAt() takes out one element and moves the ones behind it up.             *)
LEMMA RemoveFacts ==
  ASSUME NEW S, NEW s \in Seq(S), NEW k \in 1..Len(s)
  PROVE  /\ RemoveAt(s, k) \in Seq(S) /\ Len(RemoveAt(s, k)) = Len(s) - 1
         /\ \A i \in 1..(Len(s) - 1) : RemoveAt(s, k)[i] = s[IF i < k THEN i ELSE i + 1]
<1>1. Len(s) \in Nat /\ \A i \in 1..Len(s) : s[i] \in S
  BY LenProperties, ElementOfSeq
<1>2. /\ SubSeq(s, 1, k - 1) \in Seq(S) /\ Len(SubSeq(s, 1, k - 1)) = k - 1
      /\ \A i \in 1..(k - 1) : SubSeq(s, 1, k - 1)[i] = s[i]
  BY <1>1, SubSeqProperties
<1>3. /\ SubSeq(s, k + 1, Len(s)) \in Seq(S) /\ Len(SubSeq(s, k + 1, Len(s))) = Len(s) - k
      /\ \A i \in 1..(Len(s) - k) : SubSeq(s, k + 1, Len(s))[i] = s[k + i]
  BY <1>1, SubSeqProperties
<1> DEFINE a == SubSeq(s, 1, k - 1)
           b == SubSeq(s, k + 1, Len(s))
           t == RemoveAt(s, k)
<1>4. t \in Seq(S) /\ Len(t) = Len(a) + Len(b) /\ \A i \in 1..(Len(a) + Len(b)) :
        t[i] = IF i <= Len(a) THEN a[i] ELSE b[i - Len(a)]
  BY <1>2, <1>3, ConcatProperties DEF RemoveAt
<1> HIDE DEF a, b, t
<1>5. Len(a) = k - 1 /\ Len(b) = Len(s) - k /\ Len(a) + Len(b) = Len(s) - 1
  <2>1. Len(a) = k - 1
    BY <1>2, Zenon DEF a
  <2>2. Len(b) = Len(s) - k
    BY <1>3, Zenon DEF b
  <2> QED BY <1>1, <2>1, <2>2
<1>6. ASSUME NEW i \in 1..(Len(s) - 1) PROVE t[i] = s[IF i < k THEN i ELSE i + 1]
  <2>1. t[i] = IF i <= k - 1 THEN a[i] ELSE b[i - (k - 1)]
    <3>1. i \in 1..(Len(a) + Len(b))
      BY <1>5
    <3>2. t[i] = IF i <= Len(a) THEN a[i] ELSE b[i - Len(a)]
      BY <1>4, <3>1, Zenon
    <3> QED BY <1>5, <3>2, Zenon
  <2>2. CASE i < k
    BY <1>1, <1>2, <2>1, <2>2 DEF a
  <2>3. CASE ~(i < k)
    <3>1. i - (k - 1) \in 1..(Len(s) - k) /\ k + (i - (k - 1)) = i + 1 /\ ~(i <= k - 1)
      BY <1>1, <2>3
    <3>2. b[i - (k - 1)] = s[k + (i - (k - 1))]
      BY <1>3, <3>1 DEF b
    <3> QED BY <2>1, <2>3, <3>1, <3>2
  <2> QED BY <2>2, <2>3
<1> QED BY <1>4, <1>5, <1>6 DEF t

(* InsertAt() puts one element in and moves the ones from there on down.         *)
LEMMA InsertFacts ==
  ASSUME NEW S, NEW s \in Seq(S), NEW e \in S, NEW k \in 1..(Len(s) + 1),
         NEW t, t = InsertAt(s, k, e)
  PROVE  /\ t \in Seq(S) /\ Len(t) = Len(s) + 1 /\ t[k] = e
         /\ \A i \in 1..Len(s) : (i < k => t[i] = s[i]) /\ (i >= k => t[i + 1] = s[i])
<1>1. Len(s) \in Nat /\ \A i \in 1..Len(s) : s[i] \in S
  BY LenProperties, ElementOfSeq
<1>2. /\ SubSeq(s, 1, k - 1) \in Seq(S) /\ Len(SubSeq(s, 1, k - 1)) = k - 1
      /\ \A i \in 1..(k - 1) : SubSeq(s, 1, k - 1)[i] = s[i]
  BY <1>1, SubSeqProperties
<1>3. /\ SubSeq(s, k, Len(s)) \in Seq(S) /\ Len(SubSeq(s, k, Len(s))) = Len(s) - k + 1
      /\ \A i \in 1..(Len(s) - k + 1) : SubSeq(s, k, Len(s))[i] = s[k + i - 1]
  BY <1>1, SubSeqProperties
<1> DEFINE u == Append(SubSeq(s, 1, k - 1), e)
           b == SubSeq(s, k, Len(s))
<1>4. u \in Seq(S) /\ Len(u) = k /\ u[k] = e /\ \A i \in 1..(k - 1) : u[i] = s[i]
  <2> DEFINE a == SubSeq(s, 1, k - 1)
  <2> HIDE DEF a
  <2>1. /\ Append(a, e) \in Seq(S) /\ Len(Append(a, e)) = Len(a) + 1
        /\ \A i \in 1..Len(a) : Append(a, e)[i] = a[i]
        /\ Append(a, e)[Len(a) + 1] = e
    BY <1>2, AppendProperties DEF a
  <2>2. Len(a) = k - 1 /\ Len(a) + 1 = k
    BY <1>1, <1>2 DEF a
  <2> QED BY <1>2, <2>1, <2>2 DEF a
<1>5. t = u \o b
  <2>1. SubSeq(s, 1, k - 1) \o <<e>> = Append(SubSeq(s, 1, k - 1), e)
    BY <1>2, AppendIsConcat
  <2> QED BY <2>1, Zenon DEF InsertAt
<1>6. t \in Seq(S) /\ Len(t) = Len(u) + Len(b) /\ \A i \in 1..(Len(u) + Len(b)) :
        t[i] = IF i <= Len(u) THEN u[i] ELSE b[i - Len(u)]
  <2>1. b \in Seq(S)
    BY <1>3
  <2> HIDE DEF u, b
  <2>2. u \o b \in Seq(S) /\ Len(u \o b) = Len(u) + Len(b) /\ \A i \in 1..(Len(u) + Len(b)) :
          (u \o b)[i] = IF i <= Len(u) THEN u[i] ELSE b[i - Len(u)]
    BY <1>4, <2>1, ConcatProperties
  <2> QED BY <1>5, <2>2, Zenon
<1> HIDE DEF u, b
<1>7. Len(u) = k /\ Len(u) + Len(b) = Len(s) + 1
  <2>1. Len(b) = Len(s) - k + 1
    BY <1>3, Zenon DEF b
  <2> QED BY <1>1, <1>4, <2>1
<1>8. \A i \in 1..(Len(s) + 1) : t[i] = IF i <= k THEN u[i] ELSE b[i - k]
  BY <1>6, <1>7, Zenon
<1>9. ASSUME NEW i \in 1..Len(s) PROVE t[IF i < k THEN i ELSE i + 1] = s[i]
  <2>1. CASE i < k
    BY <1>1, <1>4, <1>8, <2>1
  <2>2. CASE ~(i < k)
    <3>1. /\ i + 1 \in 1..(Len(s) + 1) /\ ~(i + 1 <= k) /\ (i + 1) - k \in 1..(Len(s) - k + 1)
          /\ k + ((i + 1) - k) - 1 = i
      BY <1>1, <2>2
    <3>2. t[i + 1] = b[(i + 1) - k]
      BY <1>8, <3>1
    <3>3. b[(i + 1) - k] = s[k + ((i + 1) - k) - 1]
      BY <1>3, <3>1 DEF b
    <3> QED BY <2>2, <3>1, <3>2, <3>3
  <2> QED BY <2>1, <2>2
<1>10. t[k] = e
  BY <1>1, <1>4, <1>8
<1>11. \A i \in 1..Len(s) : (i < k => t[i] = s[i]) /\ (i >= k => t[i + 1] = s[i])
  BY <1>9
<1> QED BY <1>6, <1>7, <1>10, <1>11

(* A line moved within the log: the lines between move by one the other way.     *)
(* (Shifted() in the model leaves the line at `to' alone; it has not started.)   *)
Slid(i, from, to) == IF i = from THEN to
                     ELSE IF i > from /\ i <= to THEN i - 1
                     ELSE IF i < from /\ i >= to THEN i + 1 ELSE i
LEMMA MoveFacts ==
  ASSUME NEW S, NEW s \in Seq(S), NEW from \in 1..Len(s), NEW to \in 1..Len(s), to # from
  PROVE  LET t == InsertAt(RemoveAt(s, from), to, s[from]) IN
         /\ t \in Seq(S) /\ Len(t) = Len(s)
         /\ \A i \in 1..Len(s) : t[Slid(i, from, to)] = s[i]
<1>1. Len(s) \in Nat /\ s[from] \in S
  BY LenProperties, ElementOfSeq
<1> SUFFICES ASSUME NEW r, r = RemoveAt(s, from), NEW t, t = InsertAt(r, to, s[from])
             PROVE  /\ t \in Seq(S) /\ Len(t) = Len(s)
                    /\ \A i \in 1..Len(s) : t[Slid(i, from, to)] = s[i]
  OBVIOUS
<1>2. /\ r \in Seq(S) /\ Len(r) = Len(s) - 1
      /\ \A i \in 1..(Len(s) - 1) : r[i] = s[IF i < from THEN i ELSE i + 1]
  BY RemoveFacts
<1>3. to \in 1..(Len(r) + 1)
  BY <1>1, <1>2
<1>4. /\ t \in Seq(S) /\ Len(t) = Len(r) + 1 /\ t[to] = s[from]
      /\ \A i \in 1..Len(r) : t[IF i < to THEN i ELSE i + 1] = r[i]
  <2>1. /\ t \in Seq(S) /\ Len(t) = Len(r) + 1 /\ t[to] = s[from]
        /\ \A i \in 1..Len(r) : (i < to => t[i] = r[i]) /\ (i >= to => t[i + 1] = r[i])
    <3>1. r \in Seq(S) /\ s[from] \in S
      BY <1>1, <1>2
    <3> QED BY <1>3, <3>1, InsertFacts, SMTT(60)
  <2>2. \A i \in 1..Len(r) : ~(i < to) => i >= to
    OBVIOUS
  <2> QED BY <2>1, <2>2, Zenon
<1>5. ASSUME NEW i \in 1..Len(s), i # from PROVE t[Slid(i, from, to)] = s[i]
  <2> DEFINE j == IF i < from THEN i ELSE i - 1
  <2>1. j \in 1..(Len(s) - 1) /\ (IF j < from THEN j ELSE j + 1) = i
    BY <1>1, <1>5
  <2>2. (IF j < to THEN j ELSE j + 1) = Slid(i, from, to)
    BY <1>1, <1>5 DEF Slid
  <2> HIDE DEF j
  <2>3. r[j] = s[i]
    <3>1. r[j] = s[IF j < from THEN j ELSE j + 1]
      BY <1>2, <2>1, Zenon
    <3> QED BY <2>1, <3>1, Zenon
  <2>4. j \in 1..Len(r)
    BY <1>2, <2>1
  <2>5. t[IF j < to THEN j ELSE j + 1] = r[j]
    BY <1>4, <2>4, Zenon
  <2> QED BY <2>2, <2>3, <2>5, Zenon
<1>6. Len(t) = Len(s)
  BY <1>1, <1>2, <1>4
<1>7. \A i \in 1..Len(s) : t[Slid(i, from, to)] = s[i]
  BY <1>4, <1>5, Zenon DEF Slid
<1> QED BY <1>4, <1>6, <1>7

LEMMA SlidBack ==
  ASSUME NEW n \in Nat, NEW from \in 1..n, NEW to \in 1..n, NEW j \in 1..n
  PROVE  Slid(j, from, to) \in 1..n /\ Slid(Slid(j, to, from), from, to) = j
<1>1. Slid(j, from, to) \in 1..n /\ Slid(j, to, from) \in 1..n
  BY DEF Slid
<1>2. CASE j = to
  BY <1>2 DEF Slid
<1>3. CASE j > to /\ j <= from
  BY <1>3 DEF Slid
<1>4. CASE j < to /\ j >= from
  BY <1>4 DEF Slid
<1>5. CASE j # to /\ ~(j > to /\ j <= from) /\ ~(j < to /\ j >= from)
  BY <1>5 DEF Slid
<1> QED BY <1>1, <1>2, <1>3, <1>4, <1>5

(* GetNextPlayable() fails or ends at the first line that halts the scan.        *)
LEMMA NextFacts ==
  ASSUME log \in Seq(Lines), NEW from, NEW forced
  PROVE  LET k == GetNextPlayable(from, forced) IN
         /\ k = None \/ (k \in DOMAIN log /\ k # None /\ k >= from /\ Halts(k, from, forced))
         /\ \A j \in DOMAIN log : from # None /\ j >= from /\ Halts(j, from, forced)
                                   => k # None /\ k <= j
<1> DEFINE ends == {k \in DOMAIN log : from # None /\ k >= from /\ Halts(k, from, forced)}
<1>1. DOMAIN log = 1..Len(log) /\ Len(log) \in Nat
  BY LenProperties
<1>2. ends \in SUBSET Nat
  BY <1>1
<1>3. GetNextPlayable(from, forced) = IF ends = {} THEN None ELSE Min(ends)
  BY DEF GetNextPlayable
<1>4. \A k \in ends : k # None
  BY <1>1 DEF None
<1>5. ends # {} => Min(ends) \in ends /\ \A y \in ends : Min(ends) <= y
  BY <1>2, MinIn
<1> QED BY <1>3, <1>4, <1>5, Zenon DEF None

LEMMA NextType ==
  ASSUME log \in Seq(Lines), NEW from, NEW forced
  PROVE  GetNextPlayable(from, forced) \in Nat
<1> DEFINE k == GetNextPlayable(from, forced)
<1>1. k = None \/ k \in DOMAIN log
  BY NextFacts
<1>2. DOMAIN log \subseteq Nat /\ None \in Nat
  BY LenProperties DEF None
<1> QED BY <1>1, <1>2

(* SetTransTimer() finds the earliest of the hard starts that are ahead.         *)
LEMMA TransFacts ==
  ASSUME NEW l \in Seq(Lines), NEW t \in Nat
  PROVE  LET r == TransOf(l, t) IN
         /\ r \in [line : Nat, at : Nat, on : BOOLEAN]
         /\ r.on => r.line \in DOMAIN l /\ l[r.line].at = r.at
         /\ \A k \in HardStarts(l, t) : r.on /\ r.at <= l[k].at
<1> DEFINE H == HardStarts(l, t)
<1>1. Len(l) \in Nat /\ DOMAIN l = 1..Len(l) /\ \A k \in DOMAIN l : l[k] \in Lines
  BY LenProperties, ElementOfSeq
<1>2. H \subseteq DOMAIN l /\ \A k \in H : k \in Nat /\ l[k].at \in Nat
  BY <1>1 DEF HardStarts, Lines
<1>3. CASE H = {}
  BY <1>3 DEF TransOf, None
<1>4. CASE H # {}
  <2> DEFINE P(j) == \A i \in H : l[j].at < l[i].at \/ (l[j].at = l[i].at /\ i <= j)
  <2>1. PICK e \in {l[k].at : k \in H} : \A y \in {l[k].at : k \in H} : e <= y
    <3>1. {l[k].at : k \in H} \in SUBSET Nat /\ {l[k].at : k \in H} # {}
      BY <1>2, <1>4
    <3> QED BY <3>1, NatMin
  <2> DEFINE G == {k \in H : l[k].at = e}
  <2>2. PICK x \in {Len(l) - k : k \in G} : \A y \in {Len(l) - k : k \in G} : x <= y
    <3>1. {Len(l) - k : k \in G} \in SUBSET Nat
      BY <1>1, <1>2
    <3>2. {Len(l) - k : k \in G} # {}
      BY <2>1
    <3> QED BY <3>1, <3>2, NatMin
  <2>3. PICK j \in G : x = Len(l) - j
    BY <2>2
  <2>4. \A i \in G : i <= j
    <3>1. \A i \in G : Len(l) - j <= Len(l) - i
      BY <2>2, <2>3
    <3> QED BY <1>1, <1>2, <3>1
  <2>5. P(j)
    <3> SUFFICES ASSUME NEW i \in H PROVE l[j].at < l[i].at \/ (l[j].at = l[i].at /\ i <= j)
      OBVIOUS
    <3>1. e <= l[i].at /\ l[j].at = e
      BY <2>1
    <3>2. l[i].at = e => i <= j
      BY <2>4
    <3> QED BY <1>2, <3>1, <3>2
  <2>6. (CHOOSE m \in H : P(m)) \in H /\ P(CHOOSE m \in H : P(m))
    <3> HIDE DEF P
    <3> QED BY <2>3, <2>5
  <2>7. PICK m \in H : P(m) /\ TransOf(l, t) = [line |-> m, at |-> l[m].at, on |-> TRUE]
    BY <1>4, <2>6, Zenon DEF TransOf
  <2>8. \A i \in H : l[m].at <= l[i].at
    BY <1>2, <2>7, SMTT(30)
  <2> QED BY <1>2, <2>7, <2>8
<1> QED BY <1>3, <1>4

--------------------------------------------------------------------------------
(* Types                                                                         *)

USE DEF None

(* The lines of the log, and the state of a deck, are what they should be.       *)
LEMMA LineFacts ==
  ASSUME log \in Seq(Lines)
  PROVE  /\ Len(log) \in Nat /\ DOMAIN log = 1..Len(log)
         /\ \A k \in DOMAIN log : log[k] \in Lines /\ k \in Nat /\ k # None
BY LenProperties, ElementOfSeq

(* What the methods of a deck make of it is a deck.                              *)
LEMMA DeckTypes ==
  ASSUME NEW d \in Decks, NEW k \in Nat, NEW points
  PROVE  /\ NoDeck \in Decks /\ DeckStop(d) \in Decks /\ DeckFade(d) \in Decks /\ DeckPause(d) \in Decks
         /\ DeckStart(d, k, points) \in Decks /\ DeckRefused(k) \in Decks
<1>1. NoDeck \in Decks /\ StopAir(d.air) \in {"none", "idle", "playing", "ended"}
  BY DEF NoDeck, Decks, StopAir
<1>2. DeckStop(d) \in Decks
  BY <1>1 DEF DeckStop, Decks
<1>3. DeckPause(d) \in Decks
  BY <1>1 DEF DeckPause, Decks
<1>4. DeckFade(d) \in Decks
  BY <1>1 DEF DeckFade, Decks
<1>5. DeckStart(d, k, points) \in Decks /\ DeckRefused(k) \in Decks
  BY DEF DeckStart, DeckRefused, NoDeck, Decks
<1> QED BY <1>1, <1>2, <1>3, <1>4, <1>5

LEMMA DeckKeepsId ==
  ASSUME NEW d \in Decks
  PROVE  DeckStop(d).id = d.id /\ DeckFade(d).id = d.id /\ DeckPause(d).id = d.id
<1>1. DeckStop(d).id = d.id
  BY DEF DeckStop, Decks
<1>2. DeckFade(d).id = d.id
  BY DEF DeckFade, Decks
<1>3. DeckPause(d).id = d.id
  BY DEF DeckPause, Decks
<1> QED BY <1>1, <1>2, <1>3

(* A log in which lines have changed their status or deck: the hard starts stay, *)
(* and no line that has started is as if it had not.                             *)
Ages(l, m) ==
  /\ m \in Seq(Lines) /\ DOMAIN m = DOMAIN l
  /\ \A k \in DOMAIN l : m[k].at = l[k].at /\ (m[k].status = "Scheduled" => l[k].status = "Scheduled")

LEMMA AgesSame == ASSUME NEW l \in Seq(Lines) PROVE Ages(l, l)
BY DEF Ages

LEMMA AgesAgain == ASSUME NEW l, NEW m, NEW n, Ages(l, m), Ages(m, n) PROVE Ages(l, n)
BY DEF Ages

(* one line starts, ends or is paused                                            *)
LEMMA AgesLine ==
  ASSUME NEW l \in Seq(Lines), NEW k, NEW st \in Statuses \ {"Scheduled"}, NEW d \in DeckIds \cup {None}
  PROVE  /\ Ages(l, [l EXCEPT ![k].status = st])
         /\ Ages(l, [l EXCEPT ![k].status = st, ![k].deck = d])
         /\ Ages(l, [j \in DOMAIN l |-> IF j = k THEN [l[j] EXCEPT !.status = st] ELSE l[j]])
<1>1. \A j \in DOMAIN l : l[j] \in Lines
  BY LenProperties, ElementOfSeq
<1> DEFINE Older(n, o) == n \in Lines /\ n.at = o.at /\ (n.status = "Scheduled" => o.status = "Scheduled")
<1>2. ASSUME NEW m, m = [j \in DOMAIN l |-> m[j]], \A j \in DOMAIN l : Older(m[j], l[j])
      PROVE  Ages(l, m)
  <2>1. m \in Seq(Lines) /\ DOMAIN m = DOMAIN l
    BY <1>2, SeqMap
  <2> QED BY <1>2, <2>1 DEF Ages
<1>3. Ages(l, [l EXCEPT ![k].status = st])
  <2> SUFFICES ASSUME NEW m, m = [l EXCEPT ![k].status = st] PROVE Ages(l, m)
    OBVIOUS
  <2>1. m = [j \in DOMAIN l |-> m[j]]
    OBVIOUS
  <2>2. \A j \in DOMAIN l : Older(m[j], l[j])
    BY <1>1 DEF Lines
  <2> HIDE DEF Older
  <2> QED BY <1>2, <2>1, <2>2
<1>4. Ages(l, [l EXCEPT ![k].status = st, ![k].deck = d])
  <2> SUFFICES ASSUME NEW m, m = [l EXCEPT ![k].status = st, ![k].deck = d] PROVE Ages(l, m)
    OBVIOUS
  <2>1. m = [j \in DOMAIN l |-> m[j]]
    OBVIOUS
  <2>2. \A j \in DOMAIN l : Older(m[j], l[j])
    BY <1>1 DEF Lines
  <2> HIDE DEF Older
  <2> QED BY <1>2, <2>1, <2>2
<1>5. Ages(l, [j \in DOMAIN l |-> IF j = k THEN [l[j] EXCEPT !.status = st] ELSE l[j]])
  <2> SUFFICES ASSUME NEW m, m = [j \in DOMAIN l |-> IF j = k THEN [l[j] EXCEPT !.status = st] ELSE l[j]]
               PROVE  Ages(l, m)
    OBVIOUS
  <2>1. m = [j \in DOMAIN l |-> m[j]]
    OBVIOUS
  <2>2. \A j \in DOMAIN l : Older(m[j], l[j])
    BY <1>1 DEF Lines
  <2> HIDE DEF Older
  <2> QED BY <1>2, <2>1, <2>2
<1> QED BY <1>3, <1>4, <1>5

--------------------------------------------------------------------------------
(* The timer of the hard starts                                                  *)

(* Whatever hard start is still ahead, the timer is set, for a line of the log   *)
(* and no later.                                                                 *)
Armed ==
  /\ trans.on => trans.line \in DOMAIN log /\ log[trans.line].at = trans.at
  /\ \A k \in HardStarts(log, now) : trans.on /\ trans.at <= log[k].at

(* The timer stays right over a log whose lines have aged, whether it is set     *)
(* again or not.                                                                 *)
LEMMA ArmedKeeps ==
  ASSUME LogTypeOK, Armed, Ages(log, log'), now' = now, trans' = trans \/ trans' = TransOf(log', now)
  PROVE  Armed' /\ trans' \in [line : Nat, at : Nat, on : BOOLEAN]
<1>1. log' \in Seq(Lines) /\ now \in Nat
  BY DEF Ages, LogTypeOK
<1>2. CASE trans' = TransOf(log', now)
  BY <1>1, <1>2, TransFacts, Zenon DEF Armed
<1>3. CASE trans' = trans
  <2>1. trans' \in [line : Nat, at : Nat, on : BOOLEAN]
    BY <1>3 DEF LogTypeOK
  <2>2. HardStarts(log', now') \subseteq HardStarts(log, now)
    BY DEF Ages, HardStarts
  <2> QED BY <1>3, <2>1, <2>2 DEF Armed, Ages, HardStarts
<1> QED BY <1>2, <1>3

(* It is right whenever it has been set.                                         *)
LEMMA ArmedSet ==
  ASSUME log' \in Seq(Lines), now' \in Nat, trans' = TransOf(log', now')
  PROVE  Armed' /\ trans' \in [line : Nat, at : Nat, on : BOOLEAN]
BY TransFacts, Zenon DEF Armed

(* The type invariant holds of the machine that has just been loaded.            *)
LEMMA LogTypeInit == Init => LogTypeOK
<1> SUFFICES ASSUME Init PROVE LogTypeOK
  OBVIOUS
<1>1. log \in Seq(Lines)
  <2>1. log \in Seq({ln \in Lines : ln.status = "Scheduled" /\ ln.deck = None})
    BY LogPlayAssumption DEF Init
  <2> DEFINE S == {ln \in Lines : ln.status = "Scheduled" /\ ln.deck = None}
  <2>2. S \subseteq Lines
    OBVIOUS
  <2> HIDE DEF S
  <2>3. log \in Seq(S)
    BY <2>1 DEF S
  <2> QED BY <2>2, <2>3, SeqMap, LenProperties, ElementOfSeq
<1>2. trans \in [line : Nat, at : Nat, on : BOOLEAN]
  <2>1. 0 \in Nat /\ trans = TransOf(log, 0)
    BY DEF Init
  <2> QED BY <1>1, <2>1, TransFacts, Zenon
<1>3. decks \in [DeckIds -> Decks]
  BY DEF Init, NoDeck, Decks
<1>4. call \in Calls
  BY DEF Init, NoCall, Calls, Transitions
<1> QED BY <1>1, <1>2, <1>3, <1>4, LogPlayAssumption DEF Init, LogTypeOK, NoMacro

LogInv == LogTypeOK /\ Armed

LEMMA LogInvInit == Init => LogInv
<1> SUFFICES ASSUME Init PROVE LogInv
  OBVIOUS
<1>1. LogTypeOK
  BY LogTypeInit
<1>2. log \in Seq(Lines) /\ now \in Nat /\ trans = TransOf(log, now)
  BY <1>1 DEF Init, LogTypeOK
<1>3. Armed
  BY <1>2, TransFacts, Zenon DEF Armed
<1> QED BY <1>1, <1>3 DEF LogInv

(* What StartEvent() does to what is running.                                    *)
LEMMA TransitionTypes ==
  ASSUME LogTypeOK
  PROVE  /\ Ages(log, LogTransitioned)
         /\ DecksTransitioned \in [DeckIds -> Decks]
         /\ MacroTransitioned \in [line : Nat, sleeps : BOOLEAN]
<1>1. log \in Seq(Lines) /\ \A j \in DOMAIN log : log[j] \in Lines
  BY LineFacts DEF LogTypeOK
<1>2. Ages(log, LogTransitioned)
  <2> SUFFICES ASSUME NEW m, m = LogTransitioned PROVE Ages(log, m)
    OBVIOUS
  <2>1. m = [j \in DOMAIN log |-> m[j]]
    BY DEF LogTransitioned
  <2>2. ASSUME NEW j \in DOMAIN log
        PROVE  /\ m[j] \in Lines /\ m[j].at = log[j].at
               /\ m[j].status = "Scheduled" => log[j].status = "Scheduled"
    <3>1. m[j] \in {log[j], [log[j] EXCEPT !.status = "Finished"], [log[j] EXCEPT !.status = "Finishing"]}
      BY DEF LogTransitioned
    <3> QED BY <1>1, <3>1 DEF Lines, Statuses
  <2>3. m \in Seq(Lines) /\ DOMAIN m = DOMAIN log
    BY <1>1, <2>1, <2>2, SeqMap
  <2> QED BY <2>2, <2>3 DEF Ages
<1>3. DecksTransitioned \in [DeckIds -> Decks]
  <2>1. \A d \in DeckIds : decks[d] \in Decks
    BY DEF LogTypeOK
  <2>2. \A d \in DeckIds : DeckFade(decks[d]) \in Decks /\ DeckStop(decks[d]) \in Decks
    BY <2>1, DeckTypes
  <2> QED BY <2>1, <2>2 DEF DecksTransitioned
<1>4. MacroTransitioned \in [line : Nat, sleeps : BOOLEAN]
  BY DEF MacroTransitioned, NoMacro, LogTypeOK
<1> QED BY <1>2, <1>3, <1>4

LEMMA CallTypes ==
  /\ NoCall \in Calls
  /\ \A unwind \in BOOLEAN : [NoCall EXCEPT !.op = "FinishEvent", !.unwind = unwind] \in Calls
BY DEF NoCall, Calls, Transitions

LEMMA StartCallTypes ==
  ASSUME NEW k \in Nat, NEW tr \in Transitions, NEW fade \in BOOLEAN, NEW always \in BOOLEAN,
         StartCall(k, tr, fade, always)
  PROVE  call' \in Calls
BY DEF StartCall, NoCall, Calls, Transitions

(* A call returns, over a log that may have aged.                                *)
LEMMA ReturnTypes ==
  ASSUME LogInv, NEW l, Ages(log, l), log' = l, now' = now, NEW n, Return(l, n)
  PROVE  /\ Armed' /\ trans' \in [line : Nat, at : Nat, on : BOOLEAN]
         /\ next' \in Nat /\ call' \in Calls /\ macro_running' \in BOOLEAN
<1>1. Armed' /\ trans' \in [line : Nat, at : Nat, on : BOOLEAN]
  <2>1. trans' = trans \/ trans' = TransOf(log', now)
    BY DEF Return
  <2> QED BY <2>1, ArmedKeeps DEF LogInv
<1>2. next' \in Nat
  BY LineFacts DEF Return, LogInv, LogTypeOK, Ages
<1>3. call' \in Calls /\ macro_running' \in BOOLEAN
  BY CallTypes DEF Return
<1> QED BY <1>1, <1>2, <1>3

LEMMA StartEventTypes ==
  ASSUME LogInv, StartEvent
  PROVE  LogInv'
<1> DEFINE k == call.line
<1>0. LogTypeOK /\ log \in Seq(Lines) /\ k \in Nat /\ mode' = mode /\ grace' = grace /\ now' = now
  BY DEF LogInv, LogTypeOK, Calls, StartEvent
<1>1. /\ Ages(log, LogTransitioned) /\ LogTransitioned \in Seq(Lines)
      /\ DecksTransitioned \in [DeckIds -> Decks]
      /\ MacroTransitioned \in [line : Nat, sleeps : BOOLEAN]
  BY <1>0, TransitionTypes DEF Ages
<1>2. CASE \E d \in DeckIds, loaded \in BOOLEAN : StartCart(k, d, loaded)
  <2>1. PICK d \in DeckIds, loaded \in BOOLEAN : StartCart(k, d, loaded)
    BY <1>2
  <2> DEFINE l == [LogTransitioned EXCEPT ![k].status = "Playing", ![k].deck = d]
  <2>2. Ages(log, l)
    <3>1. Ages(LogTransitioned, l)
      BY <1>1, AgesLine DEF Statuses
    <3> QED BY <1>1, <3>1, AgesAgain
  <2>3. log' = l /\ Return(l, IF log[k].status = "Paused" THEN next ELSE NextAfter(k))
    BY <2>1 DEF StartCart
  <2>4. active' \subseteq DeckIds
    BY <1>0, <2>1 DEF StartCart, LogTypeOK
  <2>5. decks' \in [DeckIds -> Decks]
    <3>1. DecksTransitioned[d] \in Decks
      BY <1>1
    <3>2. DeckStart(DecksTransitioned[d], k, log[k].slow) \in Decks /\ DeckRefused(k) \in Decks
      BY <1>0, <3>1, DeckTypes
    <3>3. decks' = [DecksTransitioned EXCEPT ![d] = IF loaded THEN DeckStart(DecksTransitioned[d], k, log[k].slow)
                                                             ELSE DeckRefused(k)]
      BY <2>1 DEF StartCart
    <3> QED BY <1>1, <3>2, <3>3
  <2>6. macro' = MacroTransitioned
    BY <2>1 DEF StartCart
  <2> HIDE DEF l
  <2>7. /\ Armed' /\ trans' \in [line : Nat, at : Nat, on : BOOLEAN]
        /\ next' \in Nat /\ call' \in Calls /\ macro_running' \in BOOLEAN
    BY <1>0, <2>2, <2>3, ReturnTypes
  <2> QED BY <1>0, <1>1, <2>2, <2>3, <2>4, <2>5, <2>6, <2>7 DEF LogInv, LogTypeOK, Ages
<1>3. CASE StartAndFinish(k)
  <2>1. Ages(log, log')
    <3>1. Ages(LogTransitioned, [LogTransitioned EXCEPT ![k].status = "Finished"])
      BY <1>1, AgesLine DEF Statuses
    <3> QED BY <1>1, <1>3, <3>1, AgesAgain DEF StartAndFinish
  <2>2. trans' = trans /\ active' = active /\ decks' = DecksTransitioned /\ macro' = MacroTransitioned
    BY <1>3 DEF StartAndFinish
  <2>3. Armed' /\ trans' \in [line : Nat, at : Nat, on : BOOLEAN]
    BY <1>0, <2>1, <2>2, ArmedKeeps DEF LogInv
  <2>4. next' \in Nat /\ macro_running' \in BOOLEAN
    <3>1. next' \in {next, NextAfter(k)} /\ macro_running' \in {macro_running, TRUE}
      BY <1>3 DEF StartAndFinish
    <3>2. NextAfter(k) \in Nat
      BY <1>0 DEF NextAfter
    <3> QED BY <1>0, <3>1, <3>2 DEF LogTypeOK
  <2>5. call' \in Calls
    <3>1. call' = [call EXCEPT !.op = "FinishEvent", !.unwind = call.unwind \/ log[k].type = "Macro"]
      BY <1>3 DEF StartAndFinish
    <3>2. (call.unwind \/ log[k].type = "Macro") \in BOOLEAN
      OBVIOUS
    <3> QED BY <1>0, <3>1, <3>2 DEF Calls, LogTypeOK
  <2> QED BY <1>0, <1>1, <2>1, <2>2, <2>3, <2>4, <2>5 DEF LogInv, LogTypeOK, Ages
<1>4. CASE StartMacro(k)
  <2> DEFINE l == [LogTransitioned EXCEPT ![k].status = "Playing"]
  <2>1. Ages(log, l)
    <3>1. Ages(LogTransitioned, l)
      BY <1>1, AgesLine DEF Statuses
    <3> QED BY <1>1, <3>1, AgesAgain
  <2>2. /\ log' = l /\ active' = active /\ decks' = DecksTransitioned /\ call' = NoCall
        /\ macro' = [line |-> k, sleeps |-> TRUE] /\ macro_running' = ~call.unwind
        /\ trans' = trans \/ trans' = TransOf(log', now)
        /\ next' = IF NextAfter(k) \in DOMAIN l THEN NextAfter(k) ELSE None
    BY <1>4 DEF StartMacro
  <2> HIDE DEF l
  <2>3. Armed' /\ trans' \in [line : Nat, at : Nat, on : BOOLEAN]
    BY <1>0, <2>1, <2>2, ArmedKeeps DEF LogInv
  <2>4. next' \in Nat
    BY <1>0, <2>1, <2>2, LineFacts DEF Ages
  <2>5. call' \in Calls /\ macro_running' \in BOOLEAN /\ macro' \in [line : Nat, sleeps : BOOLEAN]
    BY <1>0, <2>2, CallTypes
  <2> QED BY <1>0, <1>1, <2>1, <2>2, <2>3, <2>4, <2>5 DEF LogInv, LogTypeOK, Ages
<1> QED BY <1>2, <1>3, <1>4 DEF StartEvent

LEMMA FinishEventTypes ==
  ASSUME LogInv, FinishEvent
  PROVE  LogInv'
<1> DEFINE k == GetNextPlayable(next, FALSE)
<1>0. /\ LogTypeOK /\ log \in Seq(Lines) /\ log' = log /\ mode' = mode /\ decks' = decks
      /\ active' = active /\ macro' = macro /\ grace' = grace /\ now' = now
  BY DEF LogInv, LogTypeOK, FinishEvent
<1>1. k = None \/ (k \in DOMAIN log /\ log[k] \in Lines /\ k \in Nat)
  BY <1>0, NextFacts, LineFacts
<1>2. Ages(log, log)
  BY <1>0, AgesSame
<1> HIDE DEF k
<1>3. CASE /\ Found(k, next) /\ next' = k /\ trans' = trans /\ macro_running' = macro_running
           /\ call' = [call EXCEPT !.op = "StartEvent", !.line = k, !.trans = log[k].trans,
                                   !.fade = FALSE, !.rearm = call.rearm \cup {next}]
  <2>1. k \in Nat /\ log[k].trans \in Transitions
    BY <1>1, <1>3 DEF Found, Lines
  <2>2. call' \in Calls
    BY <1>0, <1>3, <2>1 DEF Calls, LogTypeOK
  <2>3. Armed' /\ trans' \in [line : Nat, at : Nat, on : BOOLEAN]
    BY <1>0, <1>2, <1>3, ArmedKeeps DEF LogInv
  <2> QED BY <1>0, <1>3, <2>1, <2>2, <2>3 DEF LogInv, LogTypeOK
<1>4. CASE Return(log, k) \/ Return(log, next)
  <2>1. /\ Armed' /\ trans' \in [line : Nat, at : Nat, on : BOOLEAN]
        /\ next' \in Nat /\ call' \in Calls /\ macro_running' \in BOOLEAN
    BY <1>0, <1>2, <1>4, ReturnTypes
  <2> QED BY <1>0, <2>1 DEF LogInv, LogTypeOK
<1>5. CASE /\ call' = NoCall /\ makeNextLine(k) /\ macro_running' = (macro_running /\ ~call.unwind)
  <2>1. Armed' /\ trans' \in [line : Nat, at : Nat, on : BOOLEAN]
    BY <1>0, <1>2, <1>5, ArmedKeeps DEF LogInv, makeNextLine
  <2>2. next' \in Nat
    BY <1>1, <1>5 DEF makeNextLine
  <2>3. call' \in Calls /\ macro_running' \in BOOLEAN
    BY <1>5, CallTypes
  <2> QED BY <1>0, <2>1, <2>2, <2>3 DEF LogInv, LogTypeOK
<1> QED BY <1>3, <1>4, <1>5 DEF FinishEvent, k

(* The operator's commands that leave the number of lines alone.                 *)
LEMMA CommandTypes ==
  ASSUME LogInv, NEW k \in DOMAIN log, NEW fade \in BOOLEAN, NEW m \in Modes,
         play(k) \/ pause(k) \/ makeNext(k) \/ stop(k, fade) \/ setOpMode(m)
  PROVE  LogInv'
<1>0. LogTypeOK /\ Armed /\ log \in Seq(Lines) /\ k \in Nat /\ Ages(log, log)
  BY LineFacts, AgesSame DEF LogInv, LogTypeOK
<1>1. CASE play(k)
  <2> DEFINE n == GetNextPlayable(k, TRUE)
  <2>0. /\ log' = log /\ mode' = mode /\ decks' = decks /\ macro_running' = macro_running
        /\ active' = active /\ macro' = macro /\ grace' = grace /\ now' = now
    BY <1>1 DEF play
  <2>1. n = None \/ (n \in DOMAIN log /\ n \in Nat)
    BY <1>0, NextFacts, LineFacts
  <2>2. \/ /\ StartCall(n, IF ForcedSegue THEN "Segue" ELSE "Play", ForcedSegue, TRUE)
           /\ next' = next /\ trans' = trans
        \/ makeNextLine(n) /\ call' = call
    BY <1>1 DEF play
  <2> HIDE DEF n
  <2>3. Armed' /\ trans' \in [line : Nat, at : Nat, on : BOOLEAN]
    BY <1>0, <2>0, <2>2, ArmedKeeps DEF makeNextLine
  <2>4. next' \in Nat
    <3>1. next' = next \/ next' = n
      BY <2>2 DEF makeNextLine
    <3> QED BY <1>0, <2>1, <3>1 DEF LogTypeOK
  <2>5. call' \in Calls
    <3> DEFINE tr == IF ForcedSegue THEN "Segue" ELSE "Play"
    <3>1. n \in Nat /\ tr \in Transitions /\ ForcedSegue \in BOOLEAN
      BY <2>1, LogPlayAssumption DEF Transitions
    <3>2. StartCall(n, tr, ForcedSegue, TRUE) => call' \in Calls
      <4> HIDE DEF tr
      <4>1. TRUE \in BOOLEAN
        OBVIOUS
      <4> QED BY <3>1, <4>1, StartCallTypes, Zenon
    <3> QED BY <1>0, <2>2, <3>2 DEF LogTypeOK
  <2> QED BY <1>0, <2>0, <2>3, <2>4, <2>5 DEF LogInv, LogTypeOK
<1>2. CASE pause(k) \/ makeNext(k) \/ stop(k, fade) \/ setOpMode(m)
  <2>1. Ages(log, log') /\ now' = now /\ (trans' = trans \/ trans' = TransOf(log', now))
    <3>1. Ages(log, [j \in DOMAIN log |-> IF j = macro.line THEN [log[j] EXCEPT !.status = "Finished"]
                                                            ELSE log[j]])
      BY <1>0, AgesLine DEF Statuses
    <3>2. log' = log \/ log' = [j \in DOMAIN log |-> IF j = macro.line THEN [log[j] EXCEPT !.status = "Finished"]
                                                                       ELSE log[j]]
      BY <1>2 DEF pause, makeNext, stop, setOpMode, makeNextLine
    <3>3. now' = now /\ (trans' = trans \/ (log' = log /\ trans' = TransOf(log, now)))
      BY <1>2 DEF pause, makeNext, stop, setOpMode, makeNextLine
    <3> QED BY <1>0, <3>1, <3>2, <3>3
  <2>2. Armed' /\ trans' \in [line : Nat, at : Nat, on : BOOLEAN] /\ log' \in Seq(Lines)
    BY <1>0, <2>1, ArmedKeeps DEF Ages
  <2>3. decks' \in [DeckIds -> Decks]
    <3>1. ASSUME NEW d, decks' = [decks EXCEPT ![d] = DeckFade(@)] \/ decks' = [decks EXCEPT ![d] = DeckStop(@)]
                          \/ decks' = [decks EXCEPT ![d] = DeckPause(@)]
          PROVE  decks' \in [DeckIds -> Decks]
      <4>1. \A e \in DeckIds : DeckFade(decks[e]) \in Decks /\ DeckStop(decks[e]) \in Decks
                                /\ DeckPause(decks[e]) \in Decks
        BY <1>0, DeckTypes DEF LogTypeOK
      <4> QED BY <1>0, <3>1, <4>1 DEF LogTypeOK
    <3>2. decks' = decks \/ decks' = [decks EXCEPT ![log[k].deck] = DeckFade(@)]
          \/ decks' = [decks EXCEPT ![log[k].deck] = DeckStop(@)]
          \/ decks' = [decks EXCEPT ![log[k].deck] = DeckPause(@)]
      BY <1>2 DEF pause, makeNext, stop, setOpMode
    <3> QED BY <1>0, <3>1, <3>2 DEF LogTypeOK
  <2>4. /\ next' \in Nat /\ mode' \in Modes /\ macro' \in [line : Nat, sleeps : BOOLEAN]
        /\ active' = active /\ macro_running' = macro_running /\ grace' = grace /\ call' = call
    <3>1. /\ next' \in {next, k} /\ mode' \in {mode, m} /\ macro' \in {macro, NoMacro}
          /\ active' = active /\ macro_running' = macro_running /\ grace' = grace /\ call' = call
      BY <1>2 DEF pause, makeNext, stop, setOpMode, makeNextLine
    <3>2. next' \in Nat /\ mode' \in Modes
      BY <1>0, <3>1 DEF LogTypeOK
    <3>3. macro' \in [line : Nat, sleeps : BOOLEAN]
      <4>1. NoMacro \in [line : Nat, sleeps : BOOLEAN]
        BY DEF NoMacro
      <4>2. macro \in [line : Nat, sleeps : BOOLEAN]
        BY <1>0 DEF LogTypeOK
      <4> QED BY <3>1, <4>1, <4>2
    <3> QED BY <3>1, <3>2, <3>3
  <2> QED BY <1>0, <2>1, <2>2, <2>3, <2>4 DEF LogInv, LogTypeOK
<1> QED BY <1>1, <1>2

(* insert(), remove() and move()                                                 *)
LEMMA EditTypes ==
  ASSUME LogInv,
         \/ \E k \in 1..(Len(log) + 1) : insert(k)
         \/ \E k \in DOMAIN log : remove(k)
         \/ \E k \in DOMAIN log : \E j \in 1..(Len(log) + 1) : move(k, j)
  PROVE  LogInv'
<1>0. LogTypeOK /\ log \in Seq(Lines) /\ Len(log) \in Nat /\ DOMAIN log = 1..Len(log)
  BY LineFacts DEF LogInv, LogTypeOK
<1>1. NewLine \in Lines
  BY DEF NewLine, Lines, Types, Transitions, Graces, Statuses
<1>2. \A d \in DeckIds : decks[d] \in Decks /\ decks[d].id \in Nat
  BY <1>0 DEF LogTypeOK, Decks
<1>3. macro.line \in Nat /\ next \in Nat /\ macro.sleeps \in BOOLEAN
  BY <1>0 DEF LogTypeOK
<1>4. ASSUME log' \in Seq(Lines), trans' = TransOf(log', now), decks' \in [DeckIds -> Decks],
             active' \subseteq active, macro' \in [line : Nat, sleeps : BOOLEAN], next' \in Nat,
             UNCHANGED <<mode, macro_running, grace, now, call>>
      PROVE  LogInv'
  <2>1. now' \in Nat /\ trans' = TransOf(log', now')
    BY <1>0, <1>4 DEF LogTypeOK
  <2>2. Armed' /\ trans' \in [line : Nat, at : Nat, on : BOOLEAN]
    BY <1>4, <2>1, ArmedSet
  <2> QED BY <1>0, <1>4, <2>2 DEF LogInv, LogTypeOK
<1>5. CASE \E k \in 1..(Len(log) + 1) : insert(k)
  <2>1. PICK k \in 1..(Len(log) + 1) : insert(k)
    BY <1>5
  <2>2. log' \in Seq(Lines)
    <3>1. log' = InsertAt(log, k, NewLine)
      BY <2>1 DEF insert
    <3> QED BY <1>0, <1>1, <3>1, InsertFacts
  <2>3. decks' \in [DeckIds -> Decks]
    <3>1. decks' = [d \in DeckIds |-> IF d \in DecksOf(Running)
                      THEN [decks[d] EXCEPT !.id = IF decks[d].id >= k THEN decks[d].id + 1 ELSE decks[d].id]
                      ELSE decks[d]]
      BY <2>1 DEF insert, Renumber
    <3>2. \A d \in DeckIds :
            [decks[d] EXCEPT !.id = IF decks[d].id >= k THEN decks[d].id + 1 ELSE decks[d].id] \in Decks
      BY <1>2 DEF Decks
    <3> QED BY <1>2, <3>1, <3>2
  <2>4. macro' \in [line : Nat, sleeps : BOOLEAN] /\ next' \in Nat
    <3>1. /\ macro' = [macro EXCEPT !.line = IF macro.line # None THEN macro.line + 1 ELSE macro.line]
          /\ next' = IF next > k THEN next + 1 ELSE IF next = None THEN k ELSE next
      BY <2>1 DEF insert
    <3>2. macro \in [line : Nat, sleeps : BOOLEAN]
      BY <1>0 DEF LogTypeOK
    <3> QED BY <1>0, <1>3, <3>1, <3>2
  <2> QED BY <1>4, <2>1, <2>2, <2>3, <2>4 DEF insert
<1>6. CASE \E k \in DOMAIN log : remove(k)
  <2>1. PICK k \in DOMAIN log : remove(k)
    BY <1>6
  <2>2. log' \in Seq(Lines)
    <3>1. log' = RemoveAt(log, k)
      BY <2>1 DEF remove
    <3> QED BY <1>0, <3>1, RemoveFacts
  <2>3. decks' \in [DeckIds -> Decks]
    <3>1. decks' = [d \in DeckIds |-> IF d \in DecksOf({k}) THEN NoDeck
                      ELSE IF d \in DecksOf(Running) /\ decks[d].id > k
                           THEN [decks[d] EXCEPT !.id = decks[d].id - 1] ELSE decks[d]]
      BY <2>1 DEF remove
    <3>2. \A d \in DeckIds : decks[d].id > k => [decks[d] EXCEPT !.id = decks[d].id - 1] \in Decks
      BY <1>0, <1>2 DEF Decks
    <3>3. NoDeck \in Decks
      BY DEF NoDeck, Decks
    <3> QED BY <1>2, <3>1, <3>2, <3>3
  <2>4. macro' \in [line : Nat, sleeps : BOOLEAN] /\ next' \in Nat /\ active' \subseteq active
    <3>1. /\ macro' = [macro EXCEPT !.line = IF macro.line > 1 THEN macro.line - 1 ELSE macro.line]
          /\ next' = IF next > k THEN next - 1 ELSE next
          /\ active' = active \ DecksOf({k})
      BY <2>1 DEF remove
    <3>2. macro \in [line : Nat, sleeps : BOOLEAN]
      BY <1>0 DEF LogTypeOK
    <3> QED BY <1>0, <1>3, <3>1, <3>2
  <2> QED BY <1>4, <2>1, <2>2, <2>3, <2>4 DEF remove
<1>7. CASE \E k \in DOMAIN log : \E j \in 1..(Len(log) + 1) : move(k, j)
  <2>1. PICK from \in DOMAIN log, before \in 1..(Len(log) + 1) : move(from, before)
    BY <1>7
  <2> DEFINE to == IF before > Len(log) THEN Len(log) ELSE IF before > from THEN before - 1 ELSE before
             offset == IF to > from THEN 1 ELSE 0
  <2>2. to \in 1..Len(log) /\ from \in 1..Len(log)
    BY <1>0
  <2>3. /\ to # from /\ log' = InsertAt(RemoveAt(log, from), to, log[from])
        /\ decks' = [d \in DeckIds |-> IF d \in DecksOf({k \in Running : log[k].status # "Paused"})
                      THEN [decks[d] EXCEPT !.id = Shifted(decks[d].id, from, to)] ELSE decks[d]]
        /\ macro' = [macro EXCEPT !.line = IF macro.line # None THEN Shifted(macro.line, from, to) ELSE macro.line]
        /\ next' = IF next > from /\ next <= to + offset THEN next - 1
                   ELSE IF next < from /\ next > to THEN next + 1 ELSE next
        /\ trans' = TransOf(log', now)
        /\ UNCHANGED <<mode, active, macro_running, grace, now, call>>
    BY <2>1 DEF move, Renumber
  <2> HIDE DEF to
  <2>4. log' \in Seq(Lines)
    BY <1>0, <2>2, <2>3, MoveFacts
  <2>5. \A i \in Nat : Shifted(i, from, to) \in Nat
    BY <1>0, <2>2 DEF Shifted
  <2>6. decks' \in [DeckIds -> Decks]
    <3>1. \A d \in DeckIds : [decks[d] EXCEPT !.id = Shifted(decks[d].id, from, to)] \in Decks
      BY <1>2, <2>5 DEF Decks
    <3> QED BY <1>2, <2>3, <3>1
  <2>7. macro' \in [line : Nat, sleeps : BOOLEAN]
    BY <1>0, <1>3, <2>3, <2>5 DEF LogTypeOK
  <2>8. next' \in Nat
    BY <1>0, <1>3, <2>2, <2>3
  <2> QED BY <1>4, <2>3, <2>4, <2>6, <2>7, <2>8
<1> QED BY <1>5, <1>6, <1>7

(* The three timers of the log machine.                                          *)
LEMMA TimerTypes ==
  ASSUME LogInv, transTimerData \/ graceTimerData \/ sleepTimerData
  PROVE  LogInv'
<1>0. LogTypeOK /\ Armed /\ log \in Seq(Lines) /\ Ages(log, log)
  BY AgesSame DEF LogInv, LogTypeOK
<1> DEFINE start == IF Running # {} /\ ForcedSegue THEN "Segue" ELSE "Play"
<1>1. start \in Transitions /\ (start = "Segue") \in BOOLEAN
  BY DEF Transitions
<1>2. trans.line \in Nat /\ trans.at \in Nat /\ grace.line \in Nat
  BY <1>0 DEF LogTypeOK
<1>3. ASSUME NEW k \in Nat, NEW always \in BOOLEAN, StartCall(k, start, start = "Segue", always)
      PROVE  call' \in Calls
  <2> HIDE DEF start
  <2> QED BY <1>1, <1>3, StartCallTypes
<1>4. CASE transTimerData
  <2> DEFINE k == GetNextPlayable(trans.line, FALSE)
  <2>1. k \in Nat
    BY <1>0, NextType
  <2>2. /\ now' = trans.at /\ trans' = TransOf(log', now')
        /\ UNCHANGED <<mode, decks, active, macro, macro_running>>
        /\ log' = log \/ log' = [log EXCEPT ![k].trans = IF log[k].trans = "Stop" THEN "Play" ELSE log[k].trans]
        /\ grace' = [grace EXCEPT !.on = FALSE] \/ grace' = [line |-> k, on |-> TRUE]
        /\ next' \in {next, k}
        /\ call' = call \/ StartCall(trans.line, start, start = "Segue", TRUE)
    BY <1>4 DEF transTimerData
  <2> HIDE DEF k, start
  <2>3. log' \in Seq(Lines)
    <3>1. ASSUME NEW m, m = [log EXCEPT ![k].trans = IF log[k].trans = "Stop" THEN "Play" ELSE log[k].trans]
          PROVE  m \in Seq(Lines)
      <4>1. m = [j \in DOMAIN log |-> m[j]]
        BY <3>1
      <4>2. \A j \in DOMAIN log : m[j] \in Lines
        BY <1>0, <3>1, LineFacts DEF Lines, Transitions
      <4> QED BY <1>0, <4>1, <4>2, SeqMap
    <3> QED BY <1>0, <2>2, <3>1
  <2>4. Armed' /\ trans' \in [line : Nat, at : Nat, on : BOOLEAN]
    BY <1>2, <2>2, <2>3, ArmedSet
  <2>5. grace' \in [line : Nat, on : BOOLEAN]
    <3>1. grace \in [line : Nat, on : BOOLEAN]
      BY <1>0 DEF LogTypeOK
    <3>2. [grace EXCEPT !.on = FALSE] \in [line : Nat, on : BOOLEAN]
      BY <3>1
    <3>3. [line |-> k, on |-> TRUE] \in [line : Nat, on : BOOLEAN]
      BY <2>1
    <3> QED BY <2>2, <3>2, <3>3
  <2>6. next' \in Nat
    BY <1>0, <2>1, <2>2 DEF LogTypeOK
  <2>7. call' \in Calls
    BY <1>0, <1>2, <1>3, <2>2 DEF LogTypeOK
  <2> QED BY <1>0, <1>2, <2>2, <2>3, <2>4, <2>5, <2>6, <2>7 DEF LogInv, LogTypeOK
<1>5. CASE graceTimerData
  <2> DEFINE k == GetNextPlayable(grace.line, FALSE)
  <2>1. k \in Nat
    BY <1>0, NextType
  <2>2. /\ UNCHANGED <<log, mode, decks, active, macro, macro_running, now>>
        /\ grace' = [grace EXCEPT !.on = FALSE]
        /\ next' \in {next, k}
        /\ trans' = trans \/ trans' = TransOf(log, now)
        /\ call' = call \/ StartCall(k, start, start = "Segue", FALSE)
    BY <1>5 DEF graceTimerData, makeNextLine
  <2> HIDE DEF k, start
  <2>3. Armed' /\ trans' \in [line : Nat, at : Nat, on : BOOLEAN]
    BY <1>0, <2>2, ArmedKeeps
  <2>4. grace' \in [line : Nat, on : BOOLEAN]
    <3>1. grace \in [line : Nat, on : BOOLEAN]
      BY <1>0 DEF LogTypeOK
    <3> QED BY <2>2, <3>1
  <2>5. next' \in Nat
    BY <1>0, <2>1, <2>2 DEF LogTypeOK
  <2>6. call' \in Calls
    BY <1>0, <1>3, <2>1, <2>2 DEF LogTypeOK
  <2> QED BY <1>0, <2>2, <2>3, <2>4, <2>5, <2>6 DEF LogInv, LogTypeOK
<1>6. CASE sleepTimerData
  <2>1. Ages(log, log') /\ UNCHANGED <<next, mode, decks, active, macro_running, trans, grace, now>>
    <3>1. Ages(log, [j \in DOMAIN log |-> IF j = macro.line THEN [log[j] EXCEPT !.status = "Finished"]
                                                            ELSE log[j]])
      BY <1>0, AgesLine DEF Statuses
    <3> QED BY <1>6, <3>1 DEF sleepTimerData
  <2>2. Armed' /\ trans' \in [line : Nat, at : Nat, on : BOOLEAN]
    BY <1>0, <2>1, ArmedKeeps
  <2>3. call' \in Calls
    BY <1>6, CallTypes DEF sleepTimerData, FinishCall
  <2>4. macro' \in [line : Nat, sleeps : BOOLEAN]
    BY <1>6 DEF sleepTimerData, NoMacro
  <2> QED BY <1>0, <2>1, <2>2, <2>3, <2>4 DEF LogInv, LogTypeOK, Ages
<1> QED BY <1>4, <1>5, <1>6

(* What a deck reports.                                                          *)
LEMMA DeckEventTypes ==
  ASSUME LogInv, NEW d \in DeckIds, DeckEvent(d)
  PROVE  LogInv'
<1>0. /\ LogTypeOK /\ Armed /\ log \in Seq(Lines) /\ Ages(log, log)
      /\ decks \in [DeckIds -> Decks] /\ decks[d] \in Decks /\ decks[d].id \in Nat
  BY AgesSame DEF LogInv, LogTypeOK, Decks
<1>1. NoDeck \in Decks
  BY DEF NoDeck, Decks
<1>2. ASSUME NEW e, NEW x \in Decks, decks' = [decks EXCEPT ![e] = x] PROVE decks' \in [DeckIds -> Decks]
  BY <1>0, <1>2
<1>3. ASSUME Ages(log, log'), decks' \in [DeckIds -> Decks], active' \subseteq active, call' \in Calls,
             UNCHANGED <<next, mode, macro, macro_running, trans, grace, now>>
      PROVE  LogInv'
  <2>1. Armed' /\ trans' \in [line : Nat, at : Nat, on : BOOLEAN]
    BY <1>0, <1>3, ArmedKeeps
  <2> QED BY <1>0, <1>3, <2>1 DEF LogInv, LogTypeOK, Ages
<1>4. ASSUME NEW k, CleanupEvent(k)
      PROVE  Ages(log, log') /\ decks' \in [DeckIds -> Decks] /\ active' \subseteq active
  <2>1. Ages(log, [log EXCEPT ![k].status = "Finished", ![k].deck = None])
    BY <1>0, AgesLine DEF Statuses
  <2> QED BY <1>1, <1>2, <1>4, <2>1 DEF CleanupEvent
<1>5. call \in Calls
  BY <1>0 DEF LogTypeOK
<1>6. CASE caedEnds(d)
  <2>1. decks' \in [DeckIds -> Decks]
    BY <1>0, <1>6 DEF caedEnds, Decks
  <2> QED BY <1>0, <1>3, <1>5, <1>6, <2>1 DEF caedEnds
<1>7. CASE stopTimer(d)
  <2>1. decks' \in [DeckIds -> Decks]
    <3>1. DeckStop(decks[d]) \in Decks
      BY <1>0, DeckTypes
    <3>2. [DeckStop(decks[d]) EXCEPT !.stop_timer = FALSE] \in Decks
      BY <3>1 DEF Decks
    <3> QED BY <1>2, <1>7, <3>2 DEF stopTimer
  <2> QED BY <1>0, <1>3, <1>5, <1>7, <2>1 DEF stopTimer
<1>8. CASE segueEndData(d)
  <2>1. CASE CleanupEvent(decks[d].id)
    BY <1>0, <1>3, <1>4, <1>5, <1>8, <2>1 DEF segueEndData
  <2>2. CASE decks' = [decks EXCEPT ![d].segue = "off"] /\ UNCHANGED <<log, active>>
    <3>1. decks' \in [DeckIds -> Decks]
      BY <1>0, <2>2 DEF Decks
    <3> QED BY <1>0, <1>3, <1>5, <1>8, <2>2, <3>1 DEF segueEndData
  <2> QED BY <1>8, <2>1, <2>2 DEF segueEndData
<1>9. CASE segueStartData(d)
  <2> DEFINE k == GetNextPlayable(next, FALSE)
  <2>1. k \in Nat
    BY <1>0, NextType
  <2>2. /\ UNCHANGED <<log, mode, active, macro, macro_running, grace, now>>
        /\ decks' = [decks EXCEPT ![d].segue = "end"]
        /\ next' \in {next, k}
        /\ trans' = trans \/ trans' = TransOf(log, now)
        /\ call' = call \/ StartCall(k, "Segue", TRUE, TRUE)
    BY <1>9 DEF segueStartData, makeNextLine
  <2> HIDE DEF k
  <2>3. Armed' /\ trans' \in [line : Nat, at : Nat, on : BOOLEAN]
    BY <1>0, <2>2, ArmedKeeps
  <2>4. decks' \in [DeckIds -> Decks]
    BY <1>0, <2>2 DEF Decks
  <2>5. next' \in Nat
    BY <1>0, <2>1, <2>2 DEF LogTypeOK
  <2>6. call' \in Calls
    BY <1>5, <2>1, <2>2, StartCallTypes DEF Transitions
  <2> QED BY <1>0, <2>2, <2>3, <2>4, <2>5, <2>6 DEF LogInv, LogTypeOK
<1>10. CASE playStoppedData(d)
  <2> DEFINE k == decks[d].id
  <2>0. UNCHANGED <<next, mode, macro, macro_running, trans, grace, now>>
    BY <1>10 DEF playStoppedData
  <2>1. CASE /\ decks' = [decks EXCEPT ![d] = [NoDeck EXCEPT !.id = k, !.pause_called = TRUE,
                                                            !.state = "Paused", !.air = "idle"]]
             /\ log' = [j \in DOMAIN log |-> IF decks[d].connected /\ j = k
                          THEN [log[j] EXCEPT !.status = "Paused"] ELSE log[j]]
             /\ UNCHANGED <<active, call>>
    <3>1. [NoDeck EXCEPT !.id = k, !.pause_called = TRUE, !.state = "Paused", !.air = "idle"] \in Decks
      BY <1>0 DEF Decks, NoDeck
    <3>2. decks' \in [DeckIds -> Decks]
      BY <1>2, <2>1, <3>1
    <3>3. Ages(log, [j \in DOMAIN log |-> IF j = k THEN [log[j] EXCEPT !.status = "Paused"] ELSE log[j]])
      BY <1>0, AgesLine DEF Statuses
    <3>4. Ages(log, log')
      <4>1. CASE decks[d].connected
        BY <2>1, <3>3, <4>1
      <4>2. CASE ~decks[d].connected
        <5>1. log' = log
          BY <1>0, <2>1, <4>2
        <5> QED BY <1>0, <5>1
      <4> QED BY <4>1, <4>2
    <3> QED BY <1>3, <1>5, <2>0, <2>1, <3>2, <3>4
  <2>2. CASE CleanupEvent(k) /\ UNCHANGED call
    BY <1>3, <1>4, <1>5, <2>0, <2>2
  <2>3. CASE CleanupEvent(k) /\ FinishCall(FALSE)
    <3>1. call' \in Calls
      BY <2>3, CallTypes DEF FinishCall
    <3> QED BY <1>3, <1>4, <2>0, <2>3, <3>1
  <2>4. CASE /\ decks' = [decks EXCEPT ![d] = [NoDeck EXCEPT !.id = k, !.connected = decks[d].connected]]
             /\ UNCHANGED <<log, active, call>>
    <3>1. [NoDeck EXCEPT !.id = k, !.connected = decks[d].connected] \in Decks
      BY <1>0 DEF Decks, NoDeck
    <3>2. decks' \in [DeckIds -> Decks]
      BY <1>2, <2>4, <3>1
    <3> QED BY <1>0, <1>3, <1>5, <2>0, <2>4, <3>2
  <2> QED BY <1>10, <2>1, <2>2, <2>3, <2>4 DEF playStoppedData
<1> QED BY <1>6, <1>7, <1>8, <1>9, <1>10 DEF DeckEvent

LEMMA LogInvNext == LogInv /\ [Next]_vars => LogInv'
<1> SUFFICES ASSUME LogInv, [Next]_vars PROVE LogInv'
  OBVIOUS
<1>1. ASSUME NEW k \in DOMAIN log, play(k) \/ pause(k) \/ makeNext(k) \/ \E fade \in BOOLEAN : stop(k, fade)
      PROVE  LogInv'
  <2>1. mode \in Modes /\ TRUE \in BOOLEAN
    BY DEF LogInv, LogTypeOK
  <2> QED BY <1>1, <2>1, CommandTypes
<1>2. ASSUME NEW m \in Modes, setOpMode(m) PROVE LogInv'
  <2>1. /\ mode' \in Modes /\ log' = log /\ now' = now /\ trans' = trans
        /\ UNCHANGED <<next, decks, active, macro, macro_running, grace, call>>
    BY <1>2 DEF setOpMode
  <2> QED BY <2>1 DEF LogInv, LogTypeOK, Armed, HardStarts
<1>3. CASE Operator
  BY <1>1, <1>2, <1>3, EditTypes DEF Operator
<1>4. CASE UNCHANGED vars
  BY <1>4 DEF vars, LogInv, LogTypeOK, Armed, HardStarts
<1> QED BY <1>3, <1>4, StartEventTypes, FinishEventTypes, TimerTypes, DeckEventTypes DEF Next

(* LogTypeOK holds in every reachable state: log, decks and timers stay what     *)
(* log_play.cpp takes them for, whatever is loaded and done to the log.          *)
THEOREM LogTypeCorrect == LogSpec => []LogTypeOK
<1>1. LogInv => LogTypeOK
  BY DEF LogInv
<1> QED BY <1>1, LogInvInit, LogInvNext, PTL DEF LogSpec

(* The hard start that time reaches is the one the timer was set for, and        *)
(* transTimerData() starts it.                                                   *)
LEMMA DueStarts ==
  ASSUME LogInv, [Next]_vars, mode = "Auto", NEW k \in DOMAIN log, Due(k)
  PROVE  call'.op = "StartEvent" /\ call'.line = k
<1>0. /\ log \in Seq(Lines) /\ now \in Nat /\ log[k].at \in Nat /\ k \in Nat /\ k # None
      /\ trans \in [line : Nat, at : Nat, on : BOOLEAN]
  BY LineFacts DEF LogInv, LogTypeOK, Lines
<1>1. log[k].at > now /\ log[k].at <= now' /\ log[k].status = "Scheduled" /\ log[k].ok /\ log[k].grace = "start"
  BY DEF Due
<1>2. now' # now
  BY <1>0, <1>1
<1>3. transTimerData
  <2>1. ~UNCHANGED vars /\ ~StartEvent /\ ~FinishEvent /\ ~graceTimerData /\ ~sleepTimerData
    BY <1>2 DEF vars, StartEvent, FinishEvent, graceTimerData, sleepTimerData
  <2>2. \A d \in DeckIds : ~DeckEvent(d)
    BY <1>2 DEF DeckEvent, caedEnds, playStoppedData, stopTimer, segueStartData, segueEndData
  <2>3. ~Operator
    <3>1. \A j : ~play(j) /\ ~pause(j) /\ ~makeNext(j) /\ ~remove(j) /\ ~insert(j) /\ ~setOpMode(j)
      BY <1>2 DEF play, pause, makeNext, remove, insert, setOpMode
    <3>2. \A i, j : ~stop(i, j) /\ ~move(i, j)
      BY <1>2 DEF stop, move
    <3> QED BY <3>1, <3>2 DEF Operator
  <2> QED BY <2>1, <2>2, <2>3 DEF Next
<1>4. trans.line = k
  <2>1. k \in HardStarts(log, now)
    BY <1>1 DEF HardStarts
  <2>2. trans.on /\ trans.at <= log[k].at /\ trans.line \in DOMAIN log /\ log[trans.line].at = trans.at
    BY <2>1 DEF LogInv, Armed
  <2>3. now' = trans.at
    BY <1>3 DEF transTimerData
  <2>4. log[trans.line].at = log[k].at
    BY <1>0, <1>1, <2>2, <2>3
  <2> QED BY <2>2, <2>4 DEF Due
<1>5. GetNextPlayable(k, FALSE) = k
  <2>1. Halts(k, k, FALSE)
    BY <1>1 DEF Halts, Takes
  <2>2. PICK n : n = GetNextPlayable(k, FALSE)
    OBVIOUS
  <2>3. /\ n = None \/ (n \in DOMAIN log /\ n # None /\ n >= k /\ Halts(n, k, FALSE))
        /\ \A j \in DOMAIN log : k # None /\ j >= k /\ Halts(j, k, FALSE) => n # None /\ n <= j
    BY <1>0, <2>2, NextFacts, Zenon
  <2>4. n \in Nat
    BY <1>0, <2>2, NextType
  <2>5. k >= k
    BY <1>0
  <2>6. n # None /\ n <= k
    BY <1>0, <2>1, <2>3, <2>5
  <2>7. n >= k
    BY <2>3, <2>6
  <2>8. n = k
    BY <1>0, <2>4, <2>6, <2>7
  <2> QED BY <2>2, <2>8, Zenon
<1>6. Found(k, k) /\ ~Blocked(k, k)
  BY <1>0 DEF Found, Blocked, Blocks
<1>7. StartCall(k, IF Running # {} /\ ForcedSegue THEN "Segue" ELSE "Play",
                (IF Running # {} /\ ForcedSegue THEN "Segue" ELSE "Play") = "Segue", TRUE)
  BY <1>0, <1>1, <1>3, <1>4, <1>5, <1>6 DEF transTimerData
<1> QED BY <1>7 DEF StartCall, NoCall

(* In Auto time never passes the hard start of a playable event that may not     *)
(* wait without the event being started: whatever edits, commands and reports    *)
(* have called SetTransTimer(), or not, since the log was loaded.                *)
THEOREM HardStartsKept == LogSpec => HardStartsMet
<1>1. LogInv /\ [Next]_vars
        => [mode = "Auto" => \A k \in DOMAIN log : Due(k) => call'.op = "StartEvent" /\ call'.line = k]_vars
  BY DueStarts
<1> QED BY <1>1, LogInvInit, LogInvNext, PTL DEF LogSpec, HardStartsMet

--------------------------------------------------------------------------------
(* Lines and decks                                                               *)

(* What is taken for granted about them: no more events run than runningEvents() *)
(* shows.  StartEvent() does not stop, and insert(), remove() and move() do not  *)
(* renumber, what it leaves out.                                                 *)
AllShown == Running = {k \in DOMAIN log : IsRunning(log[k])}

(* DecksTrackLines line by line and deck by deck, with what a free deck is like  *)
Tracked ==
  /\ \A k \in DOMAIN log : /\ log[k].deck # None <=> (log[k].type = "Cart" /\ IsRunning(log[k]))
                           /\ log[k].deck # None => /\ log[k].deck \in active
                                                    /\ decks[log[k].deck].id = k
  /\ \A d \in active : decks[d].id \in DOMAIN log /\ log[decks[d].id].deck = d
  /\ \A d \in DeckIds \ active : decks[d] = NoDeck

(* The macro deck executes a macro of the log, or none.                          *)
MacroKnown == IF macro.sleeps THEN macro.line \in DOMAIN log /\ log[macro.line].type = "Macro"
              ELSE macro.line = None

(* The call a handler has still to make names a line that is not on air.         *)
CallKnown == call.op = "StartEvent" =>
  /\ call.line \in DOMAIN log /\ log[call.line].status \in {"Scheduled", "Paused", "Finished"}
  /\ call.trans \in {"Play", "Segue"}

TrackInv == LogInv /\ Tracked /\ MacroKnown /\ CallKnown

LEMMA TrackInvInit == Init => TrackInv
<1> SUFFICES ASSUME Init PROVE TrackInv
  OBVIOUS
<1>1. LogInv
  BY LogInvInit
<1>2. \A k \in DOMAIN log : log[k].status = "Scheduled" /\ log[k].deck = None
  <2>1. log \in Seq({ln \in Lines : ln.status = "Scheduled" /\ ln.deck = None})
    BY LogPlayAssumption DEF Init
  <2> DEFINE S == {ln \in Lines : ln.status = "Scheduled" /\ ln.deck = None}
  <2>2. \A ln \in S : ln.status = "Scheduled" /\ ln.deck = None
    OBVIOUS
  <2> HIDE DEF S
  <2>3. \A k \in DOMAIN log : log[k] \in S
    BY <2>1, LenProperties, ElementOfSeq DEF S
  <2> QED BY <2>2, <2>3
<1>3. Tracked
  BY <1>2 DEF Init, Tracked, IsRunning
<1>4. MacroKnown /\ CallKnown
  BY DEF Init, MacroKnown, CallKnown, NoMacro, NoCall
<1> QED BY <1>1, <1>3, <1>4 DEF TrackInv

(* A deck that is not as new is held by the line it knows.                       *)
LEMMA DeckHeld ==
  ASSUME TrackInv, NEW d \in DeckIds, decks[d] # NoDeck
  PROVE  /\ d \in active /\ decks[d].id \in DOMAIN log /\ log[decks[d].id].deck = d
         /\ log[decks[d].id].type = "Cart" /\ IsRunning(log[decks[d].id])
BY DEF TrackInv, Tracked, DeckIds

(* A step that leaves what line holds what deck alone.                           *)
LEMMA TrackKeeps ==
  ASSUME TrackInv, DOMAIN log' = DOMAIN log, active' = active,
         \A k \in DOMAIN log : /\ log'[k].deck = log[k].deck /\ log'[k].type = log[k].type
                               /\ log[k].type = "Cart" => (IsRunning(log'[k]) <=> IsRunning(log[k])),
         \A d \in DeckIds : /\ decks'[d].id = decks[d].id
                            /\ d \notin active => decks'[d] = decks[d]
  PROVE  Tracked'
<1>1. \A k \in DOMAIN log : log[k].deck \in DeckIds \cup {None}
  BY LineFacts DEF TrackInv, LogInv, LogTypeOK, Lines
<1>2. active \subseteq DeckIds
  BY DEF TrackInv, LogInv, LogTypeOK
<1>3. \A k \in DOMAIN log : IsRunning(log[k])' <=> IsRunning(log'[k])
  BY DEF IsRunning
<1> QED BY <1>1, <1>2, <1>3 DEF TrackInv, Tracked

(* CleanupEvent() of the line a deck knows sets both free.                       *)
LEMMA TrackCleanup ==
  ASSUME TrackInv, NEW d \in DeckIds, decks[d] # NoDeck, CleanupEvent(decks[d].id)
  PROVE  Tracked'
<1> DEFINE k == decks[d].id
<1>1. d \in active /\ k \in DOMAIN log /\ log[k].deck = d
  BY DeckHeld
<1>2. \A j \in DOMAIN log : log[j] \in Lines /\ log[j].deck \in DeckIds \cup {None}
  BY LineFacts DEF TrackInv, LogInv, LogTypeOK, Lines
<1>3. active \subseteq DeckIds /\ decks \in [DeckIds -> Decks]
  BY DEF TrackInv, LogInv, LogTypeOK
<1>4. /\ DOMAIN log' = DOMAIN log /\ log'[k].deck = None /\ log'[k].status = "Finished"
      /\ \A j \in DOMAIN log : j # k => log'[j] = log[j]
  BY <1>1, <1>2 DEF CleanupEvent, Lines
<1>5. /\ active' = active \ {d} /\ decks'[d] = NoDeck
      /\ \A e \in DeckIds : e # d => decks'[e] = decks[e]
  BY <1>1, <1>3 DEF CleanupEvent
<1> HIDE DEF k
<1>6. \A j \in DOMAIN log : j # k => log[j].deck # d
  BY <1>1 DEF TrackInv, Tracked, k, DeckIds
<1>7. ASSUME NEW j \in DOMAIN log'
      PROVE  /\ log'[j].deck # None <=> (log'[j].type = "Cart" /\ IsRunning(log'[j]))
             /\ log'[j].deck # None => log'[j].deck \in active' /\ decks'[log'[j].deck].id = j
  <2>1. CASE j = k
    BY <1>4, <2>1 DEF IsRunning
  <2>2. CASE j # k
    BY <1>2, <1>4, <1>5, <1>6, <1>7, <2>2 DEF TrackInv, Tracked
  <2> QED BY <2>1, <2>2
<1>8. ASSUME NEW e \in active' PROVE decks'[e].id \in DOMAIN log' /\ log'[decks'[e].id].deck = e
  <2>1. e \in active /\ e # d /\ decks'[e] = decks[e]
    BY <1>3, <1>5
  <2>2. decks[e].id \in DOMAIN log /\ log[decks[e].id].deck = e /\ decks[e].id # k
    BY <1>1, <2>1 DEF TrackInv, Tracked
  <2> QED BY <1>4, <2>1, <2>2
<1>9. \A e \in DeckIds \ active' : decks'[e] = NoDeck
  BY <1>5 DEF TrackInv, Tracked
<1> QED BY <1>7, <1>8, <1>9 DEF Tracked, IsRunning

(* A deck in all but its id                                                      *)
SameDeck(x, y) == /\ x.state = y.state /\ x.air = y.air /\ x.connected = y.connected
                  /\ x.stop_called = y.stop_called /\ x.pause_called = y.pause_called

(* An edit of the log: f tells where a line has gone, gone are the lines that    *)
(* are no more, and a line that is new has not started.                          *)
Edited(f, gone) ==
  /\ gone \in SUBSET DOMAIN log
  /\ \A i \in DOMAIN log \ gone : f[i] \in DOMAIN log' /\ log'[f[i]] = log[i]
  /\ \A j \in DOMAIN log' : (\E i \in DOMAIN log \ gone : j = f[i]) \/ log'[j] = NewLine
  /\ active' = active \ {log[i].deck : i \in gone}
  /\ \A d \in active' : decks'[d].id = f[decks[d].id] /\ SameDeck(decks'[d], decks[d])
  /\ \A d \in DeckIds \ active' : decks'[d] = NoDeck
  /\ ~macro.sleeps /\ macro'.sleeps = macro.sleeps /\ macro'.line = None
  /\ call.op = "none" /\ call' = call

LEMMA TrackEdit ==
  ASSUME TrackInv, NEW f, NEW gone, Edited(f, gone)
  PROVE  Tracked' /\ MacroKnown' /\ CallKnown'
<1> USE DEF Edited
<1>1. ASSUME NEW j \in DOMAIN log'
      PROVE  /\ log'[j].deck # None <=> (log'[j].type = "Cart" /\ IsRunning(log'[j]))
             /\ log'[j].deck # None => log'[j].deck \in active' /\ decks'[log'[j].deck].id = j
  <2>1. CASE log'[j] = NewLine
    BY <2>1 DEF IsRunning, NewLine
  <2>2. ASSUME NEW i \in DOMAIN log \ gone, j = f[i]
        PROVE  /\ log'[j].deck # None <=> (log'[j].type = "Cart" /\ IsRunning(log'[j]))
               /\ log'[j].deck # None => log'[j].deck \in active' /\ decks'[log'[j].deck].id = j
    <3>1. log'[j] = log[i]
      BY <2>2
    <3>2. log[i].deck # None <=> (log[i].type = "Cart" /\ IsRunning(log[i]))
      BY DEF TrackInv, Tracked
    <3>3. ASSUME log[i].deck # None PROVE log[i].deck \in active' /\ decks'[log[i].deck].id = j
      <4>1. log[i].deck \in active /\ decks[log[i].deck].id = i
        BY <3>3 DEF TrackInv, Tracked
      <4>2. ASSUME NEW r \in gone PROVE log[r].deck # log[i].deck
        BY <3>3, <4>1 DEF TrackInv, Tracked
      <4>3. log[i].deck \in active'
        BY <4>1, <4>2
      <4> QED BY <2>2, <4>1, <4>3
    <3> QED BY <3>1, <3>2, <3>3
  <2> QED BY <2>1, <2>2
<1>2. ASSUME NEW d \in active' PROVE decks'[d].id \in DOMAIN log' /\ log'[decks'[d].id].deck = d
  <2>1. d \in active /\ \A i \in gone : log[i].deck # d
    OBVIOUS
  <2>2. decks[d].id \in DOMAIN log \ gone /\ log[decks[d].id].deck = d
    BY <2>1 DEF TrackInv, Tracked
  <2> QED BY <2>2
<1>3. Tracked'
  BY <1>1, <1>2 DEF Tracked, IsRunning
<1> QED BY <1>3 DEF MacroKnown, CallKnown

(* What StartEvent() stops or fades keeps its deck, and the line it starts is    *)
(* not among it.                                                                 *)
LEMMA TransitionKeeps ==
  ASSUME TrackInv
  PROVE  /\ DOMAIN LogTransitioned = DOMAIN log
         /\ \A j \in DOMAIN log : /\ LogTransitioned[j] \in Lines
                                  /\ LogTransitioned[j].deck = log[j].deck
                                  /\ LogTransitioned[j].type = log[j].type
                                  /\ log[j].type = "Cart" => (IsRunning(LogTransitioned[j]) <=> IsRunning(log[j]))
         /\ \A d \in DeckIds : /\ DecksTransitioned[d].id = decks[d].id
                               /\ d \notin active => DecksTransitioned[d] = decks[d]
         /\ IF MacroTransitioned.sleeps
            THEN MacroTransitioned.line \in DOMAIN log /\ log[MacroTransitioned.line].type = "Macro"
            ELSE MacroTransitioned.line = None
<1>0. /\ LogTypeOK /\ \A j \in DOMAIN log : log[j] \in Lines
      /\ decks \in [DeckIds -> Decks] /\ \A d \in DeckIds : decks[d] \in Decks
  BY LineFacts DEF TrackInv, LogInv, LogTypeOK
<1>1. DOMAIN LogTransitioned = DOMAIN log
  BY DEF LogTransitioned
<1>2. ASSUME NEW j \in DOMAIN log
      PROVE  /\ LogTransitioned[j] \in Lines
             /\ LogTransitioned[j].deck = log[j].deck
             /\ LogTransitioned[j].type = log[j].type
             /\ log[j].type = "Cart" => (IsRunning(LogTransitioned[j]) <=> IsRunning(log[j]))
  <2>1. \/ LogTransitioned[j] = log[j]
        \/ LogTransitioned[j] = [log[j] EXCEPT !.status = "Finishing"] /\ j \in Transitioned
        \/ LogTransitioned[j] = [log[j] EXCEPT !.status = "Finished"] /\ macro.sleeps /\ j = macro.line
    BY DEF LogTransitioned, MacroStopped
  <2>2. j \in Transitioned => IsRunning(log[j])
    BY DEF Transitioned, Running
  <2>3. macro.sleeps /\ j = macro.line => log[j].type # "Cart"
    BY DEF TrackInv, MacroKnown
  <2> QED BY <1>0, <2>1, <2>2, <2>3 DEF Lines, Statuses, IsRunning
<1>3. ASSUME NEW d \in DeckIds
      PROVE  DecksTransitioned[d].id = decks[d].id /\ (d \notin active => DecksTransitioned[d] = decks[d])
  <2>1. \/ DecksTransitioned[d] = decks[d]
        \/ /\ DecksTransitioned[d] \in {DeckFade(decks[d]), DeckStop(decks[d])}
           /\ \E j \in Transitioned : log[j].deck = d
    BY DEF DecksTransitioned
  <2>2. DeckFade(decks[d]).id = decks[d].id /\ DeckStop(decks[d]).id = decks[d].id
    BY <1>0 DEF DeckFade, DeckStop, Decks
  <2>3. (\E j \in Transitioned : log[j].deck = d) => d \in active
    BY DEF TrackInv, Tracked, Transitioned, Running, DeckIds
  <2> QED BY <2>1, <2>2, <2>3
<1>4. IF MacroTransitioned.sleeps
      THEN MacroTransitioned.line \in DOMAIN log /\ log[MacroTransitioned.line].type = "Macro"
      ELSE MacroTransitioned.line = None
  BY DEF MacroTransitioned, NoMacro, TrackInv, MacroKnown
<1> QED BY <1>1, <1>2, <1>3, <1>4

(* A cart gets the deck it was paused on, or one nobody holds.                   *)
LEMMA TrackStartCart ==
  ASSUME TrackInv, call.op = "StartEvent", NEW k, k = call.line, log[k].type = "Cart",
         NEW d \in DeckIds, NEW loaded \in BOOLEAN, StartCart(k, d, loaded)
  PROVE  Tracked' /\ MacroKnown' /\ CallKnown'
<1>0. /\ LogTypeOK /\ active \subseteq DeckIds /\ k \in DOMAIN log
      /\ \A j \in DOMAIN log : log[j] \in Lines /\ log[j].deck \in DeckIds \cup {None}
      /\ log[k].status \in {"Scheduled", "Paused", "Finished"}
  BY LineFacts DEF TrackInv, LogInv, LogTypeOK, Lines, CallKnown
<1>1. /\ DOMAIN LogTransitioned = DOMAIN log
      /\ \A j \in DOMAIN log : /\ LogTransitioned[j] \in Lines
                               /\ LogTransitioned[j].deck = log[j].deck
                               /\ LogTransitioned[j].type = log[j].type
                               /\ log[j].type = "Cart" => (IsRunning(LogTransitioned[j]) <=> IsRunning(log[j]))
      /\ \A e \in DeckIds : /\ DecksTransitioned[e].id = decks[e].id
                            /\ e \notin active => DecksTransitioned[e] = decks[e]
      /\ IF MacroTransitioned.sleeps
         THEN MacroTransitioned.line \in DOMAIN log /\ log[MacroTransitioned.line].type = "Macro"
         ELSE MacroTransitioned.line = None
  BY TransitionKeeps
<1>2. /\ DOMAIN log' = DOMAIN log /\ log'[k].deck = d /\ log'[k].status = "Playing" /\ log'[k].type = "Cart"
      /\ \A j \in DOMAIN log : j # k => log'[j] = LogTransitioned[j]
      /\ \A j \in DOMAIN log : log'[j].type = log[j].type
  <2>1. log' = [LogTransitioned EXCEPT ![k].status = "Playing", ![k].deck = d]
    BY DEF StartCart
  <2> QED BY <1>0, <1>1, <2>1 DEF Lines
<1>3. /\ active' = active \cup {d}
      /\ decks'[d] = IF loaded THEN DeckStart(DecksTransitioned[d], k, log[k].slow) ELSE DeckRefused(k)
      /\ \A e \in DeckIds : e # d => decks'[e] = DecksTransitioned[e]
  <2>1. /\ active' = active \cup {d}
        /\ decks' = [DecksTransitioned EXCEPT ![d] = IF loaded THEN DeckStart(DecksTransitioned[d], k, log[k].slow)
                                                               ELSE DeckRefused(k)]
    BY DEF StartCart
  <2>2. DOMAIN DecksTransitioned = DeckIds
    BY DEF DecksTransitioned
  <2> QED BY <2>1, <2>2
<1>4. \/ log[k].status = "Paused" /\ d = log[k].deck /\ decks[d].id = k
      \/ log[k].status # "Paused" /\ d \notin active /\ log[k].deck = None
  BY <1>0 DEF StartCart, TrackInv, Tracked, IsRunning, DeckIds
<1>5. decks'[d].id = k
  <2>1. DecksTransitioned[d].state = "Paused" => DecksTransitioned[d].id = k
    <3>1. CASE d \notin active
      <4>1. DecksTransitioned[d] = NoDeck
        BY <1>1, <3>1 DEF TrackInv, Tracked
      <4> QED BY <4>1 DEF NoDeck
    <3>2. CASE d \in active
      BY <1>1, <1>4, <3>2
    <3> QED BY <3>1, <3>2
  <2> QED BY <1>3, <2>1 DEF DeckStart, DeckRefused, NoDeck
<1>6. \A j \in DOMAIN log : j # k => log[j].deck # d
  BY <1>4 DEF TrackInv, Tracked, DeckIds
<1>7. ASSUME NEW j \in DOMAIN log'
      PROVE  /\ log'[j].deck # None <=> (log'[j].type = "Cart" /\ IsRunning(log'[j]))
             /\ log'[j].deck # None => log'[j].deck \in active' /\ decks'[log'[j].deck].id = j
  <2>1. CASE j = k
    BY <1>2, <1>3, <1>5, <2>1 DEF IsRunning, DeckIds
  <2>2. CASE j # k
    <3>1. log'[j] = LogTransitioned[j] /\ j \in DOMAIN log
      BY <1>2, <2>2
    <3>2. log[j].deck # None <=> (log[j].type = "Cart" /\ IsRunning(log[j]))
      BY <3>1 DEF TrackInv, Tracked
    <3>3. log'[j].deck # None <=> (log'[j].type = "Cart" /\ IsRunning(log'[j]))
      BY <1>1, <3>1, <3>2
    <3>4. log[j].deck # None => log[j].deck \in active /\ decks[log[j].deck].id = j
      BY <3>1 DEF TrackInv, Tracked
    <3>5. log[j].deck # None => log[j].deck \in active' /\ decks'[log[j].deck].id = j
      BY <1>0, <1>1, <1>3, <1>6, <2>2, <3>1, <3>4
    <3> QED BY <1>1, <3>1, <3>3, <3>5
  <2> QED BY <2>1, <2>2
<1>8. ASSUME NEW e \in active' PROVE decks'[e].id \in DOMAIN log' /\ log'[decks'[e].id].deck = e
  <2>1. CASE e = d
    BY <1>0, <1>2, <1>5, <2>1
  <2>2. CASE e # d
    <3>1. e \in active /\ decks'[e].id = decks[e].id
      BY <1>0, <1>1, <1>3, <2>2
    <3>2. decks[e].id \in DOMAIN log /\ log[decks[e].id].deck = e
      BY <3>1 DEF TrackInv, Tracked
    <3>3. decks[e].id # k
      BY <1>0, <1>4, <2>2, <3>1, <3>2 DEF DeckIds
    <3> QED BY <1>1, <1>2, <3>1, <3>2, <3>3
  <2> QED BY <2>1, <2>2
<1>9. \A e \in DeckIds \ active' : decks'[e] = NoDeck
  BY <1>1, <1>3 DEF TrackInv, Tracked
<1>10. Tracked'
  BY <1>7, <1>8, <1>9 DEF Tracked, IsRunning
<1>11. MacroKnown' /\ CallKnown'
  <2>1. macro' = MacroTransitioned /\ call' = NoCall
    BY DEF StartCart, Return
  <2> QED BY <1>1, <1>2, <2>1 DEF MacroKnown, CallKnown, NoCall
<1> QED BY <1>10, <1>11

LEMMA TrackStartEvent ==
  ASSUME TrackInv, StartEvent
  PROVE  Tracked' /\ MacroKnown' /\ CallKnown'
<1> DEFINE k == call.line
<1>0. /\ call.op = "StartEvent" /\ k \in DOMAIN log
      /\ log[k].status \in {"Scheduled", "Paused", "Finished"}
      /\ \A j \in DOMAIN log : log[j] \in Lines
  BY LineFacts DEF TrackInv, LogInv, LogTypeOK, CallKnown, StartEvent
<1>1. /\ DOMAIN LogTransitioned = DOMAIN log
      /\ \A j \in DOMAIN log : /\ LogTransitioned[j] \in Lines
                               /\ LogTransitioned[j].deck = log[j].deck
                               /\ LogTransitioned[j].type = log[j].type
                               /\ log[j].type = "Cart" => (IsRunning(LogTransitioned[j]) <=> IsRunning(log[j]))
      /\ \A e \in DeckIds : /\ DecksTransitioned[e].id = decks[e].id
                            /\ e \notin active => DecksTransitioned[e] = decks[e]
      /\ IF MacroTransitioned.sleeps
         THEN MacroTransitioned.line \in DOMAIN log /\ log[MacroTransitioned.line].type = "Macro"
         ELSE MacroTransitioned.line = None
  BY TransitionKeeps
<1>2. ASSUME NEW st, log' = [LogTransitioned EXCEPT ![k].status = st], st \in {"Finished", "Playing"},
             log[k].type = "Cart" => st = "Finished" /\ log[k].status # "Paused",
             decks' = DecksTransitioned, active' = active
      PROVE  Tracked' /\ DOMAIN log' = DOMAIN log /\ \A j \in DOMAIN log : log'[j].type = log[j].type
  <2>1. ASSUME NEW j \in DOMAIN log
        PROVE  /\ log'[j].deck = log[j].deck /\ log'[j].type = log[j].type
               /\ log[j].type = "Cart" => (IsRunning(log'[j]) <=> IsRunning(log[j]))
    <3>1. CASE j = k
      <4>1. log'[k].deck = log[k].deck /\ log'[k].type = log[k].type /\ log'[k].status = st
        BY <1>0, <1>1, <1>2 DEF Lines
      <4> QED BY <1>0, <1>2, <3>1, <4>1 DEF IsRunning
    <3>2. CASE j # k
      <4>1. log'[j] = LogTransitioned[j]
        BY <1>1, <1>2, <3>2
      <4> QED BY <1>1, <4>1
    <3> QED BY <3>1, <3>2
  <2>2. DOMAIN log' = DOMAIN log
    BY <1>1, <1>2
  <2>3. \A d \in DeckIds : decks'[d].id = decks[d].id /\ (d \notin active => decks'[d] = decks[d])
    BY <1>1, <1>2
  <2>4. Tracked'
    BY <1>2, <2>1, <2>2, <2>3, TrackKeeps
  <2> QED BY <2>1, <2>2, <2>4
<1>3. CASE log[k].type = "Cart" /\ \E d \in DeckIds, loaded \in BOOLEAN : StartCart(k, d, loaded)
  BY <1>0, <1>3, TrackStartCart
<1>4. CASE StartAndFinish(k)
  <2>1. /\ log' = [LogTransitioned EXCEPT ![k].status = "Finished"] /\ decks' = DecksTransitioned
        /\ active' = active /\ macro' = MacroTransitioned /\ call'.op = "FinishEvent"
        /\ log[k].type = "Cart" => log[k].status # "Paused"
    BY <1>4 DEF StartAndFinish, TrackInv, LogInv, LogTypeOK, Calls
  <2>2. Tracked' /\ DOMAIN log' = DOMAIN log /\ \A j \in DOMAIN log : log'[j].type = log[j].type
    BY <1>2, <2>1
  <2> QED BY <1>1, <2>1, <2>2 DEF MacroKnown, CallKnown
<1>5. CASE log[k].type = "Macro" /\ StartMacro(k)
  <2>1. /\ log' = [LogTransitioned EXCEPT ![k].status = "Playing"] /\ decks' = DecksTransitioned
        /\ active' = active /\ macro' = [line |-> k, sleeps |-> TRUE] /\ call' = NoCall
    BY <1>5 DEF StartMacro
  <2>2. Tracked' /\ DOMAIN log' = DOMAIN log /\ \A j \in DOMAIN log : log'[j].type = log[j].type
    BY <1>2, <1>5, <2>1
  <2> QED BY <1>0, <1>5, <2>1, <2>2 DEF MacroKnown, CallKnown, NoCall
<1> QED BY <1>3, <1>4, <1>5 DEF StartEvent

(* A scan that succeeds has found a line that is not on air.                     *)
LEMMA FoundWaits ==
  ASSUME log \in Seq(Lines), NEW from, NEW forced, Found(GetNextPlayable(from, forced), from)
  PROVE  /\ GetNextPlayable(from, forced) \in DOMAIN log
         /\ log[GetNextPlayable(from, forced)].status \in {"Scheduled", "Paused"}
<1>1. PICK k : k = GetNextPlayable(from, forced)
  OBVIOUS
<1>2. k = None \/ (k \in DOMAIN log /\ k # None /\ k >= from /\ Halts(k, from, forced))
  BY <1>1, NextFacts, Zenon
<1>3. k \in DOMAIN log /\ Halts(k, from, forced)
  BY <1>1, <1>2 DEF Found
<1> QED BY <1>1, <1>3 DEF Halts

(* Handlers that touch neither lines nor decks.                                  *)
LEMMA TrackCalls ==
  ASSUME TrackInv, UNCHANGED <<log, decks, active, macro>>,
         \/ call' = call \/ call' = NoCall \/ call'.op = "FinishEvent"
         \/ \E from, forced, tr : /\ Found(GetNextPlayable(from, forced), from) /\ tr \in {"Play", "Segue"}
                                 /\ call'.line = GetNextPlayable(from, forced) /\ call'.trans = tr
  PROVE  Tracked' /\ MacroKnown' /\ CallKnown'
<1>1. Tracked' /\ MacroKnown'
  BY DEF TrackInv, Tracked, MacroKnown, IsRunning
<1>2. CallKnown'
  <2>1. CASE call' = call
    BY <2>1 DEF TrackInv, CallKnown
  <2>2. CASE call' = NoCall \/ call'.op = "FinishEvent"
    BY <2>2 DEF CallKnown, NoCall
  <2>3. ASSUME NEW from, NEW forced, NEW tr, Found(GetNextPlayable(from, forced), from), tr \in {"Play", "Segue"},
               call'.line = GetNextPlayable(from, forced), call'.trans = tr
        PROVE  CallKnown'
    <3>1. log \in Seq(Lines)
      BY DEF TrackInv, LogInv, LogTypeOK
    <3>2. call'.line \in DOMAIN log /\ log[call'.line].status \in {"Scheduled", "Paused"}
      BY <2>3, <3>1, FoundWaits
    <3> QED BY <2>3, <3>2 DEF CallKnown
  <2> QED BY <2>1, <2>2, <2>3
<1> QED BY <1>1, <1>2

LEMMA TrackFinishEvent ==
  ASSUME TrackInv, FinishEvent
  PROVE  Tracked' /\ MacroKnown' /\ CallKnown'
<1> DEFINE k == GetNextPlayable(next, FALSE)
<1>1. UNCHANGED <<log, decks, active, macro>> /\ call \in Calls
  BY DEF FinishEvent, TrackInv, LogInv, LogTypeOK
<1>2. \/ call' = NoCall
      \/ /\ Found(k, next) /\ FollowsOn(k)
         /\ call' = [call EXCEPT !.op = "StartEvent", !.line = k, !.trans = log[k].trans,
                                 !.fade = FALSE, !.rearm = call.rearm \cup {next}]
  BY DEF FinishEvent, Return
<1>3. CASE call' = NoCall
  BY <1>1, <1>3, TrackCalls
<1>4. CASE /\ Found(k, next) /\ FollowsOn(k)
           /\ call' = [call EXCEPT !.op = "StartEvent", !.line = k, !.trans = log[k].trans,
                                   !.fade = FALSE, !.rearm = call.rearm \cup {next}]
  <2> HIDE DEF k
  <2>1. call'.line = k /\ call'.trans = log[k].trans /\ log[k].trans \in {"Play", "Segue"}
    BY <1>1, <1>4 DEF Calls, FollowsOn
  <2> QED BY <1>1, <1>4, <2>1, TrackCalls, Zenon DEF k
<1> QED BY <1>2, <1>3, <1>4

LEMMA TrackCommands ==
  ASSUME TrackInv, NEW k \in DOMAIN log, NEW fade \in BOOLEAN, NEW m,
         play(k) \/ pause(k) \/ makeNext(k) \/ stop(k, fade) \/ setOpMode(m)
  PROVE  Tracked' /\ MacroKnown' /\ CallKnown'
<1>0. /\ \A j \in DOMAIN log : log[j] \in Lines
      /\ decks \in [DeckIds -> Decks] /\ \A d \in DeckIds : decks[d] \in Decks
      /\ active \subseteq DeckIds
  BY LineFacts DEF TrackInv, LogInv, LogTypeOK
<1>1. CASE play(k)
  <2> DEFINE n == GetNextPlayable(k, TRUE)
             tr == IF ForcedSegue THEN "Segue" ELSE "Play"
  <2>1. /\ UNCHANGED <<log, decks, active, macro>>
        /\ call' = call \/ (Found(n, k) /\ StartCall(n, tr, ForcedSegue, TRUE))
    BY <1>1 DEF play
  <2>2. tr \in {"Play", "Segue"}
    OBVIOUS
  <2> HIDE DEF tr
  <2>3. CASE Found(n, k) /\ StartCall(n, tr, ForcedSegue, TRUE)
    <3> HIDE DEF n
    <3>1. call'.line = n /\ call'.trans = tr
      BY <2>3 DEF StartCall, NoCall
    <3> QED BY <2>1, <2>2, <2>3, <3>1, TrackCalls, Zenon DEF n
  <2> QED BY <2>1, <2>3, TrackCalls
<1>2. CASE makeNext(k) \/ setOpMode(m)
  BY <1>2, TrackCalls DEF makeNext, setOpMode
<1>3. ASSUME NEW x \in Decks, log[k].deck # None, x.id = decks[log[k].deck].id,
             decks' = [decks EXCEPT ![log[k].deck] = x], UNCHANGED <<log, active, macro, call>>
      PROVE  Tracked' /\ MacroKnown' /\ CallKnown'
  <2>1. log[k].deck \in active
    BY <1>3 DEF TrackInv, Tracked
  <2>2. \A d \in DeckIds : decks'[d].id = decks[d].id /\ (d \notin active => decks'[d] = decks[d])
    BY <1>0, <1>3, <2>1
  <2>3. Tracked'
    BY <1>3, <2>2, TrackKeeps
  <2> QED BY <1>3, <2>3 DEF TrackInv, MacroKnown, CallKnown
<1>4. CASE pause(k)
  <2>1. log[k].deck # None /\ decks' = [decks EXCEPT ![log[k].deck] = DeckPause(decks[log[k].deck])]
        /\ UNCHANGED <<log, active, macro, call>>
    BY <1>4 DEF pause
  <2>2. decks[log[k].deck] \in Decks
    BY <1>0, <2>1 DEF TrackInv, Tracked
  <2>3. DeckPause(decks[log[k].deck]) \in Decks /\ DeckPause(decks[log[k].deck]).id = decks[log[k].deck].id
    BY <2>2, DeckTypes, DeckKeepsId
  <2> QED BY <1>3, <2>1, <2>3
<1>5. CASE stop(k, fade)
  <2>1. CASE /\ log[k].deck # None
             /\ decks' = [decks EXCEPT ![log[k].deck] = IF fade THEN DeckFade(@) ELSE DeckStop(@)]
             /\ UNCHANGED <<log, macro>>
    <3> DEFINE x == IF fade THEN DeckFade(decks[log[k].deck]) ELSE DeckStop(decks[log[k].deck])
    <3>1. decks' = [decks EXCEPT ![log[k].deck] = x] /\ UNCHANGED <<log, active, macro, call>>
      BY <1>5, <2>1 DEF stop
    <3>2. decks[log[k].deck] \in Decks
      BY <1>0, <2>1 DEF TrackInv, Tracked
    <3>3. /\ DeckFade(decks[log[k].deck]) \in Decks /\ DeckFade(decks[log[k].deck]).id = decks[log[k].deck].id
          /\ DeckStop(decks[log[k].deck]) \in Decks /\ DeckStop(decks[log[k].deck]).id = decks[log[k].deck].id
      <4>1. 0 \in Nat
        OBVIOUS
      <4> QED BY <3>2, <4>1, DeckTypes, DeckKeepsId
    <3>4. x \in Decks /\ x.id = decks[log[k].deck].id
      BY <3>3
    <3> HIDE DEF x
    <3> QED BY <1>3, <2>1, <3>1, <3>4
  <2>2. CASE /\ macro.sleeps /\ macro' = NoMacro
             /\ log' = [j \in DOMAIN log |-> IF j = macro.line THEN [log[j] EXCEPT !.status = "Finished"]
                                                             ELSE log[j]]
             /\ UNCHANGED decks
    <3>1. log[macro.line].type = "Macro" /\ active' = active /\ call' = call /\ call.op = "none"
      BY <1>5, <2>2 DEF TrackInv, MacroKnown, stop, Idle
    <3>2. \A j \in DOMAIN log : /\ log'[j].deck = log[j].deck /\ log'[j].type = log[j].type
                                /\ log[j].type = "Cart" => (IsRunning(log'[j]) <=> IsRunning(log[j]))
      <4> TAKE j \in DOMAIN log
      <4>1. CASE j = macro.line
        <5>1. log'[j] = [log[j] EXCEPT !.status = "Finished"]
          BY <2>2, <4>1
        <5> QED BY <1>0, <3>1, <4>1, <5>1 DEF Lines
      <4>2. CASE j # macro.line
        BY <2>2, <4>2
      <4> QED BY <4>1, <4>2
    <3>3. Tracked'
      BY <2>2, <3>1, <3>2, TrackKeeps
    <3> QED BY <2>2, <3>1, <3>3 DEF MacroKnown, NoMacro, CallKnown
  <2> QED BY <1>5, <2>1, <2>2 DEF stop
<1> QED BY <1>1, <1>2, <1>4, <1>5

LEMMA HeldDecks ==
  ASSUME TrackInv, NEW S \in SUBSET DOMAIN log, NEW d \in DecksOf(S)
  PROVE  d \in active /\ decks[d].id \in S
<1>1. PICK k \in S : d = log[k].deck /\ d # None
  BY DEF DecksOf
<1> QED BY <1>1 DEF TrackInv, Tracked

LEMMA TrackTypes ==
  ASSUME TrackInv
  PROVE  /\ log \in Seq(Lines) /\ Len(log) \in Nat /\ DOMAIN log = 1..Len(log) /\ active \subseteq DeckIds
         /\ decks \in [DeckIds -> Decks] /\ macro \in [line : Nat, sleeps : BOOLEAN]
BY LineFacts DEF TrackInv, LogInv, LogTypeOK

LEMMA InsertEdits ==
  ASSUME TrackInv, AllShown, ~EditsCross, NEW k \in 1..(Len(log) + 1), insert(k)
  PROVE  \E f, gone : Edited(f, gone)
<1>0. /\ log \in Seq(Lines) /\ Len(log) \in Nat /\ DOMAIN log = 1..Len(log) /\ active \subseteq DeckIds
      /\ decks \in [DeckIds -> Decks] /\ macro \in [line : Nat, sleeps : BOOLEAN]
  BY TrackTypes
<1> DEFINE f == [i \in DOMAIN log |-> IF i < k THEN i ELSE i + 1]
<1>1. NewLine \in Lines
  BY DEF NewLine, Lines, Types, Transitions, Graces, Statuses
<1>2. /\ log' \in Seq(Lines) /\ Len(log') = Len(log) + 1 /\ log'[k] = NewLine
      /\ \A i \in 1..Len(log) : (i < k => log'[i] = log[i]) /\ (i >= k => log'[i + 1] = log[i])
  <2>1. log' = InsertAt(log, k, NewLine)
    BY DEF insert
  <2>2. log \in Seq(Lines)
    BY <1>0
  <2> QED BY <1>1, <2>1, <2>2, InsertFacts, SMTT(60)
<1>3. DOMAIN log' = 1..(Len(log) + 1)
  BY <1>2, LenProperties
<1>4. \A i \in DOMAIN log \ {} : f[i] \in DOMAIN log' /\ log'[f[i]] = log[i]
  <2> TAKE i \in DOMAIN log \ {}
  <2>1. CASE i < k
    BY <1>0, <1>2, <1>3, <2>1
  <2>2. CASE ~(i < k)
    BY <1>0, <1>2, <1>3, <2>2
  <2> QED BY <2>1, <2>2
<1>5. ASSUME NEW j \in DOMAIN log'
      PROVE  \/ \E i \in DOMAIN log \ {} : j = f[i]
             \/ log'[j] = NewLine
  <2>1. CASE j = k
    BY <1>2, <2>1
  <2>2. CASE j < k
    <3>1. j \in DOMAIN log /\ f[j] = j
      BY <1>0, <1>3, <2>2
    <3> QED BY <3>1
  <2>3. CASE j > k
    <3>1. j - 1 \in DOMAIN log /\ f[j - 1] = j
      BY <1>0, <1>3, <2>3
    <3> QED BY <3>1
  <2> QED BY <1>0, <1>3, <2>1, <2>2, <2>3
<1>6. \A d \in DeckIds : decks'[d] = IF d \in DecksOf(Running)
         THEN [decks[d] EXCEPT !.id = IF decks[d].id >= k THEN decks[d].id + 1 ELSE decks[d].id] ELSE decks[d]
  BY DEF insert, Renumber
<1>7. active' = active \ {log[i].deck : i \in {}} /\ active' = active
  BY DEF insert
<1>8. ASSUME NEW d \in active' PROVE decks'[d].id = f[decks[d].id] /\ SameDeck(decks'[d], decks[d])
  <2>1. d \in DeckIds /\ decks[d].id \in DOMAIN log /\ log[decks[d].id].deck = d /\ d # None
    BY <1>0, <1>7 DEF TrackInv, Tracked, DeckIds
  <2>2. IsRunning(log[decks[d].id])
    BY <2>1 DEF TrackInv, Tracked
  <2>3. d \in DecksOf(Running)
    BY <2>1, <2>2 DEF AllShown, DecksOf
  <2>4. decks[d] \in Decks
    BY <1>0, <2>1
  <2>5. /\ decks'[d].id = IF decks[d].id >= k THEN decks[d].id + 1 ELSE decks[d].id
        /\ SameDeck(decks'[d], decks[d])
    BY <1>6, <2>1, <2>3, <2>4 DEF Decks, SameDeck
  <2> QED BY <1>0, <2>1, <2>5
<1>9. ASSUME NEW d \in DeckIds \ active' PROVE decks'[d] = NoDeck
  <2>1. d \notin DecksOf(Running)
    BY <1>7, HeldDecks DEF Running
  <2> QED BY <1>6, <1>7, <2>1 DEF TrackInv, Tracked
<1> HIDE DEF f
<1>10. ~macro.sleeps /\ macro'.sleeps = macro.sleeps /\ macro'.line = None /\ call.op = "none" /\ call' = call
  <2>1. ~macro.sleeps /\ macro.line = None /\ call.op = "none" /\ call' = call
    BY DEF insert, Quiet, Idle, TrackInv, MacroKnown
  <2>2. macro' = [macro EXCEPT !.line = IF macro.line # None THEN macro.line + 1 ELSE macro.line]
    BY DEF insert
  <2> QED BY <1>0, <2>1, <2>2
<1>11. {} \in SUBSET DOMAIN log
  OBVIOUS
<1>12. Edited(f, {})
  BY <1>4, <1>5, <1>7, <1>8, <1>9, <1>10, <1>11, Zenon DEF Edited
<1> QED BY <1>12

LEMMA RemoveEdits ==
  ASSUME TrackInv, AllShown, ~EditsCross, NEW k \in DOMAIN log, remove(k)
  PROVE  \E f, gone : Edited(f, gone)
<1>0. /\ log \in Seq(Lines) /\ Len(log) \in Nat /\ DOMAIN log = 1..Len(log) /\ active \subseteq DeckIds
      /\ decks \in [DeckIds -> Decks] /\ macro \in [line : Nat, sleeps : BOOLEAN]
  BY TrackTypes
<1> DEFINE f == [i \in DOMAIN log |-> IF i > k THEN i - 1 ELSE i]
<1>2. /\ log' \in Seq(Lines) /\ Len(log') = Len(log) - 1
      /\ \A i \in 1..(Len(log) - 1) : log'[i] = log[IF i < k THEN i ELSE i + 1]
  <2>1. log' = RemoveAt(log, k)
    BY DEF remove
  <2>2. log \in Seq(Lines) /\ k \in 1..Len(log)
    BY <1>0
  <2> QED BY <2>1, <2>2, RemoveFacts
<1>3. DOMAIN log' = 1..(Len(log) - 1)
  BY <1>2, LenProperties
<1>4. \A i \in DOMAIN log \ {k} : f[i] \in DOMAIN log' /\ log'[f[i]] = log[i]
  <2> TAKE i \in DOMAIN log \ {k}
  <2>1. CASE i < k
    BY <1>0, <1>2, <1>3, <2>1
  <2>2. CASE i > k
    <3>1. f[i] = i - 1 /\ i - 1 \in 1..(Len(log) - 1) /\ ~(i - 1 < k) /\ (i - 1) + 1 = i
      BY <1>0, <2>2
    <3>2. log'[i - 1] = log[(i - 1) + 1]
      BY <1>2, <3>1
    <3> QED BY <1>3, <3>1, <3>2
  <2> QED BY <1>0, <2>1, <2>2
<1>5. ASSUME NEW j \in DOMAIN log' PROVE \E i \in DOMAIN log \ {k} : j = f[i]
  <2>1. CASE j < k
    <3>1. j \in DOMAIN log \ {k} /\ f[j] = j
      BY <1>0, <1>3, <2>1
    <3> QED BY <3>1
  <2>2. CASE ~(j < k)
    <3>1. j + 1 \in DOMAIN log \ {k} /\ f[j + 1] = j
      BY <1>0, <1>3, <2>2
    <3> QED BY <3>1
  <2> QED BY <2>1, <2>2
<1>6. \A d \in DeckIds : decks'[d] = IF d \in DecksOf({k}) THEN NoDeck
         ELSE IF d \in DecksOf(Running) /\ decks[d].id > k THEN [decks[d] EXCEPT !.id = decks[d].id - 1]
         ELSE decks[d]
  BY DEF remove
<1>7. active' = active \ {log[i].deck : i \in {k}}
  <2>1. active' = active \ DecksOf({k}) /\ None \notin active
    BY <1>0 DEF remove, DeckIds
  <2> QED BY <2>1 DEF DecksOf
<1>8. ASSUME NEW d \in active' PROVE decks'[d].id = f[decks[d].id] /\ SameDeck(decks'[d], decks[d])
  <2>1. d \in DeckIds /\ decks[d].id \in DOMAIN log /\ log[decks[d].id].deck = d /\ d # None
    <3>1. d \in active
      BY <1>7
    <3>2. d \in DeckIds
      BY <1>0, <3>1
    <3>3. decks[d].id \in DOMAIN log /\ log[decks[d].id].deck = d
      BY <3>1 DEF TrackInv, Tracked
    <3> QED BY <3>2, <3>3 DEF DeckIds
  <2>2. IsRunning(log[decks[d].id]) /\ d \notin DecksOf({k})
    BY <1>7, <2>1 DEF TrackInv, Tracked, DecksOf
  <2>3. d \in DecksOf(Running)
    BY <2>1, <2>2 DEF AllShown, DecksOf
  <2>4. decks[d] \in Decks
    BY <1>0, <2>1
  <2>5. /\ decks'[d].id = IF decks[d].id > k THEN decks[d].id - 1 ELSE decks[d].id
        /\ SameDeck(decks'[d], decks[d])
    BY <1>6, <2>1, <2>2, <2>3, <2>4 DEF Decks, SameDeck
  <2> QED BY <1>0, <2>1, <2>5
<1>9. ASSUME NEW d \in DeckIds \ active' PROVE decks'[d] = NoDeck
  <2>1. CASE d \in DecksOf({k})
    BY <1>6, <2>1
  <2>2. CASE d \notin DecksOf({k})
    <3>1. d \notin active
      BY <1>7, <2>2 DEF DecksOf, DeckIds
    <3>2. d \notin DecksOf(Running)
      BY <3>1, HeldDecks DEF Running
    <3> QED BY <1>6, <2>2, <3>1, <3>2 DEF TrackInv, Tracked
  <2> QED BY <2>1, <2>2
<1> HIDE DEF f
<1>10. ~macro.sleeps /\ macro'.sleeps = macro.sleeps /\ macro'.line = None /\ call.op = "none" /\ call' = call
  <2>1. ~macro.sleeps /\ macro.line = None /\ call.op = "none" /\ call' = call
    BY DEF remove, Quiet, Idle, TrackInv, MacroKnown
  <2>2. macro' = [macro EXCEPT !.line = IF macro.line > 1 THEN macro.line - 1 ELSE macro.line]
    BY DEF remove
  <2> QED BY <1>0, <2>1, <2>2
<1>11. {k} \in SUBSET DOMAIN log
  OBVIOUS
<1>12. Edited(f, {k})
  BY <1>4, <1>5, <1>7, <1>8, <1>9, <1>10, <1>11, Zenon DEF Edited
<1> QED BY <1>12

(* move() renumbers the decks of what is not paused; what is paused it must not  *)
(* cross.                                                                        *)
LEMMA MoveEdits ==
  ASSUME TrackInv, AllShown, ~EditsCross, NEW from \in DOMAIN log, NEW before \in 1..(Len(log) + 1),
         move(from, before)
  PROVE  \E f, gone : Edited(f, gone)
<1>0. /\ log \in Seq(Lines) /\ Len(log) \in Nat /\ DOMAIN log = 1..Len(log) /\ active \subseteq DeckIds
      /\ decks \in [DeckIds -> Decks] /\ macro \in [line : Nat, sleeps : BOOLEAN]
  BY TrackTypes
<1> DEFINE to == IF before > Len(log) THEN Len(log) ELSE IF before > from THEN before - 1 ELSE before
           S == {k \in Running : log[k].status # "Paused"}
           f == [i \in DOMAIN log |-> Slid(i, from, to)]
<1>1. to \in 1..Len(log) /\ from \in 1..Len(log) /\ (to < from => to = before)
  <2>1. Len(log) \in Nat /\ from \in 1..Len(log) /\ before \in 1..(Len(log) + 1)
    BY <1>0
  <2>2. CASE before > Len(log)
    BY <2>1, <2>2
  <2>3. CASE before <= Len(log) /\ before > from
    BY <2>1, <2>3
  <2>4. CASE before <= Len(log) /\ before <= from
    BY <2>1, <2>4
  <2> QED BY <2>1, <2>2, <2>3, <2>4
<1>2. /\ to # from /\ log' = InsertAt(RemoveAt(log, from), to, log[from])
      /\ \A d \in DeckIds : decks'[d] = IF d \in DecksOf(S)
           THEN [decks[d] EXCEPT !.id = Shifted(decks[d].id, from, to)] ELSE decks[d]
      /\ macro' = [macro EXCEPT !.line = IF macro.line # None THEN Shifted(macro.line, from, to) ELSE macro.line]
      /\ active' = active /\ call' = call /\ call.op = "none" /\ ~macro.sleeps
      /\ \A k \in {from, before} \cap DOMAIN log : log[k].status = "Scheduled"
      /\ \A k \in {k \in DOMAIN log : k \in from..to \/ k \in to..from} : log[k].status # "Paused"
  BY DEF move, Renumber, Quiet, Idle
<1> HIDE DEF to
<1>3. /\ log' \in Seq(Lines) /\ Len(log') = Len(log)
      /\ \A i \in 1..Len(log) : log'[Slid(i, from, to)] = log[i]
  <2>1. log \in Seq(Lines) /\ to # from
    BY <1>0, <1>2
  <2>2. LET t == InsertAt(RemoveAt(log, from), to, log[from]) IN
        /\ t \in Seq(Lines) /\ Len(t) = Len(log) /\ \A i \in 1..Len(log) : t[Slid(i, from, to)] = log[i]
    BY <1>1, <2>1, MoveFacts
  <2> QED BY <1>2, <2>2, Zenon
<1>4. DOMAIN log' = 1..Len(log)
  BY <1>3, LenProperties
<1>5. \A i \in DOMAIN log \ {} : f[i] \in DOMAIN log' /\ log'[f[i]] = log[i]
  <2> TAKE i \in DOMAIN log \ {}
  <2>1. Slid(i, from, to) \in 1..Len(log)
    BY <1>0, <1>1, SlidBack
  <2> QED BY <1>0, <1>3, <1>4, <2>1
<1>6. ASSUME NEW j \in DOMAIN log' PROVE \E i \in DOMAIN log \ {} : j = f[i]
  <2> DEFINE i == Slid(j, to, from)
  <2>1. i \in DOMAIN log /\ Slid(i, from, to) = j
    BY <1>0, <1>1, <1>4, SlidBack
  <2> HIDE DEF i
  <2> QED BY <2>1
<1>7. ASSUME NEW d \in active' PROVE decks'[d].id = f[decks[d].id] /\ SameDeck(decks'[d], decks[d])
  <2>1. d \in DeckIds /\ decks[d].id \in DOMAIN log /\ log[decks[d].id].deck = d /\ d # None
    BY <1>0, <1>2 DEF TrackInv, Tracked, DeckIds
  <2>2. IsRunning(log[decks[d].id]) /\ decks[d] \in Decks
    BY <1>0, <2>1 DEF TrackInv, Tracked
  <2> DEFINE i == decks[d].id
  <2>3. i # from /\ (to < from => i # to)
    BY <1>0, <1>1, <1>2, <2>1, <2>2 DEF IsRunning
  <2>4. Shifted(i, from, to) = Slid(i, from, to)
    <3>1. i \in Nat /\ from \in Nat /\ to \in Nat
      BY <1>0, <1>1, <2>1
    <3> HIDE DEF i
    <3> QED BY <2>3, <3>1 DEF Shifted, Slid
  <2>5. CASE log[i].status # "Paused"
    <3>1. i \in S
      BY <2>1, <2>2, <2>5 DEF AllShown
    <3>2. d \in DecksOf(S)
      BY <2>1, <3>1 DEF DecksOf
    <3> QED BY <1>2, <2>1, <2>2, <2>4, <3>2 DEF Decks, SameDeck
  <2>6. CASE log[i].status = "Paused"
    <3>1. d \notin DecksOf(S)
      <4>1. S \in SUBSET DOMAIN log
        BY DEF Running
      <4>2. i \notin S
        BY <2>6
      <4> HIDE DEF S
      <4> QED BY <4>1, <4>2, HeldDecks
    <3>2. ~(i \in from..to) /\ ~(i \in to..from)
      BY <1>2, <2>1, <2>6
    <3>3. Slid(i, from, to) = i
      <4>1. i \in Nat /\ from \in Nat /\ to \in Nat
        BY <1>0, <1>1, <2>1
      <4> HIDE DEF i
      <4> QED BY <3>2, <4>1 DEF Slid
    <3> QED BY <1>2, <2>1, <3>1, <3>3 DEF SameDeck
  <2> QED BY <2>5, <2>6
<1>8. ASSUME NEW d \in DeckIds \ active' PROVE decks'[d] = NoDeck
  <2>1. d \notin DecksOf(S)
    BY <1>2, HeldDecks DEF Running
  <2> QED BY <1>2, <2>1 DEF TrackInv, Tracked
<1>9. active' = active \ {log[i].deck : i \in {}}
  BY <1>2
<1> HIDE DEF f
<1>10. ~macro.sleeps /\ macro'.sleeps = macro.sleeps /\ macro'.line = None /\ call.op = "none" /\ call' = call
  BY <1>0, <1>2 DEF MacroKnown, TrackInv
<1>11. {} \in SUBSET DOMAIN log
  OBVIOUS
<1>12. Edited(f, {})
  BY <1>5, <1>6, <1>7, <1>8, <1>9, <1>10, <1>11, Zenon DEF Edited
<1> QED BY <1>12

(* The timers; a hard start must not find its event on air.                      *)
LEMMA TrackTimers ==
  ASSUME TrackInv, transTimerData \/ graceTimerData \/ sleepTimerData,
         transTimerData => log[trans.line].status \notin {"Playing", "Finishing"} \/ call' = NoCall
  PROVE  Tracked' /\ MacroKnown' /\ CallKnown'
<1>0. /\ log \in Seq(Lines) /\ \A j \in DOMAIN log : log[j] \in Lines
      /\ macro \in [line : Nat, sleeps : BOOLEAN]
  BY LineFacts DEF TrackInv, LogInv, LogTypeOK
<1> DEFINE start == IF Running # {} /\ ForcedSegue THEN "Segue" ELSE "Play"
<1>1. start \in {"Play", "Segue"}
  OBVIOUS
<1> HIDE DEF start
<1>2. CASE transTimerData
  <2> DEFINE k == GetNextPlayable(trans.line, FALSE)
  <2>1. /\ trans.on /\ call.op = "none" /\ UNCHANGED <<decks, active, macro>>
        /\ log' = log \/ log' = [log EXCEPT ![k].trans = IF log[k].trans = "Stop" THEN "Play" ELSE log[k].trans]
        /\ call' = call \/ (log' = log /\ StartCall(trans.line, start, start = "Segue", TRUE))
    BY <1>2 DEF transTimerData, Idle, start
  <2> HIDE DEF k
  <2>2. /\ DOMAIN log' = DOMAIN log
        /\ \A j \in DOMAIN log : /\ log'[j].deck = log[j].deck /\ log'[j].type = log[j].type
                                 /\ log'[j].status = log[j].status
    BY <1>0, <2>1 DEF Lines
  <2>3. Tracked'
    <3>1. \A j \in DOMAIN log : log[j].type = "Cart" => (IsRunning(log'[j]) <=> IsRunning(log[j]))
      BY <2>2 DEF IsRunning
    <3> QED BY <2>1, <2>2, <3>1, TrackKeeps
  <2>4. MacroKnown'
    BY <2>1, <2>2 DEF TrackInv, MacroKnown
  <2>5. CallKnown'
    <3>1. CASE call' = call
      BY <2>1, <3>1 DEF CallKnown
    <3>2. CASE log' = log /\ StartCall(trans.line, start, start = "Segue", TRUE)
      <4>1. call'.op = "StartEvent" /\ call'.line = trans.line /\ call'.trans = start
        BY <3>2 DEF StartCall, NoCall
      <4>2. trans.line \in DOMAIN log
        BY <2>1 DEF TrackInv, LogInv, Armed
      <4>3. log[trans.line].status \notin {"Playing", "Finishing"}
        BY <1>2, <4>1 DEF NoCall
      <4>4. log[trans.line].status \in {"Scheduled", "Paused", "Finished"}
        BY <1>0, <4>2, <4>3 DEF Lines, Statuses
      <4> QED BY <1>1, <3>2, <4>1, <4>2, <4>4 DEF CallKnown
    <3> QED BY <2>1, <3>1, <3>2
  <2> QED BY <2>3, <2>4, <2>5
<1>3. CASE graceTimerData
  <2> DEFINE k == GetNextPlayable(grace.line, FALSE)
  <2>1. /\ UNCHANGED <<log, decks, active, macro>>
        /\ call' = call \/ (Found(k, grace.line) /\ StartCall(k, start, start = "Segue", FALSE))
    BY <1>3 DEF graceTimerData, start
  <2>2. CASE Found(k, grace.line) /\ StartCall(k, start, start = "Segue", FALSE)
    <3> HIDE DEF k
    <3>1. call'.line = k /\ call'.trans = start
      BY <2>2 DEF StartCall, NoCall
    <3> QED BY <1>1, <2>1, <2>2, <3>1, TrackCalls, Zenon DEF k
  <2> QED BY <2>1, <2>2, TrackCalls
<1>4. CASE sleepTimerData
  <2>1. /\ macro.sleeps /\ macro' = NoMacro /\ UNCHANGED <<decks, active>> /\ call'.op = "FinishEvent"
        /\ log' = [j \in DOMAIN log |-> IF j = macro.line THEN [log[j] EXCEPT !.status = "Finished"]
                                                        ELSE log[j]]
    BY <1>4 DEF sleepTimerData, FinishCall, NoCall
  <2>2. log[macro.line].type = "Macro"
    BY <2>1 DEF TrackInv, MacroKnown
  <2>3. ASSUME NEW j \in DOMAIN log
        PROVE  /\ log'[j].deck = log[j].deck /\ log'[j].type = log[j].type
               /\ log[j].type = "Cart" => (IsRunning(log'[j]) <=> IsRunning(log[j]))
    <3>1. CASE j = macro.line
      <4>1. log'[j] = [log[j] EXCEPT !.status = "Finished"]
        BY <2>1, <3>1
      <4> QED BY <1>0, <2>2, <3>1, <4>1 DEF Lines
    <3>2. CASE j # macro.line
      BY <2>1, <3>2
    <3> QED BY <3>1, <3>2
  <2>4. Tracked'
    BY <2>1, <2>3, TrackKeeps
  <2> QED BY <2>1, <2>4 DEF MacroKnown, NoMacro, CallKnown
<1> QED BY <1>2, <1>3, <1>4

LEMMA TrackDeckEvents ==
  ASSUME TrackInv, NEW d \in DeckIds, DeckEvent(d)
  PROVE  Tracked' /\ MacroKnown' /\ CallKnown'
<1>0. /\ log \in Seq(Lines) /\ \A j \in DOMAIN log : log[j] \in Lines
      /\ decks \in [DeckIds -> Decks] /\ decks[d] \in Decks
  BY LineFacts DEF TrackInv, LogInv, LogTypeOK
<1>1. ASSUME NEW x, decks' = [decks EXCEPT ![d] = x], x.id = decks[d].id, decks[d] # NoDeck,
             active' = active, log' = log
      PROVE  Tracked'
  <2>1. d \in active
    BY <1>1, DeckHeld
  <2>2. \A e \in DeckIds : decks'[e].id = decks[e].id /\ (e \notin active => decks'[e] = decks[e])
    BY <1>0, <1>1, <2>1
  <2> QED BY <1>1, <2>2, TrackKeeps
<1>2. ASSUME log' = log, macro' = macro, call' = call PROVE MacroKnown' /\ CallKnown'
  BY <1>2 DEF TrackInv, MacroKnown, CallKnown
<1>3. ASSUME CleanupEvent(decks[d].id), macro' = macro, call' = call \/ FinishCall(FALSE), call.op = "none"
      PROVE  MacroKnown' /\ CallKnown'
  <2>1. DOMAIN log' = DOMAIN log /\ \A j \in DOMAIN log : log'[j].type = log[j].type
    BY <1>0, <1>3 DEF CleanupEvent, Lines
  <2> QED BY <1>3, <2>1 DEF TrackInv, MacroKnown, CallKnown, FinishCall, NoCall
<1>4. CASE caedEnds(d)
  <2>1. /\ decks' = [decks EXCEPT ![d] = [decks[d] EXCEPT !.air = "ended"]]
        /\ decks[d] # NoDeck /\ UNCHANGED <<active, log, macro, call>>
    BY <1>0, <1>4 DEF caedEnds, NoDeck
  <2>2. [decks[d] EXCEPT !.air = "ended"].id = decks[d].id
    BY <1>0 DEF Decks
  <2> QED BY <1>1, <1>2, <2>1, <2>2
<1>5. CASE stopTimer(d)
  <2>1. /\ decks' = [decks EXCEPT ![d] = [DeckStop(decks[d]) EXCEPT !.stop_timer = FALSE]]
        /\ decks[d] # NoDeck /\ UNCHANGED <<active, log, macro, call>>
    BY <1>0, <1>5 DEF stopTimer, NoDeck
  <2>2. DeckStop(decks[d]) \in Decks /\ DeckStop(decks[d]).id = decks[d].id
    <3>1. 0 \in Nat
      OBVIOUS
    <3> QED BY <1>0, <3>1, DeckTypes, DeckKeepsId
  <2>3. [DeckStop(decks[d]) EXCEPT !.stop_timer = FALSE].id = decks[d].id
    BY <2>2 DEF Decks
  <2> QED BY <1>1, <1>2, <2>1, <2>3
<1>6. CASE segueEndData(d)
  <2>0. decks[d] # NoDeck /\ macro' = macro /\ call' = call /\ call.op = "none"
    BY <1>6 DEF segueEndData, NoDeck, Idle
  <2>1. CASE CleanupEvent(decks[d].id)
    BY <1>3, <2>0, <2>1, TrackCleanup
  <2>2. CASE decks' = [decks EXCEPT ![d].segue = "off"] /\ UNCHANGED <<log, active>>
    <3>1. decks' = [decks EXCEPT ![d] = [decks[d] EXCEPT !.segue = "off"]]
      BY <1>0, <2>2
    <3>2. [decks[d] EXCEPT !.segue = "off"].id = decks[d].id
      BY <1>0 DEF Decks
    <3> QED BY <1>1, <1>2, <2>0, <2>2, <3>1, <3>2
  <2> QED BY <1>6, <2>1, <2>2 DEF segueEndData
<1>7. CASE segueStartData(d)
  <2> DEFINE k == GetNextPlayable(next, FALSE)
  <2>1. /\ UNCHANGED <<log, active, macro>> /\ decks[d] # NoDeck
        /\ decks' = [decks EXCEPT ![d] = [decks[d] EXCEPT !.segue = "end"]]
        /\ call' = call \/ (Found(k, next) /\ StartCall(k, "Segue", TRUE, TRUE))
    <3>1. decks[d].segue = "start" /\ decks' = [decks EXCEPT ![d].segue = "end"]
      BY <1>7 DEF segueStartData
    <3>2. decks[d] # NoDeck
      BY <3>1 DEF NoDeck
    <3>3. decks' = [decks EXCEPT ![d] = [decks[d] EXCEPT !.segue = "end"]]
      BY <3>1
    <3>4. /\ UNCHANGED <<log, active, macro>>
          /\ call' = call \/ (Found(k, next) /\ StartCall(k, "Segue", TRUE, TRUE))
      BY <1>7 DEF segueStartData
    <3> QED BY <3>2, <3>3, <3>4
  <2>2. [decks[d] EXCEPT !.segue = "end"].id = decks[d].id
    BY <1>0 DEF Decks
  <2>3. Tracked' /\ MacroKnown'
    <3> HIDE DEF k
    <3>1. Tracked'
      BY <1>1, <2>1, <2>2
    <3> QED BY <2>1, <3>1 DEF TrackInv, MacroKnown
  <2>4. CASE Found(k, next) /\ StartCall(k, "Segue", TRUE, TRUE)
    <3>1. k \in DOMAIN log /\ log[k].status \in {"Scheduled", "Paused"}
      BY <1>0, <2>4, FoundWaits
    <3> HIDE DEF k
    <3>2. call'.line = k /\ call'.trans = "Segue"
      BY <2>4 DEF StartCall, NoCall
    <3> QED BY <2>1, <2>3, <3>1, <3>2 DEF CallKnown
  <2> QED BY <1>2, <2>1, <2>3, <2>4
<1>8. CASE playStoppedData(d)
  <2> DEFINE k == decks[d].id
  <2>0. decks[d] # NoDeck /\ macro' = macro /\ call.op = "none"
    BY <1>8 DEF playStoppedData, NoDeck, Idle
  <2>1. CASE /\ decks' = [decks EXCEPT ![d] = [NoDeck EXCEPT !.id = k, !.pause_called = TRUE,
                                                            !.state = "Paused", !.air = "idle"]]
             /\ log' = [j \in DOMAIN log |-> IF decks[d].connected /\ j = k
                          THEN [log[j] EXCEPT !.status = "Paused"] ELSE log[j]]
             /\ UNCHANGED <<active, call>>
    <3>1. d \in active /\ k \in DOMAIN log /\ IsRunning(log[k])
      BY <2>0, DeckHeld
    <3>2. ASSUME NEW j \in DOMAIN log
          PROVE  /\ log'[j].deck = log[j].deck /\ log'[j].type = log[j].type
                 /\ log[j].type = "Cart" => (IsRunning(log'[j]) <=> IsRunning(log[j]))
      <4>1. CASE decks[d].connected /\ j = k
        <5>1. log'[j] = [log[j] EXCEPT !.status = "Paused"]
          BY <2>1, <4>1
        <5>2. log'[j].status = "Paused" /\ log'[j].deck = log[j].deck /\ log'[j].type = log[j].type
          BY <1>0, <5>1 DEF Lines
        <5> QED BY <3>1, <4>1, <5>2 DEF IsRunning
      <4>2. CASE ~(decks[d].connected /\ j = k)
        BY <2>1, <4>2
      <4> QED BY <4>1, <4>2
    <3>3. ASSUME NEW e \in DeckIds
          PROVE  decks'[e].id = decks[e].id /\ (e \notin active => decks'[e] = decks[e])
      BY <1>0, <2>1, <3>1 DEF NoDeck
    <3>4. DOMAIN log' = DOMAIN log
      BY <2>1
    <3>5. Tracked'
      BY <2>1, <3>2, <3>3, <3>4, TrackKeeps
    <3> QED BY <2>0, <2>1, <3>2, <3>4, <3>5 DEF TrackInv, MacroKnown, CallKnown
  <2>2. CASE CleanupEvent(k) /\ (call' = call \/ FinishCall(FALSE))
    BY <1>3, <2>0, <2>2, TrackCleanup
  <2>3. CASE /\ decks' = [decks EXCEPT ![d] = [NoDeck EXCEPT !.id = k, !.connected = decks[d].connected]]
             /\ UNCHANGED <<log, active, call>>
    <3>1. [NoDeck EXCEPT !.id = k, !.connected = decks[d].connected].id = decks[d].id
      BY DEF NoDeck
    <3> QED BY <1>1, <1>2, <2>0, <2>3, <3>1
  <2> QED BY <1>8, <2>1, <2>2, <2>3 DEF playStoppedData
<1> QED BY <1>4, <1>5, <1>6, <1>7, <1>8 DEF DeckEvent

LEMMA TrackInvNext ==
  ASSUME ~EditsCross
  PROVE  /\ TrackInv /\ AllShown /\ [Next]_vars
         /\ [transTimerData => log[trans.line].status \notin {"Playing", "Finishing"} \/ call' = NoCall]_vars
         => TrackInv'
<1> SUFFICES ASSUME TrackInv, AllShown, [Next]_vars,
                    [transTimerData => log[trans.line].status \notin {"Playing", "Finishing"} \/ call' = NoCall]_vars
             PROVE  TrackInv'
  OBVIOUS
<1>1. LogInv'
  BY LogInvNext DEF TrackInv
<1> SUFFICES Tracked' /\ MacroKnown' /\ CallKnown'
  BY <1>1 DEF TrackInv
<1>2. CASE UNCHANGED vars
  BY <1>2 DEF vars, TrackInv, Tracked, MacroKnown, CallKnown, IsRunning
<1>3. ASSUME NEW k \in DOMAIN log, play(k) \/ pause(k) \/ makeNext(k) \/ \E fade \in BOOLEAN : stop(k, fade)
      PROVE  Tracked' /\ MacroKnown' /\ CallKnown'
  <2>1. TRUE \in BOOLEAN
    OBVIOUS
  <2> QED BY <1>3, <2>1, TrackCommands
<1>4. ASSUME NEW m \in Modes, setOpMode(m) PROVE Tracked' /\ MacroKnown' /\ CallKnown'
  BY <1>4, TrackCalls DEF setOpMode
<1>5. CASE Operator
  BY <1>3, <1>4, <1>5, InsertEdits, RemoveEdits, MoveEdits, TrackEdit DEF Operator
<1>6. ASSUME ~UNCHANGED vars, transTimerData \/ graceTimerData \/ sleepTimerData
      PROVE  Tracked' /\ MacroKnown' /\ CallKnown'
  <2>1. transTimerData => log[trans.line].status \notin {"Playing", "Finishing"} \/ call' = NoCall
    BY <1>6
  <2> QED BY <1>6, <2>1, TrackTimers
<1> QED BY <1>2, <1>5, <1>6, TrackStartEvent, TrackFinishEvent, TrackDeckEvents DEF Next

(* Lines and decks do not lose each other: every cart that is on air or paused   *)
(* holds a deck of its own that knows its line, and every other deck is free,    *)
(* through any order of starts, segues, pauses, stops and edits that renumber,   *)
(* for as long as runningEvents() shows all there is and no hard start strikes   *)
(* an event that is on air.                                                      *)
THEOREM DecksFollowLines == ~EditsCross => (LogSpec /\ []AllShown /\ HardStartsOnce => []DecksTrackLines)
<1> SUFFICES ASSUME ~EditsCross PROVE LogSpec /\ []AllShown /\ HardStartsOnce => []DecksTrackLines
  OBVIOUS
<1>1. TrackInv => DecksTrackLines
  <2> SUFFICES ASSUME TrackInv PROVE DecksTrackLines
    OBVIOUS
  <2>1. ASSUME NEW d \in DeckIds
        PROVE  IF Holders(d) = {} THEN d \notin active /\ decks[d].air = "none"
               ELSE d \in active /\ Holders(d) = {decks[d].id}
    <3>1. ASSUME NEW k \in Holders(d) PROVE d \in active /\ k = decks[d].id
      BY DEF Holders, TrackInv, Tracked, DeckIds
    <3>2. d \in active => decks[d].id \in Holders(d)
      BY DEF Holders, TrackInv, Tracked
    <3>3. d \notin active => decks[d].air = "none"
      BY DEF TrackInv, Tracked, NoDeck
    <3> QED BY <3>1, <3>2, <3>3
  <2> QED BY <2>1 DEF DecksTrackLines, TrackInv, Tracked
<1>2. /\ TrackInv /\ AllShown /\ [Next]_vars
      /\ [transTimerData => log[trans.line].status \notin {"Playing", "Finishing"} \/ call' = NoCall]_vars
      => TrackInv'
  BY TrackInvNext
<1> QED BY <1>1, <1>2, TrackInvInit, PTL DEF LogSpec, HardStartsOnce

--------------------------------------------------------------------------------
(* What is on air                                                                *)

(* A deck x fits a line whose status is st: it plays only what is shown as       *)
(* playing, and, unless caed has refused a stream, what is shown as on air is    *)
(* under way, will be reported to the log machine, and is told to end when it is *)
(* shown as finishing.                                                           *)
Fit(x, st) ==
  /\ x.state = "Playing" => st = "Playing"
  /\ x.air \in {"playing", "ended"} => x.state \in {"Playing", "Stopping"} \/ x.pause_called
  /\ ~Refusals /\ st \in {"Playing", "Finishing"} => x.air \in {"playing", "ended"} /\ x.connected
  /\ ~Refusals /\ st = "Finishing" => x.stop_called \/ x.pause_called
CartsPlay == \A d \in active : Fit(decks[d], log[decks[d].id].status)

(* A macro that is shown as playing is the one the macro deck executes.          *)
MacrosPlay ==
  \A k \in DOMAIN log : log[k].type # "Cart" =>
     /\ log[k].status \in {"Scheduled", "Playing", "Finished"}
     /\ log[k].status = "Playing" => log[k].type = "Macro" /\ macro.sleeps /\ macro.line = k

OnlyOne == \A d, e \in DeckIds : decks[d].state = "Playing" /\ decks[e].state = "Playing" => d = e

AirInv == CartsPlay /\ MacrosPlay /\ OnlyOne

(* What the methods of a deck and the reports of caed do to it.                  *)
LEMMA FitMethods ==
  ASSUME NEW x \in Decks, NEW st, Fit(x, st), NEW k \in Nat, NEW points
  PROVE  /\ Fit(DeckStop(x), st) /\ DeckStop(x).state # "Playing"
         /\ Fit(DeckFade(x), st) /\ DeckFade(x).state # "Playing"
         /\ Fit(DeckPause(x), st)
         /\ st = "Playing" => Fit(DeckStop(x), "Finishing") /\ Fit(DeckFade(x), "Finishing")
         /\ Fit(DeckStart(x, k, points), "Playing")
         /\ Refusals => Fit(DeckRefused(k), "Playing")
<1>1. StopAir(x.air) \in {"playing", "ended"} <=> x.air \in {"playing", "ended"}
  BY DEF StopAir
<1>2. \/ DeckStop(x) = x /\ x.state \notin {"Playing", "Stopping"}
      \/ /\ DeckStop(x).state = "Stopping" /\ DeckStop(x).stop_called = TRUE
         /\ DeckStop(x).air = StopAir(x.air) /\ DeckStop(x).connected = x.connected
         /\ DeckStop(x).pause_called = x.pause_called
  BY DEF DeckStop, Decks
<1>3. \/ DeckFade(x) = x /\ x.state \notin {"Playing", "Stopping"}
      \/ /\ DeckFade(x).state = "Stopping" /\ DeckFade(x).stop_called = TRUE
         /\ DeckFade(x).air = x.air /\ DeckFade(x).connected = x.connected
         /\ DeckFade(x).pause_called = x.pause_called
  BY DEF DeckFade, Decks
<1>4. /\ DeckPause(x).state = "Paused" /\ DeckPause(x).pause_called = TRUE
      /\ DeckPause(x).air = StopAir(x.air) /\ DeckPause(x).connected = x.connected
  BY DEF DeckPause, Decks
<1>5. Fit(DeckStop(x), st) /\ DeckStop(x).state # "Playing"
  BY <1>1, <1>2 DEF Fit
<1>6. Fit(DeckFade(x), st) /\ DeckFade(x).state # "Playing"
  BY <1>3 DEF Fit
<1>7. Fit(DeckPause(x), st)
  BY <1>1, <1>4 DEF Fit
<1>8. st = "Playing" => Fit(DeckStop(x), "Finishing")
  BY <1>1, <1>2 DEF Fit
<1>9. st = "Playing" => Fit(DeckFade(x), "Finishing")
  BY <1>3 DEF Fit
<1>10. Fit(DeckStart(x, k, points), "Playing")
  BY DEF Fit, DeckStart, NoDeck
<1>11. Refusals => Fit(DeckRefused(k), "Playing")
  BY DEF Fit, DeckRefused, NoDeck
<1> QED BY <1>5, <1>6, <1>7, <1>8, <1>9, <1>10, <1>11

LEMMA AirInvInit == Init => AirInv
<1> SUFFICES ASSUME Init PROVE AirInv
  OBVIOUS
<1>1. \A k \in DOMAIN log : log[k].status = "Scheduled"
  <2>1. log \in Seq({ln \in Lines : ln.status = "Scheduled" /\ ln.deck = None})
    BY LogPlayAssumption DEF Init
  <2> DEFINE S == {ln \in Lines : ln.status = "Scheduled" /\ ln.deck = None}
  <2>2. \A ln \in S : ln.status = "Scheduled"
    OBVIOUS
  <2> HIDE DEF S
  <2>3. \A k \in DOMAIN log : log[k] \in S
    BY <2>1, LenProperties, ElementOfSeq DEF S
  <2> QED BY <2>2, <2>3
<1> QED BY <1>1 DEF Init, AirInv, CartsPlay, MacrosPlay, OnlyOne, NoDeck

(* Outside of Manual, what StartEvent() transitions is all that is on air: no    *)
(* deck is left playing, and no macro sleeping.                                  *)
LEMMA TransitionSilences ==
  ASSUME TrackInv, AirInv, AllShown, "Manual" \notin Modes, call.op = "StartEvent"
  PROVE  /\ \A d \in DeckIds : DecksTransitioned[d].state # "Playing"
         /\ \A d \in active : Fit(DecksTransitioned[d], LogTransitioned[decks[d].id].status)
         /\ \A k \in DOMAIN log : log[k].type # "Cart" => LogTransitioned[k].status \in {"Scheduled", "Finished"}
         /\ \A k \in DOMAIN log : log[k].status \in {"Scheduled", "Paused", "Finished"} /\ log[k].type = "Cart"
                                   => LogTransitioned[k].status = log[k].status
<1>0. /\ mode # "Manual" /\ active \subseteq DeckIds /\ \A j \in DOMAIN log : log[j] \in Lines
      /\ decks \in [DeckIds -> Decks] /\ \A d \in DeckIds : decks[d] \in Decks
      /\ call.trans \in {"Play", "Segue"}
  BY LineFacts DEF TrackInv, LogInv, LogTypeOK, CallKnown
<1>1. /\ \A j \in DOMAIN log : log[j].status = "Playing" => j \in Transitioned
      /\ \A j \in Transitioned : j \in DOMAIN log /\ log[j].status \in {"Playing", "Finishing"}
      /\ call.trans = "Segue" => \A j \in Transitioned : log[j].status = "Playing"
  BY <1>0 DEF AllShown, Transitioned, IsRunning
<1>2. ASSUME NEW d \in active
      PROVE  /\ DecksTransitioned[d].state # "Playing"
             /\ Fit(DecksTransitioned[d], LogTransitioned[decks[d].id].status)
  <2> DEFINE k == decks[d].id
             x == decks[d]
  <2>1. k \in DOMAIN log /\ log[k].deck = d /\ log[k].type = "Cart" /\ d \in DeckIds /\ d # None
    BY <1>0 DEF TrackInv, Tracked, DeckIds
  <2>2. Fit(x, log[k].status) /\ x \in Decks
    BY <1>0 DEF AirInv, CartsPlay
  <2>3. \A j \in DOMAIN log : log[j].deck = d => j = k
    BY <2>1 DEF TrackInv, Tracked
  <2>4. ~(MacroStopped /\ k = macro.line)
    BY <2>1 DEF TrackInv, MacroKnown, MacroStopped
  <2>5. LogTransitioned[k].status = IF call.trans = "Segue" /\ k \in Transitioned THEN "Finishing" ELSE log[k].status
    BY <1>0, <2>1, <2>4 DEF LogTransitioned, Lines
  <2>6. DecksTransitioned[d] = IF k \in Transitioned
                               THEN IF call.trans = "Segue" /\ call.fade THEN DeckFade(x) ELSE DeckStop(x)
                               ELSE x
    BY <1>1, <2>1, <2>3 DEF DecksTransitioned
  <2>7. /\ Fit(DeckStop(x), log[k].status) /\ DeckStop(x).state # "Playing"
        /\ Fit(DeckFade(x), log[k].status) /\ DeckFade(x).state # "Playing"
        /\ log[k].status = "Playing" => Fit(DeckStop(x), "Finishing") /\ Fit(DeckFade(x), "Finishing")
    <3>1. 0 \in Nat
      OBVIOUS
    <3> HIDE DEF x, k
    <3> QED BY <2>2, <3>1, FitMethods
  <2>8. k \notin Transitioned => x.state # "Playing"
    BY <1>1, <2>1, <2>2 DEF Fit
  <2> HIDE DEF x
  <2> QED BY <1>1, <2>2, <2>5, <2>6, <2>7, <2>8
<1>3. \A d \in DeckIds : DecksTransitioned[d].state # "Playing"
  <2>1. ASSUME NEW d \in DeckIds, d \notin active PROVE DecksTransitioned[d].state # "Playing"
    <3>1. DecksTransitioned[d] = NoDeck
      BY <2>1, TransitionKeeps DEF TrackInv, Tracked
    <3> QED BY <3>1 DEF NoDeck
  <2> QED BY <1>2, <2>1
<1>4. ASSUME NEW k \in DOMAIN log, log[k].type # "Cart"
      PROVE  LogTransitioned[k].status \in {"Scheduled", "Finished"}
  <2>1. CASE log[k].status = "Playing"
    <3>1. k \in Transitioned /\ macro.sleeps /\ macro.line = k /\ log[k].type = "Macro"
      BY <1>1, <1>4, <2>1 DEF AirInv, MacrosPlay
    <3>2. MacroStopped
      BY <3>1 DEF MacroStopped
    <3>3. LogTransitioned[k] = [log[k] EXCEPT !.status = "Finished"]
      BY <3>1, <3>2 DEF LogTransitioned
    <3> QED BY <1>0, <3>3 DEF Lines
  <2>2. CASE log[k].status # "Playing"
    <3>1. log[k].status \in {"Scheduled", "Finished"}
      BY <1>4, <2>2 DEF AirInv, MacrosPlay
    <3>2. LogTransitioned[k] = log[k] \/ LogTransitioned[k] = [log[k] EXCEPT !.status = "Finished"]
      BY <1>4 DEF LogTransitioned
    <3> QED BY <1>0, <3>1, <3>2 DEF Lines
  <2> QED BY <2>1, <2>2
<1>5. ASSUME NEW k \in DOMAIN log, log[k].status \in {"Scheduled", "Paused", "Finished"}, log[k].type = "Cart"
      PROVE  LogTransitioned[k].status = log[k].status
  <2>1. k \notin Transitioned /\ ~(MacroStopped /\ k = macro.line)
    BY <1>1, <1>5 DEF TrackInv, MacroKnown, MacroStopped
  <2> QED BY <2>1 DEF LogTransitioned
<1> QED BY <1>2, <1>3, <1>4, <1>5

LEMMA AirStartEvent ==
  ASSUME TrackInv, AirInv, AllShown, "Manual" \notin Modes, StartEvent
  PROVE  AirInv'
<1> DEFINE k == call.line
<1>0. /\ call.op = "StartEvent" /\ k \in DOMAIN log /\ k \in Nat
      /\ log[k].status \in {"Scheduled", "Paused", "Finished"}
      /\ \A j \in DOMAIN log : log[j] \in Lines
      /\ active \subseteq DeckIds /\ decks \in [DeckIds -> Decks]
  BY LineFacts DEF TrackInv, LogInv, LogTypeOK, CallKnown, StartEvent
<1>1. /\ DOMAIN LogTransitioned = DOMAIN log
      /\ \A j \in DOMAIN log : LogTransitioned[j] \in Lines /\ LogTransitioned[j].type = log[j].type
      /\ \A e \in DeckIds : DecksTransitioned[e].id = decks[e].id
      /\ DecksTransitioned \in [DeckIds -> Decks]
  BY TransitionKeeps, TransitionTypes DEF TrackInv, LogInv
<1>2. /\ \A d \in DeckIds : DecksTransitioned[d].state # "Playing"
      /\ \A d \in active : Fit(DecksTransitioned[d], LogTransitioned[decks[d].id].status)
      /\ \A j \in DOMAIN log : log[j].type # "Cart" => LogTransitioned[j].status \in {"Scheduled", "Finished"}
      /\ \A j \in DOMAIN log : log[j].status \in {"Scheduled", "Paused", "Finished"} /\ log[j].type = "Cart"
                                => LogTransitioned[j].status = log[j].status
  BY <1>0, TransitionSilences
<1>3. \A d \in active : decks[d].id \in DOMAIN log /\ log[decks[d].id].deck = d /\ log[decks[d].id].type = "Cart"
  <2> TAKE d \in active
  <2>1. decks[d].id \in DOMAIN log /\ log[decks[d].id].deck = d /\ d # None
    BY <1>0 DEF TrackInv, Tracked, DeckIds
  <2> QED BY <2>1 DEF TrackInv, Tracked
<1>4. ASSUME NEW st, log' = [LogTransitioned EXCEPT ![k].status = st], decks' = DecksTransitioned, active' = active,
             \/ st = "Finished" /\ (log[k].type = "Cart" => log[k].status # "Paused")
             \/ st = "Playing" /\ log[k].type = "Macro" /\ macro' = [line |-> k, sleeps |-> TRUE]
      PROVE  AirInv'
  <2>1. /\ DOMAIN log' = DOMAIN log /\ log'[k].status = st
        /\ \A j \in DOMAIN log : log'[j].type = log[j].type
        /\ \A j \in DOMAIN log : j # k => log'[j] = LogTransitioned[j]
    BY <1>0, <1>1, <1>4 DEF Lines
  <2>2. ASSUME NEW d \in active' PROVE Fit(decks'[d], log'[decks'[d].id].status)
    <3>1. d \in active /\ decks'[d].id = decks[d].id
      BY <1>0, <1>1, <1>4
    <3>2. decks[d].id # k
      BY <1>0, <1>3, <1>4, <3>1 DEF TrackInv, Tracked, IsRunning, DeckIds
    <3> QED BY <1>2, <1>3, <1>4, <2>1, <3>1, <3>2
  <2>3. CartsPlay'
    BY <2>2 DEF CartsPlay, Fit
  <2>4. MacrosPlay'
    <3> SUFFICES ASSUME NEW j \in DOMAIN log, log[j].type # "Cart"
                 PROVE  /\ log'[j].status \in {"Scheduled", "Playing", "Finished"}
                        /\ log'[j].status = "Playing" => log[j].type = "Macro" /\ macro'.sleeps /\ macro'.line = j
      BY <2>1 DEF MacrosPlay
    <3>1. CASE j # k
      BY <1>2, <2>1, <3>1
    <3>2. CASE j = k
      BY <1>4, <2>1, <3>2
    <3> QED BY <3>1, <3>2
  <2>5. OnlyOne'
    BY <1>2, <1>4 DEF OnlyOne
  <2> QED BY <2>3, <2>4, <2>5 DEF AirInv
<1>5. ASSUME log[k].type = "Cart", NEW d \in DeckIds, NEW loaded \in BOOLEAN, StartCart(k, d, loaded)
      PROVE  AirInv'
  <2>1. /\ log' = [LogTransitioned EXCEPT ![k].status = "Playing", ![k].deck = d]
        /\ active' = active \cup {d}
        /\ decks' = [DecksTransitioned EXCEPT ![d] = IF loaded THEN DeckStart(DecksTransitioned[d], k, log[k].slow)
                                                               ELSE DeckRefused(k)]
        /\ macro' = MacroTransitioned /\ (loaded \/ Refusals)
    BY <1>5 DEF StartCart
  <2>2. /\ DOMAIN log' = DOMAIN log /\ log'[k].status = "Playing"
        /\ \A j \in DOMAIN log : log'[j].type = log[j].type
        /\ \A j \in DOMAIN log : j # k => log'[j] = LogTransitioned[j]
    BY <1>0, <1>1, <2>1 DEF Lines
  <2>3. /\ decks'[d] = IF loaded THEN DeckStart(DecksTransitioned[d], k, log[k].slow) ELSE DeckRefused(k)
        /\ \A e \in DeckIds : e # d => decks'[e] = DecksTransitioned[e]
    BY <1>1, <2>1
  <2>4. Fit(decks'[d], "Playing")
    <3>1. Fit(DeckStart(DecksTransitioned[d], k, log[k].slow), "Playing")
      BY DEF Fit, DeckStart, NoDeck
    <3>2. Refusals => Fit(DeckRefused(k), "Playing")
      BY DEF Fit, DeckRefused, NoDeck
    <3> QED BY <2>1, <2>3, <3>1, <3>2
  <2>5. decks'[d].id = k /\ \A e \in active : e # d => decks[e].id # k
    <3>1. Tracked'
      BY <1>0, <1>5, TrackStartCart
    <3>2. log'[k].deck = d
      BY <1>0, <1>1, <2>1 DEF Lines
    <3>3. decks'[d].id = k
      BY <1>0, <2>2, <3>1, <3>2 DEF Tracked, DeckIds
    <3>4. ASSUME NEW e \in active, e # d PROVE decks[e].id # k
      <4>1. decks'[e].id = decks[e].id /\ e \in active'
        BY <1>0, <1>1, <2>1, <2>3, <3>4
      <4>2. log'[decks'[e].id].deck = e
        BY <3>1, <4>1 DEF Tracked
      <4> QED BY <3>2, <3>4, <4>1, <4>2
    <3> QED BY <3>3, <3>4
  <2>6. ASSUME NEW e \in active' PROVE Fit(decks'[e], log'[decks'[e].id].status)
    <3>1. CASE e = d
      BY <2>2, <2>4, <2>5, <3>1
    <3>2. CASE e # d
      <4>1. e \in active /\ decks'[e] = DecksTransitioned[e] /\ decks'[e].id = decks[e].id
        BY <1>0, <1>1, <2>1, <2>3, <3>2
      <4>2. log'[decks[e].id] = LogTransitioned[decks[e].id]
        BY <1>3, <2>2, <2>5, <3>2, <4>1
      <4> QED BY <1>2, <4>1, <4>2
    <3> QED BY <3>1, <3>2
  <2>7. CartsPlay'
    BY <2>6 DEF CartsPlay, Fit
  <2>8. MacrosPlay'
    <3> SUFFICES ASSUME NEW j \in DOMAIN log, log[j].type # "Cart"
                 PROVE  log'[j].status \in {"Scheduled", "Finished"}
      BY <2>2 DEF MacrosPlay
    <3>1. j # k
      BY <1>5
    <3> QED BY <1>2, <2>2, <3>1
  <2>9. OnlyOne'
    BY <1>2, <2>3 DEF OnlyOne
  <2> QED BY <2>7, <2>8, <2>9 DEF AirInv
<1>6. CASE StartAndFinish(k)
  BY <1>4, <1>6 DEF StartAndFinish
<1>7. CASE log[k].type = "Macro" /\ StartMacro(k)
  BY <1>4, <1>7 DEF StartMacro
<1> QED BY <1>5, <1>6, <1>7 DEF StartEvent

(* A step that starts nothing: decks only end, and a macro only goes on or ends. *)
LEMMA AirKeeps ==
  ASSUME TrackInv, AirInv, DOMAIN log' = DOMAIN log, active' = active,
         \A d \in DeckIds : decks'[d].id = decks[d].id /\ (decks'[d].state = "Playing" => decks[d].state = "Playing"),
         \A d \in active : Fit(decks'[d], log'[decks[d].id].status),
         \A k \in DOMAIN log : /\ log'[k].type = log[k].type
                               /\ log[k].type # "Cart" => log'[k].status \in {log[k].status, "Finished"},
         macro' = macro \/ \A k \in DOMAIN log : k = macro.line => log'[k].status = "Finished"
  PROVE  AirInv'
<1>0. active \subseteq DeckIds
  BY DEF TrackInv, LogInv, LogTypeOK
<1>1. \A d \in active : Fit(decks'[d], log'[decks'[d].id].status)
  BY <1>0
<1>2. CartsPlay'
  BY <1>1 DEF CartsPlay, Fit
<1>3. MacrosPlay'
  <2> SUFFICES ASSUME NEW j \in DOMAIN log, log[j].type # "Cart"
               PROVE  /\ log'[j].status \in {"Scheduled", "Playing", "Finished"}
                      /\ log'[j].status = "Playing" => log[j].type = "Macro" /\ macro'.sleeps /\ macro'.line = j
    BY DEF MacrosPlay
  <2>1. /\ log[j].status \in {"Scheduled", "Playing", "Finished"}
        /\ log[j].status = "Playing" => log[j].type = "Macro" /\ macro.sleeps /\ macro.line = j
    BY DEF AirInv, MacrosPlay
  <2> QED BY <2>1
<1>4. OnlyOne'
  BY DEF AirInv, OnlyOne
<1> QED BY <1>2, <1>3, <1>4 DEF AirInv

LEMMA AirCleanup ==
  ASSUME TrackInv, AirInv, NEW d \in DeckIds, decks[d] # NoDeck, CleanupEvent(decks[d].id), macro' = macro
  PROVE  AirInv'
<1> DEFINE k == decks[d].id
<1>1. d \in active /\ k \in DOMAIN log /\ log[k].deck = d /\ log[k].type = "Cart"
  BY DeckHeld
<1>2. \A j \in DOMAIN log : log[j] \in Lines
  BY LineFacts DEF TrackInv, LogInv, LogTypeOK
<1>3. active \subseteq DeckIds /\ decks \in [DeckIds -> Decks]
  BY DEF TrackInv, LogInv, LogTypeOK
<1>4. /\ DOMAIN log' = DOMAIN log /\ \A j \in DOMAIN log : j # k => log'[j] = log[j]
      /\ log'[k].type = "Cart"
  BY <1>1, <1>2 DEF CleanupEvent, Lines
<1>5. /\ active' = active \ {d} /\ decks'[d] = NoDeck
      /\ \A e \in DeckIds : e # d => decks'[e] = decks[e]
  BY <1>1, <1>3 DEF CleanupEvent
<1> HIDE DEF k
<1>6. ASSUME NEW e \in active' PROVE Fit(decks'[e], log'[decks'[e].id].status)
  <2>1. e \in active /\ e # d /\ decks'[e] = decks[e]
    BY <1>3, <1>5
  <2>2. decks[e].id \in DOMAIN log /\ log[decks[e].id].deck = e /\ decks[e].id # k
    BY <1>1, <2>1 DEF TrackInv, Tracked
  <2>3. Fit(decks[e], log[decks[e].id].status)
    BY <2>1 DEF AirInv, CartsPlay
  <2> QED BY <1>4, <2>1, <2>2, <2>3
<1>7. CartsPlay'
  BY <1>6 DEF CartsPlay, Fit
<1>8. MacrosPlay'
  BY <1>1, <1>4 DEF AirInv, MacrosPlay
<1>9. OnlyOne'
  BY <1>5 DEF AirInv, OnlyOne, NoDeck
<1> QED BY <1>7, <1>8, <1>9 DEF AirInv

LEMMA AirEdit ==
  ASSUME TrackInv, AirInv, NEW f, NEW gone, Edited(f, gone)
  PROVE  AirInv'
<1> USE DEF Edited
<1>1. ASSUME NEW d \in active' PROVE Fit(decks'[d], log'[decks'[d].id].status)
  <2>1. d \in active /\ \A i \in gone : log[i].deck # d
    OBVIOUS
  <2>2. decks[d].id \in DOMAIN log \ gone
    BY <2>1 DEF TrackInv, Tracked
  <2>3. log'[decks'[d].id] = log[decks[d].id]
    BY <2>2
  <2>4. Fit(decks[d], log[decks[d].id].status)
    BY <2>1 DEF AirInv, CartsPlay
  <2>5. SameDeck(decks'[d], decks[d])
    OBVIOUS
  <2> QED BY <2>3, <2>4, <2>5 DEF Fit, SameDeck
<1>2. CartsPlay'
  BY <1>1 DEF CartsPlay, Fit
<1>3. MacrosPlay'
  <2> SUFFICES ASSUME NEW j \in DOMAIN log', log'[j].type # "Cart"
               PROVE  log'[j].status \in {"Scheduled", "Finished"}
    BY DEF MacrosPlay
  <2>1. PICK i \in DOMAIN log : log'[j] = log[i]
    BY DEF NewLine
  <2> QED BY <2>1 DEF AirInv, MacrosPlay
<1>4. OnlyOne'
  BY DEF AirInv, OnlyOne, SameDeck, NoDeck
<1> QED BY <1>2, <1>3, <1>4 DEF AirInv

(* One deck changes and the lines do not.                                        *)
LEMMA AirDeck ==
  ASSUME TrackInv, AirInv, NEW d \in active, NEW x, decks' = [decks EXCEPT ![d] = x], x.id = decks[d].id,
         x.state = "Playing" => decks[d].state = "Playing", Fit(x, log[decks[d].id].status),
         UNCHANGED <<log, active, macro>>
  PROVE  AirInv'
<1>0. active \subseteq DeckIds /\ decks \in [DeckIds -> Decks]
  BY DEF TrackInv, LogInv, LogTypeOK
<1>1. \A e \in DeckIds : decks'[e] = IF e = d THEN x ELSE decks[e]
  BY <1>0
<1>2. \A e \in DeckIds : decks'[e].id = decks[e].id /\ (decks'[e].state = "Playing" => decks[e].state = "Playing")
  BY <1>1
<1>3. \A e \in active : Fit(decks'[e], log'[decks[e].id].status)
  BY <1>0, <1>1 DEF AirInv, CartsPlay
<1> QED BY <1>2, <1>3, AirKeeps

(* Nothing on air is touched.                                                    *)
LEMMA AirSame ==
  ASSUME AirInv, UNCHANGED <<log, decks, active, macro>>
  PROVE  AirInv'
BY DEF AirInv, CartsPlay, Fit, MacrosPlay, OnlyOne

(* The macro deck is stopped, or has slept.                                      *)
LEMMA AirMacro ==
  ASSUME TrackInv, AirInv, macro.sleeps, UNCHANGED <<decks, active>>,
         log' = [j \in DOMAIN log |-> IF j = macro.line THEN [log[j] EXCEPT !.status = "Finished"] ELSE log[j]]
  PROVE  AirInv'
<1>0. /\ \A j \in DOMAIN log : log[j] \in Lines
      /\ macro.line \in DOMAIN log /\ log[macro.line].type = "Macro" /\ active \subseteq DeckIds
  BY LineFacts DEF TrackInv, LogInv, LogTypeOK, MacroKnown
<1>1. /\ DOMAIN log' = DOMAIN log /\ log'[macro.line].status = "Finished"
      /\ log'[macro.line].type = log[macro.line].type
      /\ \A j \in DOMAIN log : j # macro.line => log'[j] = log[j]
  <2>1. log'[macro.line] = [log[macro.line] EXCEPT !.status = "Finished"]
    BY <1>0
  <2> QED BY <1>0, <2>1 DEF Lines
<1>2. ASSUME NEW d \in active PROVE Fit(decks'[d], log'[decks[d].id].status)
  <2>1. decks[d].id \in DOMAIN log /\ log[decks[d].id].deck = d /\ d # None
    BY <1>0 DEF TrackInv, Tracked, DeckIds
  <2>2. decks[d].id # macro.line
    BY <1>0, <2>1 DEF TrackInv, Tracked
  <2> QED BY <1>1, <2>1, <2>2 DEF AirInv, CartsPlay
<1>3. \A k \in DOMAIN log : /\ log'[k].type = log[k].type
                            /\ log[k].type # "Cart" => log'[k].status \in {log[k].status, "Finished"}
  BY <1>1
<1>4. \A k \in DOMAIN log : k = macro.line => log'[k].status = "Finished"
  BY <1>1
<1> QED BY <1>1, <1>2, <1>3, <1>4, AirKeeps

LEMMA AirCommands ==
  ASSUME TrackInv, AirInv, NEW k \in DOMAIN log, NEW fade \in BOOLEAN,
         play(k) \/ pause(k) \/ makeNext(k) \/ stop(k, fade)
  PROVE  AirInv'
<1>0. active \subseteq DeckIds /\ decks \in [DeckIds -> Decks]
  BY DEF TrackInv, LogInv, LogTypeOK
<1>1. ASSUME log[k].deck # None
      PROVE  LET d == log[k].deck IN
             /\ d \in active /\ decks[d] \in Decks /\ decks[d].id = k /\ Fit(decks[d], log[k].status)
  BY <1>0, <1>1 DEF TrackInv, Tracked, AirInv, CartsPlay
<1> DEFINE d == log[k].deck
           x == decks[d]
<1>2. ASSUME d # None
      PROVE  /\ DeckStop(x).id = x.id /\ Fit(DeckStop(x), log[k].status) /\ DeckStop(x).state # "Playing"
             /\ DeckFade(x).id = x.id /\ Fit(DeckFade(x), log[k].status) /\ DeckFade(x).state # "Playing"
             /\ DeckPause(x).id = x.id /\ Fit(DeckPause(x), log[k].status) /\ DeckPause(x).state # "Playing"
  <2>1. x \in Decks /\ Fit(x, log[k].status) /\ 0 \in Nat
    BY <1>1, <1>2
  <2> HIDE DEF x
  <2>2. DeckPause(x).state # "Playing"
    BY <2>1 DEF DeckPause, Decks
  <2> QED BY <2>1, <2>2, FitMethods, DeckKeepsId
<1>3. CASE play(k) \/ makeNext(k)
  BY <1>3, AirSame DEF play, makeNext
<1>4. CASE pause(k)
  <2>1. d # None /\ decks' = [decks EXCEPT ![d] = DeckPause(x)] /\ UNCHANGED <<log, active, macro>>
    BY <1>4 DEF pause
  <2>2. d \in active /\ decks[d].id = k
    BY <1>1, <2>1
  <2> HIDE DEF d
  <2> QED BY <1>2, <2>1, <2>2, AirDeck
<1>5. CASE stop(k, fade)
  <2>1. CASE /\ d # None /\ UNCHANGED <<log, macro>>
             /\ decks' = [decks EXCEPT ![d] = IF fade THEN DeckFade(@) ELSE DeckStop(@)]
    <3>1. decks' = [decks EXCEPT ![d] = IF fade THEN DeckFade(x) ELSE DeckStop(x)] /\ active' = active
      BY <1>5, <2>1 DEF stop
    <3>2. d \in active /\ decks[d].id = k
      BY <1>1, <2>1
    <3> HIDE DEF d
    <3>3. CASE fade
      <4>1. decks' = [decks EXCEPT ![d] = DeckFade(x)]
        BY <3>1, <3>3
      <4> QED BY <1>2, <2>1, <3>1, <3>2, <4>1, AirDeck
    <3>4. CASE ~fade
      <4>1. decks' = [decks EXCEPT ![d] = DeckStop(x)]
        BY <3>1, <3>4
      <4> QED BY <1>2, <2>1, <3>1, <3>2, <4>1, AirDeck
    <3> QED BY <3>3, <3>4
  <2>2. CASE /\ macro.sleeps /\ decks' = decks
             /\ log' = [j \in DOMAIN log |-> IF j = macro.line THEN [log[j] EXCEPT !.status = "Finished"]
                                                             ELSE log[j]]
    BY <1>5, <2>2, AirMacro DEF stop
  <2> QED BY <1>5, <2>1, <2>2 DEF stop
<1> QED BY <1>3, <1>4, <1>5

LEMMA AirTimers ==
  ASSUME TrackInv, AirInv, transTimerData \/ graceTimerData \/ sleepTimerData
  PROVE  AirInv'
<1>0. log \in Seq(Lines) /\ active \subseteq DeckIds /\ \A j \in DOMAIN log : log[j] \in Lines
  BY LineFacts DEF TrackInv, LogInv, LogTypeOK
<1>1. CASE transTimerData
  <2> DEFINE k == GetNextPlayable(trans.line, FALSE)
  <2>1. /\ UNCHANGED <<decks, active, macro>>
        /\ log' = log \/ log' = [log EXCEPT ![k].trans = IF log[k].trans = "Stop" THEN "Play" ELSE log[k].trans]
    BY <1>1 DEF transTimerData
  <2> HIDE DEF k
  <2>2. /\ DOMAIN log' = DOMAIN log
        /\ \A j \in DOMAIN log : log'[j].type = log[j].type /\ log'[j].status = log[j].status
    <3>1. CASE log' = log
      BY <3>1
    <3>2. ASSUME NEW t, log' = [log EXCEPT ![k].trans = t]
          PROVE  /\ DOMAIN log' = DOMAIN log
                 /\ \A j \in DOMAIN log : log'[j].type = log[j].type /\ log'[j].status = log[j].status
      <4>1. DOMAIN log' = DOMAIN log
        BY <3>2
      <4>2. ASSUME NEW j \in DOMAIN log PROVE log'[j] = IF j = k THEN [log[j] EXCEPT !.trans = t] ELSE log[j]
        BY <1>0, <3>2
      <4> QED BY <1>0, <4>1, <4>2 DEF Lines
    <3> QED BY <2>1, <3>1, <3>2
  <2>3. \A d \in active : Fit(decks'[d], log'[decks[d].id].status)
    BY <2>1, <2>2 DEF TrackInv, Tracked, AirInv, CartsPlay
  <2> QED BY <2>1, <2>2, <2>3, AirKeeps
<1>2. CASE graceTimerData
  BY <1>2, AirSame DEF graceTimerData
<1>3. CASE sleepTimerData
  BY <1>3, AirMacro DEF sleepTimerData
<1> QED BY <1>1, <1>2, <1>3

LEMMA AirDeckEvents ==
  ASSUME TrackInv, AirInv, NEW d \in DeckIds, DeckEvent(d)
  PROVE  AirInv'
<1> DEFINE x == decks[d]
           k == decks[d].id
<1>0. /\ \A j \in DOMAIN log : log[j] \in Lines
      /\ decks \in [DeckIds -> Decks] /\ x \in Decks /\ active \subseteq DeckIds
  BY LineFacts DEF TrackInv, LogInv, LogTypeOK
<1>1. ASSUME x # NoDeck
      PROVE  d \in active /\ k \in DOMAIN log /\ log[k].type = "Cart" /\ Fit(x, log[k].status)
  BY <1>1, DeckHeld DEF AirInv, CartsPlay
<1>2. CASE caedEnds(d)
  <2> DEFINE y == [x EXCEPT !.air = "ended"]
  <2>1. decks' = [decks EXCEPT ![d] = y] /\ x.air = "playing" /\ UNCHANGED <<log, active, macro>>
    BY <1>2 DEF caedEnds
  <2>2. /\ y.id = x.id /\ y.state = x.state /\ y.air = "ended" /\ y.connected = x.connected
        /\ y.stop_called = x.stop_called /\ y.pause_called = x.pause_called
    BY <1>0 DEF Decks
  <2>3. x # NoDeck
    BY <2>1 DEF NoDeck
  <2> HIDE DEF y
  <2>4. Fit(y, log[k].status)
    BY <1>1, <2>1, <2>2, <2>3 DEF Fit
  <2> QED BY <1>1, <2>1, <2>2, <2>3, <2>4, AirDeck
<1>3. CASE stopTimer(d)
  <2> DEFINE y == [DeckStop(x) EXCEPT !.stop_timer = FALSE]
  <2>1. decks' = [decks EXCEPT ![d] = y] /\ x.stop_timer /\ UNCHANGED <<log, active, macro>>
    BY <1>3 DEF stopTimer
  <2>2. x # NoDeck
    BY <2>1 DEF NoDeck
  <2>3. DeckStop(x) \in Decks /\ DeckStop(x).id = x.id /\ Fit(DeckStop(x), log[k].status) /\ DeckStop(x).state # "Playing"
    <3>1. x \in Decks /\ Fit(x, log[k].status) /\ 0 \in Nat
      BY <1>0, <1>1, <2>2
    <3> QED BY <3>1, FitMethods, DeckTypes, DeckKeepsId
  <2>4. y.id = DeckStop(x).id /\ SameDeck(y, DeckStop(x))
    BY <2>3 DEF Decks, SameDeck
  <2> HIDE DEF y
  <2>5. Fit(y, log[k].status) /\ y.state # "Playing"
    BY <2>3, <2>4 DEF Fit, SameDeck
  <2> QED BY <1>1, <2>1, <2>2, <2>3, <2>4, <2>5, AirDeck
<1>4. ASSUME NEW sg, decks' = [decks EXCEPT ![d].segue = sg], x # NoDeck, UNCHANGED <<log, active, macro>>
      PROVE  AirInv'
  <2> DEFINE y == [x EXCEPT !.segue = sg]
  <2>1. decks' = [decks EXCEPT ![d] = y]
    BY <1>4
  <2>2. y.id = x.id /\ SameDeck(y, x)
    BY <1>0 DEF Decks, SameDeck
  <2> HIDE DEF y
  <2>3. Fit(y, log[k].status) /\ (y.state = "Playing" => x.state = "Playing")
    BY <1>1, <1>4, <2>2 DEF Fit, SameDeck
  <2> QED BY <1>1, <1>4, <2>1, <2>2, <2>3, AirDeck
<1>5. CASE segueStartData(d)
  <2>1. /\ decks' = [decks EXCEPT ![d].segue = "end"] /\ UNCHANGED <<log, active, macro>> /\ x.segue = "start"
    BY <1>5 DEF segueStartData
  <2>2. x # NoDeck
    BY <2>1 DEF NoDeck
  <2> QED BY <1>4, <2>1, <2>2
<1>6. CASE segueEndData(d)
  <2>1. x.segue = "end" /\ macro' = macro
    BY <1>6 DEF segueEndData
  <2>2. x # NoDeck
    BY <2>1 DEF NoDeck
  <2>3. CASE CleanupEvent(k)
    BY <2>1, <2>2, <2>3, AirCleanup
  <2>4. CASE decks' = [decks EXCEPT ![d].segue = "off"] /\ UNCHANGED <<log, active>>
    BY <1>4, <2>1, <2>2, <2>4
  <2> QED BY <1>6, <2>3, <2>4 DEF segueEndData
<1>7. CASE playStoppedData(d)
  <2>1. x.air = "ended" /\ macro' = macro
    BY <1>7 DEF playStoppedData
  <2>2. x # NoDeck
    BY <2>1 DEF NoDeck
  <2>3. d \in active /\ k \in DOMAIN log /\ log[k].type = "Cart" /\ Fit(x, log[k].status)
    BY <1>1, <2>2
  <2>4. CASE /\ decks' = [decks EXCEPT ![d] = [NoDeck EXCEPT !.id = k, !.pause_called = TRUE,
                                                            !.state = "Paused", !.air = "idle"]]
             /\ log' = [j \in DOMAIN log |-> IF decks[d].connected /\ j = k
                          THEN [log[j] EXCEPT !.status = "Paused"] ELSE log[j]]
             /\ active' = active
    <3>1. /\ decks'[d].id = k /\ decks'[d].state = "Paused" /\ decks'[d].air = "idle"
          /\ \A e \in DeckIds : e # d => decks'[e] = decks[e]
      BY <1>0, <2>4 DEF NoDeck
    <3>2. /\ DOMAIN log' = DOMAIN log
          /\ \A j \in DOMAIN log : log'[j].type = log[j].type
          /\ \A j \in DOMAIN log : j # k => log'[j] = log[j]
          /\ log'[k].status = IF x.connected THEN "Paused" ELSE log[k].status
      <4>1. DOMAIN log' = DOMAIN log /\ \A j \in DOMAIN log : j # k => log'[j] = log[j]
        BY <2>4
      <4>2. log'[k] = IF x.connected THEN [log[k] EXCEPT !.status = "Paused"] ELSE log[k]
        BY <2>3, <2>4
      <4>3. log'[k].type = log[k].type /\ log'[k].status = IF x.connected THEN "Paused" ELSE log[k].status
        BY <1>0, <2>3, <4>2 DEF Lines
      <4> QED BY <4>1, <4>3
    <3>3. ASSUME NEW e \in active PROVE Fit(decks'[e], log'[decks[e].id].status)
      <4>1. CASE e = d
        BY <2>3, <3>1, <3>2, <4>1 DEF Fit
      <4>2. CASE e # d
        <5>1. decks[e].id \in DOMAIN log /\ decks[e].id # k /\ Fit(decks[e], log[decks[e].id].status)
          BY <2>3, <4>2 DEF TrackInv, Tracked, AirInv, CartsPlay
        <5> QED BY <1>0, <3>1, <3>2, <4>2, <5>1
      <4> QED BY <4>1, <4>2
    <3>4. \A e \in DeckIds : decks'[e].id = decks[e].id /\ (decks'[e].state = "Playing" => decks[e].state = "Playing")
      BY <3>1
    <3>5. \A j \in DOMAIN log : /\ log'[j].type = log[j].type
                                /\ log[j].type # "Cart" => log'[j].status \in {log[j].status, "Finished"}
      BY <2>3, <3>2
    <3> QED BY <2>1, <2>4, <3>2, <3>3, <3>4, <3>5, AirKeeps
  <2>5. CASE CleanupEvent(k)
    BY <2>1, <2>2, <2>5, AirCleanup
  <2>6. CASE /\ ~x.pause_called /\ ~(x.stop_called /\ EndsLine(d)) /\ ~(EndsLine(d) /\ log[k].status = "Playing")
             /\ decks' = [decks EXCEPT ![d] = [NoDeck EXCEPT !.id = k, !.connected = decks[d].connected]]
             /\ UNCHANGED <<log, active>>
    <3> DEFINE y == [NoDeck EXCEPT !.id = k, !.connected = decks[d].connected]
    <3>1. y.id = k /\ y.state = "Stopped" /\ y.air = "none"
      BY DEF NoDeck
    <3>2. EndsLine(d) <=> x.connected
      BY <2>3 DEF EndsLine
    <3>3. Fit(y, log[k].status)
      BY <2>3, <2>6, <3>1, <3>2 DEF Fit
    <3> HIDE DEF y
    <3>4. decks' = [decks EXCEPT ![d] = y]
      BY <2>6 DEF y
    <3> QED BY <2>1, <2>3, <2>6, <3>1, <3>3, <3>4, AirDeck
  <2> QED BY <1>7, <2>4, <2>5, <2>6 DEF playStoppedData
<1> QED BY <1>2, <1>3, <1>5, <1>6, <1>7 DEF DeckEvent

LEMMA AirInvNext ==
  ASSUME ~EditsCross, "Manual" \notin Modes
  PROVE  TrackInv /\ AirInv /\ AllShown /\ [Next]_vars => AirInv'
<1> SUFFICES ASSUME TrackInv, AirInv, AllShown, [Next]_vars PROVE AirInv'
  OBVIOUS
<1>1. CASE UNCHANGED vars
  BY <1>1, AirSame DEF vars
<1>2. ASSUME NEW k \in DOMAIN log, play(k) \/ pause(k) \/ makeNext(k) \/ \E fade \in BOOLEAN : stop(k, fade)
      PROVE  AirInv'
  <2>1. TRUE \in BOOLEAN
    OBVIOUS
  <2> QED BY <1>2, <2>1, AirCommands
<1>3. ASSUME NEW m \in Modes, setOpMode(m) PROVE AirInv'
  BY <1>3, AirSame DEF setOpMode
<1>4. CASE Operator
  BY <1>2, <1>3, <1>4, InsertEdits, RemoveEdits, MoveEdits, AirEdit DEF Operator
<1>5. CASE FinishEvent
  BY <1>5, AirSame DEF FinishEvent
<1> QED BY <1>1, <1>4, <1>5, AirStartEvent, AirTimers, AirDeckEvents DEF Next

(* Nothing is shown as on air with nothing left to end it: as long as caed       *)
(* refuses no stream, a cart that is shown as playing or finishing has a deck    *)
(* that plays or whose end is still to be reported, and a macro is the one the   *)
(* macro deck is executing.                                                      *)
THEOREM NothingStaysOn ==
  ~EditsCross /\ ~Refusals /\ "Manual" \notin Modes =>
    (LogSpec /\ []AllShown /\ HardStartsOnce => []NothingHangs)
<1> SUFFICES ASSUME ~EditsCross, ~Refusals, "Manual" \notin Modes
             PROVE  LogSpec /\ []AllShown /\ HardStartsOnce => []NothingHangs
  OBVIOUS
<1>1. TrackInv /\ AirInv => NothingHangs
  <2> SUFFICES ASSUME TrackInv, AirInv, NEW k \in DOMAIN log, log[k].status \in {"Playing", "Finishing"}
               PROVE  \/ log[k].type = "Cart" /\ decks[log[k].deck].air \in {"playing", "ended"}
                      \/ log[k].type = "Macro" /\ macro.sleeps /\ macro.line = k
    BY DEF NothingHangs
  <2>1. CASE log[k].type = "Cart"
    <3>1. log[k].deck \in active /\ decks[log[k].deck].id = k
      BY <2>1 DEF TrackInv, Tracked, IsRunning
    <3>2. Fit(decks[log[k].deck], log[k].status)
      BY <3>1 DEF AirInv, CartsPlay
    <3> QED BY <2>1, <3>2 DEF Fit
  <2>2. CASE log[k].type # "Cart"
    BY <2>2 DEF AirInv, MacrosPlay
  <2> QED BY <2>1, <2>2
<1>2. /\ TrackInv /\ AllShown /\ [Next]_vars
      /\ [transTimerData => log[trans.line].status \notin {"Playing", "Finishing"} \/ call' = NoCall]_vars
      => TrackInv'
  BY TrackInvNext
<1>3. TrackInv /\ AirInv /\ AllShown /\ [Next]_vars => AirInv'
  BY AirInvNext
<1> QED BY <1>1, <1>2, <1>3, TrackInvInit, AirInvInit, PTL DEF LogSpec, HardStartsOnce

(* Outside of Manual one deck at most plays and is not on its way to its end,    *)
(* whichever way events are started, and also where caed refuses streams.        *)
THEOREM OnlyOneOnAir ==
  ~EditsCross /\ "Manual" \notin Modes => (LogSpec /\ []AllShown /\ HardStartsOnce => []OneOnAir)
<1> SUFFICES ASSUME ~EditsCross, "Manual" \notin Modes
             PROVE  LogSpec /\ []AllShown /\ HardStartsOnce => []OneOnAir
  OBVIOUS
<1>1. AirInv => OneOnAir
  <2> SUFFICES ASSUME AirInv PROVE OneOnAir
    OBVIOUS
  <2> DEFINE S == {d \in DeckIds : decks[d].state = "Playing"}
  <2>1. CASE S = {}
    <3>1. Cardinality(S) = 0
      BY <2>1, FS_EmptySet
    <3> QED BY <3>1 DEF OneOnAir
  <2>2. ASSUME NEW d \in S PROVE OneOnAir
    <3>1. S = {d}
      BY DEF AirInv, OnlyOne
    <3>2. Cardinality(S) = 1
      BY <3>1, FS_Singleton
    <3> QED BY <3>2 DEF OneOnAir
  <2> QED BY <2>1, <2>2
<1>2. /\ TrackInv /\ AllShown /\ [Next]_vars
      /\ [transTimerData => log[trans.line].status \notin {"Playing", "Finishing"} \/ call' = NoCall]_vars
      => TrackInv'
  BY TrackInvNext
<1>3. TrackInv /\ AirInv /\ AllShown /\ [Next]_vars => AirInv'
  BY AirInvNext
<1> QED BY <1>1, <1>2, <1>3, TrackInvInit, AirInvInit, PTL DEF LogSpec, HardStartsOnce

================================================================================
