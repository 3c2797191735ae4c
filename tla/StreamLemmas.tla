------------------------------ MODULE StreamLemmas ------------------------------
(* Sequences as the proofs about the TCP streams use them: what the parts of a   *)
(* sequence have to do with the whole, index by index.                           *)
EXTENDS Integers, Sequences, SequenceTheorems, TLAPS

LEMMA TailFacts ==
  ASSUME NEW S, NEW q \in Seq(S), q # <<>>
  PROVE  /\ Tail(q) \in Seq(S) /\ Len(Tail(q)) = Len(q) - 1 /\ Len(q) \in Nat \ {0}
         /\ \A k \in DOMAIN Tail(q) : k + 1 \in DOMAIN q /\ Tail(q)[k] = q[k + 1]
         /\ \A k \in DOMAIN q : k # 1 => k - 1 \in DOMAIN Tail(q) /\ Tail(q)[k - 1] = q[k]
         /\ 1 \in DOMAIN q /\ Head(q) = q[1] /\ Head(q) \in S
<1>1. Len(q) \in Nat /\ DOMAIN q = 1..Len(q) /\ Len(q) # 0
  BY LenProperties, EmptySeq
<1>2. /\ Tail(q) \in Seq(S) /\ Len(Tail(q)) = Len(q) - 1 /\ Head(q) = q[1] /\ Head(q) \in S
      /\ \A i \in 1..Len(Tail(q)) : Tail(q)[i] = q[i + 1]
  BY <1>1, HeadTailProperties
<1> DEFINE t == Tail(q)
<1>3. DOMAIN t = 1..(Len(q) - 1)
  BY <1>1, <1>2, LenProperties
<1> HIDE DEF t
<1>4. /\ \A k \in DOMAIN t : k + 1 \in DOMAIN q
      /\ \A k \in DOMAIN q : k # 1 => k - 1 \in DOMAIN t /\ k - 1 + 1 = k
  BY <1>1, <1>3
<1> QED BY <1>1, <1>2, <1>3, <1>4 DEF t

LEMMA ConcatFacts ==
  ASSUME NEW S, NEW q \in Seq(S), NEW t \in Seq(S)
  PROVE  /\ q \o t \in Seq(S) /\ Len(q \o t) = Len(q) + Len(t) /\ Len(q) \in Nat /\ Len(t) \in Nat
         /\ DOMAIN q = 1..Len(q) /\ DOMAIN t = 1..Len(t)
         /\ \A k \in DOMAIN q : k \in DOMAIN (q \o t) /\ (q \o t)[k] = q[k]
         /\ \A k \in DOMAIN t : Len(q) + k \in DOMAIN (q \o t) /\ (q \o t)[Len(q) + k] = t[k]
         /\ \A k \in DOMAIN (q \o t) : \/ k \in DOMAIN q /\ (q \o t)[k] = q[k]
                                       \/ k > Len(q) /\ k - Len(q) \in DOMAIN t /\ (q \o t)[k] = t[k - Len(q)]
<1>1. /\ Len(q) \in Nat /\ DOMAIN q = 1..Len(q) /\ Len(t) \in Nat /\ DOMAIN t = 1..Len(t)
  BY LenProperties
<1> DEFINE c == q \o t
<1>2. /\ c \in Seq(S) /\ Len(c) = Len(q) + Len(t)
      /\ \A i \in 1..(Len(q) + Len(t)) : c[i] = IF i <= Len(q) THEN q[i] ELSE t[i - Len(q)]
  BY ConcatProperties
<1>3. DOMAIN c = 1..(Len(q) + Len(t))
  BY <1>2, LenProperties
<1> HIDE DEF c
<1>4. /\ \A k \in DOMAIN q : k \in DOMAIN c /\ c[k] = q[k]
      /\ \A k \in DOMAIN t : Len(q) + k \in DOMAIN c /\ c[Len(q) + k] = t[k]
      /\ \A k \in DOMAIN c : \/ k \in DOMAIN q /\ c[k] = q[k]
                             \/ k > Len(q) /\ k - Len(q) \in DOMAIN t /\ c[k] = t[k - Len(q)]
  BY <1>1, <1>2, <1>3
<1> QED BY <1>1, <1>2, <1>4 DEF c

LEMMA AppendFacts ==
  ASSUME NEW S, NEW q \in Seq(S), NEW e \in S
  PROVE  /\ Append(q, e) \in Seq(S) /\ Len(Append(q, e)) = Len(q) + 1 /\ Len(q) \in Nat
         /\ DOMAIN q = 1..Len(q)
         /\ \A k \in DOMAIN q : k \in DOMAIN Append(q, e) /\ Append(q, e)[k] = q[k]
         /\ Len(q) + 1 \in DOMAIN Append(q, e) /\ Append(q, e)[Len(q) + 1] = e
         /\ \A k \in DOMAIN Append(q, e) : \/ k \in DOMAIN q /\ Append(q, e)[k] = q[k]
                                           \/ k = Len(q) + 1 /\ Append(q, e)[k] = e
<1>1. Len(q) \in Nat /\ DOMAIN q = 1..Len(q)
  BY LenProperties
<1> DEFINE a == Append(q, e)
<1>2. /\ a \in Seq(S) /\ Len(a) = Len(q) + 1
      /\ \A i \in 1..Len(q) : a[i] = q[i]
      /\ a[Len(q) + 1] = e
  BY AppendProperties
<1>3. DOMAIN a = 1..(Len(q) + 1)
  BY <1>2, LenProperties
<1> HIDE DEF a
<1>4. /\ \A k \in DOMAIN q : k \in DOMAIN a
      /\ Len(q) + 1 \in DOMAIN a
      /\ \A k \in DOMAIN a : k \in DOMAIN q \/ k = Len(q) + 1
  BY <1>1, <1>3
<1>5. \A k \in DOMAIN q : a[k] = q[k]
  BY <1>1, <1>2, Zenon
<1>6. a[Len(q) + 1] = e /\ \A k \in DOMAIN a : k = Len(q) + 1 => a[k] = e
  BY <1>2, Zenon
<1>7. \A k \in DOMAIN a : (k \in DOMAIN q /\ a[k] = q[k]) \/ (k = Len(q) + 1 /\ a[k] = e)
  BY <1>4, <1>5, <1>6, Zenon
<1> QED BY <1>1, <1>2, <1>4, <1>5, <1>6, <1>7, Zenon DEF a
================================================================================
