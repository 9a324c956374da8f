--------------------------- MODULE SequenceLemmas ---------------------------
(***************************************************************************)
(* What taking from one end of a sequence and putting on the other does:   *)
(* the lemmas about queues and channels that the other proofs cite; and    *)
(* what is built up in as many steps as a sequence has elements.           *)
(***************************************************************************)
EXTENDS Integers, Functions, SequenceTheorems, WellFoundedInduction, TLAPS

LEMMA AppendRange ==
  ASSUME NEW S, NEW s \in Seq(S), NEW k \in S
  PROVE  Range(Append(s, k)) = Range(s) \cup {k}
<1> DEFINE t == Append(s, k)
<1>1. /\ DOMAIN t = 1 .. Len(s) + 1 /\ DOMAIN s = 1 .. Len(s) /\ Len(s) \in Nat
      /\ \A i \in 1 .. Len(s) : t[i] = s[i]
      /\ t[Len(s) + 1] = k
  OBVIOUS
<1> HIDE DEF t
<1> QED
  BY <1>1 DEF Range, t

(* Appending a new element to a sequence without duplicates adds it to the *)
(* elements and makes no duplicate.                                        *)
LEMMA AppendNew ==
  ASSUME NEW S, NEW s \in Seq(S), NEW k \in S, k \notin Range(s), IsInjective(s)
  PROVE  /\ Append(s, k) \in Seq(S)
         /\ Range(Append(s, k)) = Range(s) \cup {k}
         /\ IsInjective(Append(s, k))
<1> DEFINE t == Append(s, k)
<1>1. /\ t \in Seq(S) /\ Len(t) = Len(s) + 1
      /\ DOMAIN t = 1 .. Len(s) + 1 /\ DOMAIN s = 1 .. Len(s) /\ Len(s) \in Nat
      /\ \A i \in 1 .. Len(s) : t[i] = s[i]
      /\ t[Len(s) + 1] = k
  OBVIOUS
<1> HIDE DEF t
<1>2. Range(t) = Range(s) \cup {k}
  BY <1>1 DEF Range
<1>3. IsInjective(t)
  BY <1>1 DEF IsInjective, Range
<1> QED
  BY <1>1, <1>2, <1>3 DEF t

(* Taking the head off a sequence without duplicates takes that element    *)
(* away and no other.                                                      *)
LEMMA TailRest ==
  ASSUME NEW S, NEW s \in Seq(S), s # <<>>, IsInjective(s)
  PROVE  /\ Head(s) \in Range(s)
         /\ Tail(s) \in Seq(S)
         /\ Range(Tail(s)) = Range(s) \ {Head(s)}
         /\ IsInjective(Tail(s))
<1> DEFINE t == Tail(s)
<1>1. /\ t \in Seq(S) /\ Len(s) \in Nat /\ Len(s) > 0
      /\ DOMAIN t = 1 .. Len(s) - 1 /\ DOMAIN s = 1 .. Len(s)
      /\ \A i \in 1 .. Len(s) - 1 : t[i] = s[i + 1]
      /\ Head(s) = s[1]
  OBVIOUS
<1> HIDE DEF t
<1>2. IsInjective(t)
  <2> SUFFICES ASSUME NEW i \in 1 .. Len(s) - 1, NEW j \in 1 .. Len(s) - 1, t[i] = t[j]
               PROVE  i = j
    BY <1>1 DEF IsInjective
  <2>1. s[i + 1] = s[j + 1]
    BY <1>1
  <2>2. i + 1 \in 1 .. Len(s) /\ j + 1 \in 1 .. Len(s)
    BY <1>1
  <2>3. i + 1 = j + 1
    BY <1>1, <2>1, <2>2, Zenon DEF IsInjective
  <2> QED
    BY <2>3
<1>3. \A x : x \in Range(t) <=> x \in Range(s) \ {Head(s)}
  <2> TAKE x
  <2>1. ASSUME x \in Range(t) PROVE x \in Range(s) \ {Head(s)}
    <3> PICK i \in 1 .. Len(s) - 1 : x = t[i]
      BY <2>1, <1>1 DEF Range
    <3>1. x = s[i + 1] /\ i + 1 \in 1 .. Len(s) /\ i + 1 # 1
      BY <1>1
    <3> QED
      BY <3>1, <1>1 DEF Range, IsInjective
  <2>2. ASSUME x \in Range(s), x # Head(s) PROVE x \in Range(t)
    <3> PICK j \in 1 .. Len(s) : x = s[j]
      BY <2>2, <1>1 DEF Range
    <3>1. j - 1 \in 1 .. Len(s) - 1 /\ t[j - 1] = x
      BY <2>2, <1>1
    <3> QED
      BY <3>1, <1>1 DEF Range
  <2> QED
    BY <2>1, <2>2
<1> QED
  BY <1>1, <1>2, <1>3 DEF Range, t

(* A sequence is its head and its tail, and nothing else makes it.         *)
LEMMA HeadThenTail ==
  ASSUME NEW S, NEW s \in Seq(S), NEW e \in S
  PROVE  /\ s # <<>> => <<Head(s)>> \o Tail(s) = s
         /\ <<e>> \o s # <<>> /\ Head(<<e>> \o s) = e /\ Tail(<<e>> \o s) = s
<1>1. ASSUME s # <<>> PROVE <<Head(s)>> \o Tail(s) = s
  <2>1. Head(s) \in S /\ Tail(s) \in Seq(S) /\ <<Head(s)>> \in Seq(S)
    BY <1>1
  <2>2. /\ <<Head(s)>> \o Tail(s) \in Seq(S)
        /\ Len(<<Head(s)>> \o Tail(s)) = Len(s)
        /\ \A i \in 1 .. Len(s) : (<<Head(s)>> \o Tail(s))[i] = s[i]
    BY <1>1, <2>1
  <2> QED
    BY <2>2, SeqEqual
<1>2. <<e>> \o s # <<>> /\ Head(<<e>> \o s) = e
  OBVIOUS
<1>3. Tail(<<e>> \o s) = s
  <2>1. /\ Tail(<<e>> \o s) \in Seq(S)
        /\ Len(Tail(<<e>> \o s)) = Len(s)
        /\ \A i \in 1 .. Len(s) : Tail(<<e>> \o s)[i] = s[i]
    OBVIOUS
  <2> QED
    BY <2>1, SeqEqual
<1> QED
  BY <1>1, <1>2, <1>3

(* Three channels in a row, the middle one of one element.  A step from    *)
(* the last to the middle one, or from there to the first, does not change *)
(* what is on the way ...                                                  *)
LEMMA MoveForward ==
  ASSUME NEW S, NEW s \in Seq(S), NEW t \in Seq(S), NEW e \in S
  PROVE  /\ t # <<>> => (s \o <<Head(t)>>) \o Tail(t) = (s \o <<>>) \o t
         /\ (Append(s, e) \o <<>>) \o t = (s \o <<e>>) \o t
<1>1. ASSUME t # <<>> PROVE (s \o <<Head(t)>>) \o Tail(t) = (s \o <<>>) \o t
  <2>1. Head(t) \in S /\ Tail(t) \in Seq(S) /\ <<Head(t)>> \in Seq(S)
    BY <1>1
  <2>2. (s \o <<Head(t)>>) \o Tail(t) = s \o (<<Head(t)>> \o Tail(t))
    BY <2>1, ConcatAssociative
  <2> QED
    BY <1>1, <2>2, HeadThenTail, ConcatEmptySeq
<1>2. (Append(s, e) \o <<>>) \o t = (s \o <<e>>) \o t
  <2>1. Append(s, e) \in Seq(S) /\ Append(s, e) = s \o <<e>>
    BY AppendIsConcat, AppendProperties
  <2> QED
    BY <2>1, ConcatEmptySeq
<1> QED
  BY <1>1, <1>2

(* ... what is taken from the first is taken from the front of it all ...  *)
LEMMA HeadFirst ==
  ASSUME NEW S, NEW s \in Seq(S), NEW m \in Seq(S), NEW t \in Seq(S), s # <<>>
  PROVE  (s \o m) \o t # <<>> /\ Head((s \o m) \o t) = Head(s)
OBVIOUS

LEMMA TakeFirst ==
  ASSUME NEW S, NEW s \in Seq(S), NEW m \in Seq(S), NEW t \in Seq(S), s # <<>>
  PROVE  (Tail(s) \o m) \o t = Tail((s \o m) \o t)
<1> DEFINE h == <<Head(s)>>
           v == (Tail(s) \o m) \o t
<1>1. /\ Head(s) \in S /\ h \in Seq(S) /\ Tail(s) \in Seq(S)
      /\ Tail(s) \o m \in Seq(S) /\ v \in Seq(S)
  OBVIOUS
<1>2. (s \o m) \o t = h \o v
  <2>1. s = h \o Tail(s)
    BY HeadThenTail
  <2>2. (h \o Tail(s)) \o m = h \o (Tail(s) \o m)
    BY <1>1, ConcatAssociative
  <2>3. (h \o (Tail(s) \o m)) \o t = h \o v
    BY <1>1, ConcatAssociative
  <2> QED
    BY <2>1, <2>2, <2>3
<1>3. Tail(h \o v) = v
  BY <1>1, HeadThenTail
<1> QED
  BY <1>2, <1>3

(* ... and what is put into the last is put behind it all.                 *)
LEMMA PutLast ==
  ASSUME NEW S, NEW s \in Seq(S), NEW m \in Seq(S), NEW t \in Seq(S), NEW e \in S
  PROVE  (s \o m) \o Append(t, e) = Append((s \o m) \o t, e)
<1> DEFINE front == s \o m
           last == <<e>>
<1>1. front \in Seq(S) /\ last \in Seq(S)
  OBVIOUS
<1> HIDE DEF front
<1>2. Append(t, e) = t \o last /\ Append(front \o t, e) = (front \o t) \o last
  <2>1. front \o t \in Seq(S)
    BY <1>1
  <2> QED
    BY <2>1, AppendIsConcat
<1> HIDE DEF last
<1>3. (front \o t) \o last = front \o (t \o last)
  BY <1>1, ConcatAssociative
<1> QED
  BY <1>2, <1>3 DEF front

-----------------------------------------------------------------------------
(* Every non-empty set of natural numbers has a least element.             *)
LEMMA LeastNat ==
  ASSUME NEW T \in SUBSET Nat, T # {}
  PROVE  \E x \in T : \A y \in T : x <= y
<1>1. PICK R : /\ \A x, y \in Nat : x < y => <<x, y>> \in R
               /\ IsWellFoundedOn(R, Nat)
  <2>1. \A x, y \in Nat : x < y => <<x, y>> \in OpToRel(<, Nat)
    BY DEF OpToRel
  <2> QED
    BY <2>1, NatLessThanWellFounded
<1>2. T \subseteq Nat
  OBVIOUS
<1>3. IsWellFoundedOn(R, Nat)
  BY <1>1
<1>4. PICK x \in T : \A y \in T : ~ (<<y, x>> \in R)
  BY <1>2, <1>3, WFMin, Zenon
<1>5. ASSUME NEW y \in T PROVE x <= y
  <2>1. x \in Nat /\ y \in Nat
    BY <1>2
  <2>2. ~ (y < x)
    BY <1>1, <1>4, <2>1
  <2> QED
    BY <2>1, <2>2
<1> QED
  BY <1>5

(* A set with 0, and with each next number, has all numbers up to N.       *)
LEMMA CountUp ==
  ASSUME NEW N \in Nat, NEW E, 0 \in E, \A n \in 1 .. N : n - 1 \in E => n \in E
  PROVE  \A n \in 0 .. N : n \in E
<1> DEFINE T == {n \in 0 .. N : n \notin E}
<1>1. SUFFICES ASSUME T # {} PROVE FALSE
  OBVIOUS
<1>2. PICK m \in T : \A y \in T : m <= y
  <2>1. T \in SUBSET Nat
    OBVIOUS
  <2> HIDE DEF T
  <2> QED
    BY <1>1, <2>1, LeastNat
<1>3. m \in 1 .. N /\ m - 1 \in 0 .. N /\ ~(m <= m - 1)
  BY <1>2
<1>4. m - 1 \notin T
  BY <1>2, <1>3
<1> QED
  BY <1>2, <1>3, <1>4

(* A value can be changed N times, each time as s[n] says.                 *)
LEMMA StepsExist ==
  ASSUME NEW S, NEW a \in S, NEW N \in Nat, NEW s \in [1 .. N -> [S -> S]]
  PROVE  \E f \in [0 .. N -> S] : f[0] = a /\ \A n \in 1 .. N : f[n] = s[n][f[n - 1]]
<1> DEFINE Built(m) == \E f \in [0 .. m -> S] : f[0] = a /\ \A n \in 1 .. m : f[n] = s[n][f[n - 1]]
           E == {m \in 0 .. N : Built(m)}
<1>1. Built(0)
  <2> DEFINE f == [n \in 0 .. 0 |-> a]
  <2>1. f \in [0 .. 0 -> S] /\ f[0] = a /\ \A n \in 1 .. 0 : f[n] = s[n][f[n - 1]]
    OBVIOUS
  <2> QED
    BY <2>1
<1>2. ASSUME NEW m \in 1 .. N, Built(m - 1) PROVE Built(m)
  <2> PICK f \in [0 .. m - 1 -> S] : f[0] = a /\ \A n \in 1 .. m - 1 : f[n] = s[n][f[n - 1]]
    BY <1>2
  <2> DEFINE g == [n \in 0 .. m |-> IF n = m THEN s[m][f[m - 1]] ELSE f[n]]
  <2>1. f[m - 1] \in S /\ s[m] \in [S -> S]
    OBVIOUS
  <2>2. g \in [0 .. m -> S] /\ g[0] = a
    BY <2>1
  <2>3. ASSUME NEW n \in 1 .. m PROVE g[n] = s[n][g[n - 1]]
    BY <2>3
  <2> HIDE DEF g
  <2> QED
    BY <2>2, <2>3
<1> HIDE DEF Built
<1>3. 0 \in E /\ \A m \in 1 .. N : m - 1 \in E => m \in E
  BY <1>1, <1>2
<1> HIDE DEF E
<1>4. \A m \in 0 .. N : m \in E
  BY <1>3, CountUp
<1>5. N \in E
  BY <1>4
<1> QED
  BY <1>5 DEF E, Built
=============================================================================
