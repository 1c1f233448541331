------------------------ MODULE PrerecordRingProofs ------------------------
(***************************************************************************)
(* Facts about the operators of PrerecordRing, for every ring and clock.   *)
(***************************************************************************)
EXTENDS PrerecordRing, SequenceTheorems, FiniteSetTheorems,
        WellFoundedInduction, TLAPS

(* Every non-empty set of naturals has a least element: the intervals      *)
(* 0 .. m, ordered by strict inclusion, are well founded.                  *)
LEMMA LeastExists ==
  ASSUME NEW S \in SUBSET Nat, S # {}
  PROVE  \E m \in S : \A n \in S : m <= n
<1> PICK b \in S : TRUE
  OBVIOUS
<1> DEFINE below == {0 .. m : m \in {n \in S : n <= b}}
           order == StrictSubsetOrdering(0 .. b)
<1>1. below # {} /\ below \subseteq FiniteSubsetsOf(0 .. b)
  <2>1. \A m \in Nat : IsFiniteSet(0 .. m)
    BY FS_Interval
  <2> QED BY <2>1 DEF FiniteSubsetsOf
<1>2. \E x \in below : \A y \in below : ~ (<<y, x>> \in order)
  <2>1. IsWellFoundedOn(order, FiniteSubsetsOf(0 .. b))
    BY FS_StrictSubsetOrderingWellFounded
  <2> QED BY <2>1, <1>1, WFMin
<1>3. PICK x \in below : \A y \in below : ~ (<<y, x>> \in order)
  BY <1>2
<1>4. PICK m \in S : m <= b /\ x = 0 .. m
  OBVIOUS
<1>5. ASSUME NEW n \in S, n < m PROVE FALSE
  <2>1. 0 .. n \in below
    BY <1>4, <1>5
  <2>2. 0 .. n \subseteq 0 .. m /\ 0 .. n # 0 .. m
    BY <1>5
  <2>3. 0 .. n \in SUBSET (0 .. b) /\ 0 .. m \in SUBSET (0 .. b)
    BY <1>4, <1>5
  <2>4. <<0 .. n, 0 .. m>> \in StrictSubsetOrdering(0 .. b)
    BY <2>2, <2>3, Zenon DEF StrictSubsetOrdering
  <2> QED BY <2>1, <2>4, <1>3, <1>4
<1> QED BY <1>4, <1>5

(* Least returns the least element.                                        *)
LEMMA LeastIsLeast ==
  ASSUME NEW S \in SUBSET Nat, S # {}
  PROVE  Least(S) \in S /\ \A n \in S : Least(S) <= n
BY LeastExists DEF Least

(* Greatest returns the greatest element of a bounded set.                 *)
LEMMA GreatestIsGreatest ==
  ASSUME NEW b \in Nat, NEW S \in SUBSET (1 .. b), S # {}
  PROVE  Greatest(S) \in S /\ \A n \in S : n <= Greatest(S)
<1> DEFINE mirror == {b - n : n \in S}
<1>1. mirror \in SUBSET Nat
  <2>1. \A n \in S : n \in Nat /\ n <= b
    OBVIOUS
  <2> QED BY <2>1
<1>2. mirror # {}
  OBVIOUS
<1>3. PICK m \in mirror : \A n \in mirror : m <= n
  BY <1>1, <1>2, LeastExists
<1>4. PICK g \in S : m = b - g
  OBVIOUS
<1>5. ASSUME NEW n \in S PROVE n <= g
  <2>1. b - n \in mirror
    OBVIOUS
  <2> QED BY <2>1, <1>3, <1>4
<1> QED BY <1>4, <1>5 DEF Greatest

(* A tail of a sequence: its type, its length and its elements.            *)
LEMMA FromProperties ==
  ASSUME NEW E, NEW s \in Seq(E), NEW i \in Nat \ {0}
  PROVE  /\ From(s, i) \in Seq(E)
         /\ Len(From(s, i)) = IF i <= Len(s) THEN Len(s) - i + 1 ELSE 0
         /\ \A j \in 1 .. Len(From(s, i)) : From(s, i)[j] = s[i + j - 1]
<1>1. i \in Int /\ Len(s) \in Int /\ \A j \in i .. Len(s) : s[j] \in E
  BY LenProperties, ElementOfSeq
<1>2. /\ SubSeq(s, i, Len(s)) \in Seq(E)
      /\ Len(SubSeq(s, i, Len(s))) = IF i <= Len(s) THEN Len(s) - i + 1 ELSE 0
      /\ \A j \in 1 .. Len(s) - i + 1 : SubSeq(s, i, Len(s))[j] = s[i + j - 1]
  BY <1>1, SubSeqProperties
<1> QED BY <1>1, <1>2 DEF From

(* Trim returns the longest tail that starts with an entry that stays, or  *)
(* nothing when none does.                                                 *)
LEMMA TrimIsTail ==
  ASSUME NEW E, NEW r \in Seq(E), NEW now \in Nat
  PROVE  \E k \in 1 .. Len(r) + 1 :
           /\ Trim(r, now) = From(r, k)
           /\ k <= Len(r) => Stays(r, k, now)
           /\ \A i \in 1 .. k - 1 : ~Stays(r, i, now)
<1> DEFINE kept == {i \in 1 .. Len(r) : Stays(r, i, now)}
<1>0. Len(r) \in Nat
  BY LenProperties
<1>1. CASE kept = {}
  <2>1. From(r, Len(r) + 1) = <<>>
    BY <1>0, SubSeqEmpty DEF From
  <2>2. Trim(r, now) = <<>>
    BY <1>1 DEF Trim
  <2> WITNESS Len(r) + 1 \in 1 .. Len(r) + 1
  <2> QED BY <1>0, <1>1, <2>1, <2>2
<1>2. CASE kept # {}
  <2>1. kept \in SUBSET Nat
    BY <1>0
  <2>2. Least(kept) \in kept /\ \A n \in kept : Least(kept) <= n
    BY <1>2, <2>1, LeastIsLeast
  <2>3. Trim(r, now) = From(r, Least(kept))
    BY <1>2 DEF Trim
  <2>4. \A i \in 1 .. Least(kept) - 1 : ~Stays(r, i, now)
    BY <1>0, <2>2
  <2> HIDE DEF kept
  <2>5. Least(kept) \in 1 .. Len(r) /\ Stays(r, Least(kept), now)
    BY <2>2 DEF kept
  <2>6. Least(kept) \in 1 .. Len(r) + 1
    BY <1>0, <2>5
  <2> QED BY <2>3, <2>4, <2>5, <2>6
<1> QED BY <1>1, <1>2

(* ring_push_locked keeps the ring a sequence of entries that is no longer *)
(* than its array, whether or not the frame could be copied.               *)
LEMMA PushedProperties ==
  ASSUME NEW E, NEW r \in Seq(E), Len(r) <= RING_CAP, NEW now \in Nat,
         NEW f, [frame |-> f, wall |-> now] \in E
  PROVE  /\ Popped(r) \in Seq(E) /\ Len(Popped(r)) < RING_CAP
         /\ Pushed(r, f, now) \in Seq(E) /\ Len(Pushed(r, f, now)) <= RING_CAP
<1> DEFINE e == [frame |-> f, wall |-> now]
           a == Append(Popped(r), e)
<1>0. Len(r) \in Nat /\ RING_CAP \in Nat \ {0}
  BY LenProperties, RingAssumption
<1>1. Popped(r) \in Seq(E) /\ Len(Popped(r)) < RING_CAP
  <2>1. CASE Len(r) < RING_CAP
    BY <1>0, <2>1 DEF Popped
  <2>2. CASE Len(r) = RING_CAP
    <3>1. Popped(r) = From(r, 2)
      BY <1>0, <2>2 DEF Popped
    <3>2. From(r, 2) \in Seq(E) /\ Len(From(r, 2)) = IF 2 <= Len(r) THEN Len(r) - 2 + 1 ELSE 0
      BY FromProperties
    <3> QED BY <1>0, <2>2, <3>1, <3>2
  <2> QED BY <1>0, <2>1, <2>2
<1>2. a \in Seq(E) /\ Len(a) = Len(Popped(r)) + 1
  <2> HIDE DEF e
  <2> QED BY <1>1, AppendProperties DEF e
<1>3. Len(Popped(r)) \in Nat
  BY <1>1, LenProperties
<1> HIDE DEF a
<1>4. PICK k \in 1 .. Len(a) + 1 : Trim(a, now) = From(a, k)
  BY <1>2, TrimIsTail
<1>5. From(a, k) \in Seq(E) /\ Len(From(a, k)) = IF k <= Len(a) THEN Len(a) - k + 1 ELSE 0
  BY <1>2, <1>3, FromProperties
<1>6. Pushed(r, f, now) = Trim(a, now)
  BY DEF Pushed, a
<1> QED BY <1>0, <1>1, <1>2, <1>3, <1>4, <1>5, <1>6

(* The ring only ever loses entries at its front: after a push it is a     *)
(* tail of what it was, followed by the new entry.                         *)
LEMMA PoppedIsTail ==
  ASSUME NEW E, NEW r \in Seq(E), Len(r) <= RING_CAP
  PROVE  \E k \in Nat :
           /\ Popped(r) \in Seq(E) /\ Len(Popped(r)) + k = Len(r)
           /\ \A i \in 1 .. Len(Popped(r)) : Popped(r)[i] = r[i + k]
<1>0. Len(r) \in Nat /\ RING_CAP \in Nat \ {0}
  BY LenProperties, RingAssumption
<1>1. CASE Len(r) < RING_CAP
  <2>1. Popped(r) = r
    BY <1>0, <1>1 DEF Popped
  <2> WITNESS 0 \in Nat
  <2> QED BY <1>0, <2>1
<1>2. CASE Len(r) = RING_CAP
  <2>1. Popped(r) = From(r, 2)
    BY <1>0, <1>2 DEF Popped
  <2>2. /\ From(r, 2) \in Seq(E)
        /\ Len(From(r, 2)) = IF 2 <= Len(r) THEN Len(r) - 2 + 1 ELSE 0
        /\ \A j \in 1 .. Len(From(r, 2)) : From(r, 2)[j] = r[2 + j - 1]
    BY FromProperties
  <2>3. Len(Popped(r)) + 1 = Len(r)
    BY <1>0, <1>2, <2>1, <2>2
  <2>4. \A i \in 1 .. Len(Popped(r)) : Popped(r)[i] = r[i + 1]
    <3>1. \A i \in 1 .. Len(Popped(r)) : 2 + i - 1 = i + 1
      OBVIOUS
    <3> QED BY <2>1, <2>2, <3>1
  <2> WITNESS 1 \in Nat
  <2> QED BY <2>1, <2>2, <2>3, <2>4
<1> QED BY <1>0, <1>1, <1>2

(* new consists of entries of r and then e, moved k places to the front.   *)
MovedUp(new, k, r, e) ==
  \A i \in 1 .. Len(new) :
    \/ i + k \in 1 .. Len(r) /\ new[i] = r[i + k]
    \/ i + k = Len(r) + 1 /\ new[i] = e

LEMMA PushedIsTail ==
  ASSUME NEW E, NEW r \in Seq(E), Len(r) <= RING_CAP, NEW now \in Nat,
         NEW f, [frame |-> f, wall |-> now] \in E
  PROVE  \E k \in Nat : MovedUp(Pushed(r, f, now), k, r, [frame |-> f, wall |-> now])
<1> DEFINE e == [frame |-> f, wall |-> now]
           p == Popped(r)
           a == Append(p, e)
<1>0. Len(r) \in Nat
  BY LenProperties
<1>1. PICK k \in Nat :
        /\ p \in Seq(E) /\ Len(p) + k = Len(r)
        /\ \A i \in 1 .. Len(p) : p[i] = r[i + k]
  BY PoppedIsTail
<1> HIDE DEF e, p
<1>2. Len(p) \in Nat
  BY <1>1, LenProperties
<1>3. /\ a \in Seq(E) /\ Len(a) = Len(p) + 1
      /\ \A i \in 1 .. Len(p) : a[i] = p[i]
      /\ a[Len(p) + 1] = e
  <2>1. e \in E
    BY DEF e
  <2> QED BY <1>1, <2>1, AppendProperties
<1>4. Pushed(r, f, now) = Trim(a, now)
  BY DEF Pushed, e, p
<1> HIDE DEF a
<1>5. PICK d \in 1 .. Len(a) + 1 : Trim(a, now) = From(a, d)
  BY <1>3, TrimIsTail
<1>6. d \in Nat \ {0}
  BY <1>2, <1>3
<1>7. /\ Len(From(a, d)) = IF d <= Len(a) THEN Len(a) - d + 1 ELSE 0
      /\ \A j \in 1 .. Len(From(a, d)) : From(a, d)[j] = a[d + j - 1]
  BY <1>3, <1>6, FromProperties
<1>8. k + d - 1 \in Nat
  BY <1>6
<1> WITNESS k + d - 1 \in Nat
<1> SUFFICES ASSUME NEW i \in 1 .. Len(Pushed(r, f, now))
             PROVE  \/ /\ i + (k + d - 1) \in 1 .. Len(r)
                       /\ Pushed(r, f, now)[i] = r[i + (k + d - 1)]
                    \/ /\ i + (k + d - 1) = Len(r) + 1
                       /\ Pushed(r, f, now)[i] = [frame |-> f, wall |-> now]
  BY DEF MovedUp
<1>9. Pushed(r, f, now)[i] = a[d + i - 1] /\ d + i - 1 \in 1 .. Len(p) + 1 /\ i \in Nat
  BY <1>2, <1>3, <1>4, <1>5, <1>6, <1>7
<1>10. CASE d + i - 1 \in 1 .. Len(p)
  <2>0. Len(p) + k = Len(r) /\ i \in Nat
    BY <1>1, <1>9
  <2>1. d + i - 1 + k = i + (k + d - 1) /\ i + (k + d - 1) \in 1 .. Len(r)
    BY <1>0, <1>2, <1>6, <1>10, <2>0
  <2>2. a[d + i - 1] = r[(d + i - 1) + k]
    <3>1. a[d + i - 1] = p[d + i - 1]
      BY <1>3, <1>10
    <3>2. p[d + i - 1] = r[(d + i - 1) + k]
      BY <1>1, <1>10
    <3> QED BY <3>1, <3>2
  <2>3. Pushed(r, f, now)[i] = a[d + i - 1]
    BY <1>9
  <2> QED BY <2>1, <2>2, <2>3
<1>11. CASE d + i - 1 = Len(p) + 1
  <2>0. Len(p) + k = Len(r) /\ i \in Nat
    BY <1>1, <1>9
  <2>1. i + (k + d - 1) = Len(r) + 1
    BY <1>0, <1>2, <1>6, <1>11, <2>0
  <2> QED BY <1>3, <1>9, <1>11, <2>1 DEF e
<1>12. d + i - 1 \in 1 .. Len(p) + 1
  BY <1>9
<1> HIDE DEF e
<1> QED BY <1>2, <1>6, <1>12, <1>10, <1>11

(* The flush starts inside the ring.                                       *)
LEMMA FlushStartInRing ==
  ASSUME NEW E, NEW r \in Seq(E), r # <<>>, NEW now \in Nat
  PROVE  FlushStart(r, now) \in 1 .. Len(r)
<1> DEFINE keys   == {i \in 1 .. Len(r) : r[i].frame.key}
           recent == {i \in keys : r[i].wall >= now - PreSec}
<1>0. Len(r) \in Nat \ {0}
  BY EmptySeq
<1>1. CASE recent # {}
  <2>1. recent \in SUBSET Nat
    BY <1>0
  <2>2. Least(recent) \in recent
    BY <1>1, <2>1, LeastIsLeast
  <2> QED BY <1>1, <2>2 DEF FlushStart
<1>2. CASE recent = {} /\ keys # {}
  <2>1. keys \in SUBSET (1 .. Len(r))
    OBVIOUS
  <2>2. Greatest(keys) \in keys
    BY <1>0, <1>2, <2>1, GreatestIsGreatest
  <2> QED BY <1>2, <2>2 DEF FlushStart
<1>3. CASE recent = {} /\ keys = {}
  BY <1>0, <1>3 DEF FlushStart
<1> QED BY <1>1, <1>2, <1>3

(* What an event clip starts with is nothing, or the frames of the ring's  *)
(* tail from a key frame on, without a gap.                                *)
LEMMA FlushIsTail ==
  ASSUME NEW F, NEW r \in Seq([frame : F, wall : Nat]), NEW now \in Nat
  PROVE  /\ FlushFrames(r, now) \in Seq(F)
         /\ FlushFrames(r, now) # <<>> =>
              \E k \in 1 .. Len(r) :
                /\ r[k].frame.key
                /\ Len(FlushFrames(r, now)) = Len(r) - k + 1
                /\ \A i \in 1 .. Len(r) - k + 1 :
                     FlushFrames(r, now)[i] = r[k + i - 1].frame
<1> DEFINE k == FlushStart(r, now)
           n == Len(r) - k + 1
           E == [frame : F, wall : Nat]
<1>1. CASE r = <<>> \/ ~r[k].frame.key
  <2>1. FlushFrames(r, now) = <<>>
    BY <1>1 DEF FlushFrames
  <2> QED BY <2>1, EmptySeq
<1>2. CASE r # <<>> /\ r[k].frame.key
  <2>1. k \in 1 .. Len(r) /\ Len(r) \in Nat
    BY <1>2, FlushStartInRing, LenProperties
  <2>2. FlushFrames(r, now) = [i \in 1 .. n |-> r[k + i - 1].frame]
    BY <1>2 DEF FlushFrames
  <2> HIDE DEF k
  <2>3. n \in Nat /\ \A i \in 1 .. n : k + i - 1 \in 1 .. Len(r)
    BY <2>1
  <2>4. \A i \in 1 .. n : r[k + i - 1].frame \in F
    <3>1. ASSUME NEW j \in 1 .. Len(r) PROVE r[j].frame \in F
      <4>1. r[j] \in E
        BY ElementOfSeq
      <4> QED BY <4>1
    <3> QED BY <2>3, <3>1
  <2> HIDE DEF n
  <2>5. [i \in 1 .. n |-> r[k + i - 1].frame] \in Seq(F)
    BY <2>3, <2>4
  <2>6. Len([i \in 1 .. n |-> r[k + i - 1].frame]) = n
    BY <2>3
  <2>7. \A i \in 1 .. n : FlushFrames(r, now)[i] = r[k + i - 1].frame
    BY <2>2
  <2> QED BY <1>2, <2>1, <2>2, <2>5, <2>6, <2>7 DEF n
<1> QED BY <1>1, <1>2

(* A ring with a key frame is flushed from one, and from none later than   *)
(* the first of the window.                                                *)
LEMMA FlushStartIsKey ==
  ASSUME NEW E, NEW r \in Seq(E), NEW now,
         NEW j \in 1 .. Len(r), r[j].frame.key
  PROVE  /\ FlushStart(r, now) \in 1 .. Len(r)
         /\ r[FlushStart(r, now)].frame.key
         /\ \A i \in 1 .. Len(r) :
              r[i].frame.key /\ r[i].wall >= now - PreSec => FlushStart(r, now) <= i
<1> DEFINE keys   == {i \in 1 .. Len(r) : r[i].frame.key}
           recent == {i \in keys : r[i].wall >= now - PreSec}
<1>0. Len(r) \in Nat /\ keys # {} /\ keys \in SUBSET (1 .. Len(r))
  BY LenProperties
<1>1. CASE recent # {}
  <2>1. recent \in SUBSET Nat
    BY <1>0
  <2>2. Least(recent) \in recent /\ \A n \in recent : Least(recent) <= n
    BY <1>1, <2>1, LeastIsLeast
  <2>3. FlushStart(r, now) = Least(recent)
    BY <1>1 DEF FlushStart
  <2> QED BY <2>2, <2>3
<1>2. CASE recent = {}
  <2>1. Greatest(keys) \in keys
    BY <1>0, GreatestIsGreatest
  <2>2. FlushStart(r, now) = Greatest(keys)
    BY <1>0, <1>2 DEF FlushStart
  <2>3. \A i \in 1 .. Len(r) : ~(r[i].frame.key /\ r[i].wall >= now - PreSec)
    BY <1>2
  <2> QED BY <2>1, <2>2, <2>3
<1> QED BY <1>1, <1>2
=============================================================================
