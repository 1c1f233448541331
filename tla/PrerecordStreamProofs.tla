----------------------- MODULE PrerecordStreamProofs -----------------------
(***************************************************************************)
(* For every capacity, window, frame rate and group of pictures: the ring  *)
(* is the tail of the stream, and an event clip starts whole.              *)
(***************************************************************************)
EXTENDS PrerecordStream, PrerecordRingProofs

FrameType == [id : Nat, key : BOOLEAN]
EntryType == [frame : FrameType, wall : Nat]

(* Types, and what the history records: consecutive frames, no later than  *)
(* the clock.                                                              *)
HistoryOK ==
  /\ now \in Nat
  /\ ring \in Seq(EntryType)
  /\ captured \in Seq(EntryType)
  /\ \A i \in 1 .. Len(captured) : captured[i].frame.id = i

(* RingIsTail, entry by entry.                                             *)
TailOK ==
  /\ Len(ring) <= Len(captured)
  /\ Len(ring) < RING_CAP
  /\ \A j \in 1 .. Len(ring) : ring[j] = captured[Dropped + j]
  /\ ring # <<>> => ring[1].wall >= ring[Len(ring)].wall - PreSec
  /\ \A i \in 1 .. Dropped :
       captured[i].wall < now - PreSec \/ Len(captured) - i >= RING_CAP - 1

Inv == HistoryOK /\ TailOK

LEMMA InitInv == Init => Inv
<1> SUFFICES ASSUME Init PROVE Inv
  OBVIOUS
<1> <<>> \in Seq(EntryType) /\ Len(<<>>) = 0
  BY EmptySeq
<1> QED BY RingAssumption DEF Init, Inv, HistoryOK, TailOK, Dropped

(* A frame is pushed: the tail grows by it and loses its stale front.      *)
LEMMA CaptureInv ==
  ASSUME Inv, NEW key \in BOOLEAN, Capture(key)
  PROVE  Inv'
<1> DEFINE e == [frame |-> Frame(key), wall |-> now]
           a == Append(ring, e)
           D == Dropped
<1>0. /\ RING_CAP \in Nat \ {0} /\ PreSec \in Nat /\ now \in Nat /\ now' = now
      /\ Len(ring) \in Nat /\ Len(captured) \in Nat
      /\ ring \in Seq(EntryType) /\ captured \in Seq(EntryType)
  BY RingAssumption, LenProperties DEF Inv, HistoryOK, Capture
<1>1. e \in EntryType /\ e.wall = now /\ e.frame.id = Len(captured) + 1
  BY <1>0 DEF EntryType, FrameType, Frame
<1>2. Popped(ring) = ring
  BY <1>0 DEF Popped, Inv, TailOK
<1>3. ring' = Trim(a, now) /\ captured' = Append(captured, e)
  BY <1>2 DEF Capture, Pushed
<1> HIDE DEF e
<1>4. /\ a \in Seq(EntryType) /\ Len(a) = Len(ring) + 1
      /\ \A j \in 1 .. Len(ring) : a[j] = ring[j]
      /\ a[Len(ring) + 1] = e
  BY <1>0, <1>1, AppendProperties
<1>5. /\ captured' \in Seq(EntryType) /\ Len(captured') = Len(captured) + 1
      /\ \A i \in 1 .. Len(captured) : captured'[i] = captured[i]
      /\ captured'[Len(captured) + 1] = e
  BY <1>0, <1>1, <1>3, AppendProperties
<1> HIDE DEF a
<1>6. PICK k \in 1 .. Len(a) + 1 :
        /\ Trim(a, now) = From(a, k)
        /\ k <= Len(a) => Stays(a, k, now)
        /\ \A i \in 1 .. k - 1 : ~Stays(a, i, now)
  BY <1>0, <1>4, TrimIsTail
<1>7. k \in Nat \ {0} /\ k <= Len(ring) + 2
  BY <1>0, <1>4
<1>8. /\ ring' \in Seq(EntryType)
      /\ Len(ring') = Len(ring) + 2 - k
      /\ \A j \in 1 .. Len(ring') : ring'[j] = a[k + j - 1]
  <2>1. /\ From(a, k) \in Seq(EntryType)
        /\ Len(From(a, k)) = IF k <= Len(a) THEN Len(a) - k + 1 ELSE 0
        /\ \A j \in 1 .. Len(From(a, k)) : From(a, k)[j] = a[k + j - 1]
    BY <1>4, <1>7, FromProperties
  <2> QED BY <2>1, <1>0, <1>3, <1>4, <1>6, <1>7
<1>9. D \in Nat /\ D = Len(captured) - Len(ring) /\ Dropped' = D + k - 1
  BY <1>0, <1>5, <1>7, <1>8 DEF Dropped, Inv, TailOK
<1> HIDE DEF D
<1>10. \A j \in 1 .. Len(a) : a[j] = captured'[D + j]
  <2> SUFFICES ASSUME NEW j \in 1 .. Len(a) PROVE a[j] = captured'[D + j]
    OBVIOUS
  <2>1. CASE j <= Len(ring)
    <3>1. ring[j] = captured[D + j] /\ D + j \in 1 .. Len(captured)
      BY <1>0, <1>9, <2>1 DEF Inv, TailOK, D
    <3> QED BY <1>0, <1>4, <1>5, <2>1, <3>1
  <2>2. CASE j = Len(ring) + 1
    BY <1>0, <1>4, <1>5, <1>9, <2>2
  <2> QED BY <1>0, <1>4, <2>1, <2>2
<1>11. HistoryOK'
  <2>1. \A i \in 1 .. Len(captured') : captured'[i].frame.id = i
    BY <1>0, <1>1, <1>5 DEF Inv, HistoryOK
  <2>2. now' \in Nat /\ ring' \in Seq(EntryType) /\ captured' \in Seq(EntryType)
    BY <1>0, <1>5, <1>8
  <2> HIDE DEF EntryType
  <2> QED BY ONLY <2>1, <2>2 DEF HistoryOK
<1>12. TailOK'
  <2>1. Len(ring') <= Len(captured') /\ Len(ring') \in Nat
    BY <1>0, <1>5, <1>7, <1>8, <1>9
  <2>2. Len(ring') < RING_CAP
    BY <1>0, <1>4, <1>6, <1>7, <1>8 DEF Stays
  <2>3. \A j \in 1 .. Len(ring') : ring'[j] = captured'[Dropped' + j]
    BY <1>0, <1>4, <1>7, <1>8, <1>9, <1>10
  <2>4. ASSUME ring' # <<>> PROVE ring'[1].wall >= ring'[Len(ring')].wall - PreSec
    <3>1. Len(ring') >= 1
      BY <1>8, <2>4, EmptySeq
    <3>2. ring'[1] = a[k] /\ ring'[Len(ring')] = e /\ k <= Len(a)
      BY <1>0, <1>4, <1>7, <1>8, <3>1
    <3>3. a[k].wall >= now - PreSec
      BY <1>6, <3>2 DEF Stays
    <3> QED BY <1>0, <1>1, <3>2, <3>3
  <2>5. ASSUME NEW i \in 1 .. Dropped'
        PROVE  captured'[i].wall < now - PreSec \/ Len(captured') - i >= RING_CAP - 1
    <3>1. CASE i <= D
      <4>1. i \in 1 .. Len(captured) /\ captured'[i] = captured[i]
        BY <1>0, <1>5, <1>9, <3>1
      <4>2. captured[i].wall < now - PreSec \/ Len(captured) - i >= RING_CAP - 1
        BY <1>9, <3>1 DEF Inv, TailOK, D
      <4> QED BY <1>0, <1>5, <4>1, <4>2
    <3>2. CASE i > D
      <4>1. i - D \in 1 .. k - 1 /\ i - D \in 1 .. Len(a)
        BY <1>0, <1>4, <1>7, <1>9, <3>2
      <4>2. ~Stays(a, i - D, now) /\ a[i - D] = captured'[i]
        BY <1>0, <1>6, <1>9, <1>10, <4>1
      <4>3. a[i - D] \in EntryType
        BY <1>4, <4>1, ElementOfSeq
      <4>4. a[i - D].wall \in Nat
        BY <4>3 DEF EntryType
      <4>5. \/ Len(a) - (i - D) + 1 >= RING_CAP
            \/ captured'[i].wall < now - PreSec
        BY <1>0, <1>4, <4>1, <4>2, <4>4 DEF Stays
      <4>6. Len(captured') - i = Len(a) - (i - D)
        BY <1>0, <1>4, <1>5, <1>9, <3>2
      <4> QED BY <1>0, <1>4, <4>1, <4>5, <4>6
    <3> QED BY <1>9, <3>1, <3>2
  <2> QED BY <1>0, <2>1, <2>2, <2>3, <2>4, <2>5 DEF TailOK
<1> QED BY <1>11, <1>12 DEF Inv

LEMMA NextInv == Inv /\ [Next]_vars => Inv'
<1> SUFFICES ASSUME Inv, [Next]_vars PROVE Inv'
  OBVIOUS
<1>0. RING_CAP \in Nat \ {0} /\ PreSec \in Nat /\ now \in Nat
  BY RingAssumption DEF Inv, HistoryOK
<1>1. CASE \E key \in BOOLEAN : Capture(key)
  BY <1>1, CaptureInv
<1>2. CASE Flush
  <2>1. <<>> \in Seq(EntryType) /\ Len(<<>>) = 0
    BY EmptySeq
  <2> QED BY <1>0, <1>2, <2>1 DEF Flush, Inv, HistoryOK, TailOK, Dropped
<1>3. CASE Tick
  <2>1. /\ now' = now + 1 /\ ring' = ring /\ captured' = captured
        /\ Dropped' = Dropped /\ Len(ring) \in Nat /\ Len(captured) \in Nat
    BY <1>3, LenProperties DEF Tick, Dropped, Inv, HistoryOK
  <2>2. HistoryOK'
    BY <1>0, <2>1 DEF Inv, HistoryOK
  <2>3. ASSUME NEW i \in 1 .. Dropped
        PROVE  captured[i].wall < now + 1 - PreSec \/ Len(captured) - i >= RING_CAP - 1
    <3>1. captured[i].wall < now - PreSec \/ Len(captured) - i >= RING_CAP - 1
      BY DEF Inv, TailOK
    <3>2. captured[i] \in EntryType
      <4>1. i \in 1 .. Len(captured)
        BY <2>1 DEF Dropped
      <4> QED BY <4>1, ElementOfSeq DEF Inv, HistoryOK
    <3>3. captured[i].wall \in Nat
      BY <3>2 DEF EntryType
    <3> QED BY <1>0, <3>1, <3>3
  <2>4. /\ Len(ring) <= Len(captured)
        /\ Len(ring) < RING_CAP
        /\ \A j \in 1 .. Len(ring) : ring[j] = captured[Dropped + j]
        /\ ring # <<>> => ring[1].wall >= ring[Len(ring)].wall - PreSec
    BY DEF Inv, TailOK
  <2>5. TailOK'
    <3>1. \A i \in 1 .. Dropped' :
            captured'[i].wall < now' - PreSec \/ Len(captured') - i >= RING_CAP - 1
      <4>1. SUFFICES ASSUME NEW i \in 1 .. Dropped'
                     PROVE  captured'[i].wall < now' - PreSec
                            \/ Len(captured') - i >= RING_CAP - 1
        OBVIOUS
      <4>2. i \in 1 .. Dropped
        BY <2>1
      <4>3. captured[i].wall < now + 1 - PreSec \/ Len(captured) - i >= RING_CAP - 1
        BY <2>3, <4>2
      <4>4. captured'[i].wall = captured[i].wall /\ Len(captured') = Len(captured)
            /\ now' = now + 1
        BY <2>1
      <4> QED BY <1>0, <2>1, <4>3, <4>4
    <3>2. /\ Len(ring') <= Len(captured')
          /\ Len(ring') < RING_CAP
          /\ \A j \in 1 .. Len(ring') : ring'[j] = captured'[Dropped' + j]
          /\ ring' # <<>> => ring'[1].wall >= ring'[Len(ring')].wall - PreSec
      BY <2>1, <2>4
    <3> QED BY <3>1, <3>2 DEF TailOK
  <2> QED BY <2>2, <2>5 DEF Inv
<1>4. CASE UNCHANGED vars
  BY <1>4 DEF vars, Inv, HistoryOK, TailOK, Dropped
<1> QED BY <1>1, <1>2, <1>3, <1>4 DEF Next

(* The invariant implies what the model-checked runs state.                *)
LEMMA InvRingIsTail == Inv => RingIsTail
<1> SUFFICES ASSUME Inv PROVE RingIsTail
  OBVIOUS
<1>0. /\ Len(ring) \in Nat /\ Len(captured) \in Nat /\ Dropped \in Nat
      /\ ring \in Seq(EntryType) /\ captured \in Seq(EntryType)
  BY LenProperties DEF Inv, HistoryOK, TailOK, Dropped
<1>1. /\ From(captured, Dropped + 1) \in Seq(EntryType)
      /\ Len(From(captured, Dropped + 1)) = Len(ring)
      /\ \A j \in 1 .. Len(ring) : From(captured, Dropped + 1)[j] = captured[Dropped + j]
  <2>1. Dropped + 1 \in Nat \ {0} /\ Len(captured) = Dropped + Len(ring)
    BY <1>0 DEF Dropped
  <2>2. /\ From(captured, Dropped + 1) \in Seq(EntryType)
        /\ Len(From(captured, Dropped + 1)) =
             IF Dropped + 1 <= Len(captured) THEN Len(captured) - (Dropped + 1) + 1 ELSE 0
        /\ \A j \in 1 .. Len(From(captured, Dropped + 1)) :
             From(captured, Dropped + 1)[j] = captured[(Dropped + 1) + j - 1]
    BY <1>0, <2>1, FromProperties
  <2> QED BY <1>0, <2>1, <2>2
<1>2. \A j \in 1 .. Len(ring) : ring[j] = From(captured, Dropped + 1)[j]
  BY <1>1 DEF Inv, TailOK
<1>3. ring = From(captured, Dropped + 1)
  BY <1>0, <1>1, <1>2, SeqEqual
<1> QED BY <1>0, <1>3 DEF RingIsTail, Inv, TailOK

LEMMA InvStartIsWhole == Inv => StartIsWhole
<1> SUFFICES ASSUME Inv, Start # <<>> PROVE StartIsWhole
  BY DEF StartIsWhole
<1>0. /\ Len(ring) \in Nat /\ Len(captured) \in Nat /\ Dropped \in Nat
      /\ Len(captured) = Dropped + Len(ring)
      /\ ring \in Seq([frame : FrameType, wall : Nat]) /\ now \in Nat
  BY LenProperties DEF Inv, HistoryOK, TailOK, Dropped, EntryType
<1>1. PICK k \in 1 .. Len(ring) :
        /\ ring[k].frame.key
        /\ Len(Start) = Len(ring) - k + 1
        /\ \A i \in 1 .. Len(ring) - k + 1 : Start[i] = ring[k + i - 1].frame
  <2>1. FlushFrames(ring, now) # <<>> =>
          \E k \in 1 .. Len(ring) :
            /\ ring[k].frame.key
            /\ Len(FlushFrames(ring, now)) = Len(ring) - k + 1
            /\ \A i \in 1 .. Len(ring) - k + 1 :
                 FlushFrames(ring, now)[i] = ring[k + i - 1].frame
    <3> QED BY ONLY <1>0, FlushIsTail, ZenonT(40)
  <2>2. FlushFrames(ring, now) # <<>>
    BY DEF Start
  <2> QED BY ONLY <2>1, <2>2, Zenon DEF Start
<1>2. \A j \in 1 .. Len(ring) : ring[j].frame = captured[Dropped + j].frame
                                /\ ring[j].frame.id = Dropped + j
  <2> SUFFICES ASSUME NEW j \in 1 .. Len(ring)
               PROVE  /\ ring[j].frame = captured[Dropped + j].frame
                      /\ ring[j].frame.id = Dropped + j
    OBVIOUS
  <2>1. ring[j] = captured[Dropped + j]
    BY DEF Inv, TailOK
  <2>2. Dropped + j \in 1 .. Len(captured)
    BY <1>0
  <2>3. captured[Dropped + j].frame.id = Dropped + j
    BY <2>2 DEF Inv, HistoryOK
  <2> QED BY <2>1, <2>3
<1>3. Start[1] = ring[k].frame /\ Start[Len(Start)] = ring[Len(ring)].frame
  BY <1>0, <1>1
<1>4. ASSUME NEW i \in 1 .. Len(Start) PROVE Start[i].id = Start[1].id + i - 1
  <2>1. k + i - 1 \in 1 .. Len(ring) /\ Start[i] = ring[k + i - 1].frame
    BY <1>0, <1>1
  <2>2. Start[i].id = Dropped + (k + i - 1) /\ Start[1].id = Dropped + k
    BY <1>2, <1>3, <2>1
  <2> QED BY <1>0, <2>2
<1>5. Start[Len(Start)] = captured[Len(captured)].frame
  <2>1. Len(ring) \in 1 .. Len(ring)
    BY <1>0
  <2> QED BY <1>0, <1>2, <1>3, <2>1
<1> QED BY <1>1, <1>3, <1>4, <1>5 DEF StartIsWhole

(* At any time the ring is the tail of what on_packet was given, and holds *)
(* everything that is neither too old nor too many.                        *)
THEOREM RingIsAlwaysTail == Spec => []RingIsTail
<1>1. Init => Inv
  BY InitInv
<1>2. Inv /\ [Next]_vars => Inv'
  BY NextInv
<1>3. Inv => RingIsTail
  BY InvRingIsTail
<1> QED BY <1>1, <1>2, <1>3, PTL DEF Spec

(* Whenever an event flushes the ring, the clip starts with a key frame    *)
(* and runs up to the newest frame without a gap.                          *)
THEOREM StartIsAlwaysWhole == Spec => []StartIsWhole
<1>1. Init => Inv
  BY InitInv
<1>2. Inv /\ [Next]_vars => Inv'
  BY NextInv
<1>3. Inv => StartIsWhole
  BY InvStartIsWhole
<1> QED BY <1>1, <1>2, <1>3, PTL DEF Spec

-----------------------------------------------------------------------------
(* The start of a clip under a steady stream                               *)

(* The ring has room for a group of pictures, and PreSec seconds of a      *)
(* steady stream are one.                                                  *)
RingReachesKey == Gop < RING_CAP /\ Gop <= Fps * PreSec + 1

(* The last key frame is sinceKey frames back.  While nothing has stalled, *)
(* each second since a frame was captured has brought Fps more, and no     *)
(* frame is dropped before Gop others have followed it.                    *)
Steady ==
  /\ thisSec \in Nat /\ sinceKey \in 0 .. Gop
  /\ captured # <<>> => sinceKey # 0
  /\ sinceKey \in 1 .. Len(captured) => captured[Len(captured) + 1 - sinceKey].frame.key
  /\ \A i \in 1 .. Len(captured) : captured[i].wall <= now
  /\ ~stalled =>
       /\ \A i \in 1 .. Len(captured) :
            captured[i].wall < now =>
              Len(captured) - i >= (now - captured[i].wall - 1) * Fps + thisSec
       /\ \A i \in 1 .. Dropped : Len(captured) - i >= Gop

LEMMA Seconds ==
  ASSUME NEW n \in Nat
  PROVE  /\ n * Fps \in Nat /\ (n + 1) * Fps = n * Fps + Fps
         /\ n >= PreSec => n * Fps >= PreSec * Fps
         /\ PreSec * Fps \in Nat /\ Fps * PreSec = PreSec * Fps
<1>1. Fps \in Nat /\ PreSec \in Nat
  BY StreamAssumption, RingAssumption
<1>2. n >= PreSec => n * Fps >= PreSec * Fps
  BY <1>1
<1> QED BY <1>1, <1>2

LEMMA CaptureSteady ==
  ASSUME RingReachesKey, Inv, Inv', Steady, NEW key \in BOOLEAN, Capture(key)
  PROVE  Steady'
<1> DEFINE e == [frame |-> Frame(key), wall |-> now]
<1>0. /\ Fps \in Nat \ {0} /\ Gop \in Nat \ {0} /\ RING_CAP \in Nat /\ PreSec \in Nat
      /\ now \in Nat /\ now' = now /\ stalled' = stalled
      /\ thisSec \in Nat /\ sinceKey \in Nat /\ thisSec' = thisSec + 1
      /\ Len(captured) \in Nat /\ captured \in Seq(EntryType)
  BY StreamAssumption, RingAssumption, LenProperties DEF Inv, HistoryOK, Steady, Capture
<1>1. e \in EntryType /\ e.wall = now /\ e.frame.key = key
  BY <1>0 DEF EntryType, FrameType, Frame
<1>2. captured' = Append(captured, e)
  BY DEF Capture
<1> HIDE DEF e
<1>3. /\ Len(captured') = Len(captured) + 1
      /\ \A i \in 1 .. Len(captured) : captured'[i] = captured[i]
      /\ captured'[Len(captured) + 1] = e
      /\ \A i \in 1 .. Len(captured') : i \in 1 .. Len(captured) \/ i = Len(captured) + 1
  BY <1>0, <1>1, <1>2, AppendProperties
<1>4. \A i \in 1 .. Len(captured) : captured[i].wall \in Nat
  <2>1. \A i \in 1 .. Len(captured) : captured[i] \in EntryType
    BY <1>0, ElementOfSeq
  <2> QED BY <2>1 DEF EntryType
<1>5. sinceKey' = (IF key THEN 1 ELSE sinceKey + 1) /\ (~key => sinceKey \notin {0, Gop})
  BY DEF Capture
<1>6. sinceKey' \in 1 .. Gop
  BY <1>0, <1>5 DEF Steady
<1>7. sinceKey' \in 1 .. Len(captured') => captured'[Len(captured') + 1 - sinceKey'].frame.key
  <2>1. CASE key
    <3>1. Len(captured') + 1 - sinceKey' = Len(captured) + 1
      BY <1>0, <1>3, <1>5, <2>1
    <3>2. captured'[Len(captured') + 1 - sinceKey'] = e
      BY <1>3, <3>1
    <3> QED BY <1>1, <2>1, <3>2
  <2>2. CASE ~key
    <3> SUFFICES ASSUME sinceKey' \in 1 .. Len(captured')
                 PROVE  captured'[Len(captured') + 1 - sinceKey'].frame.key
      OBVIOUS
    <3>1. /\ sinceKey \in 1 .. Len(captured)
          /\ Len(captured') + 1 - sinceKey' = Len(captured) + 1 - sinceKey
          /\ Len(captured) + 1 - sinceKey \in 1 .. Len(captured)
      BY <1>0, <1>3, <1>5, <2>2
    <3>2. captured[Len(captured) + 1 - sinceKey].frame.key
      BY <3>1 DEF Steady
    <3> QED BY <1>3, <3>1, <3>2
  <2> QED BY <2>1, <2>2
<1>8. \A i \in 1 .. Len(captured') : captured'[i].wall <= now'
  BY <1>0, <1>1, <1>3 DEF Steady
<1>9. ASSUME ~stalled, NEW i \in 1 .. Len(captured'), captured'[i].wall < now
      PROVE  Len(captured') - i >= (now - captured'[i].wall - 1) * Fps + thisSec'
  <2>1. i \in 1 .. Len(captured)
    BY <1>0, <1>1, <1>3, <1>9
  <2>2. captured'[i] = captured[i] /\ captured[i].wall \in Nat
    BY <1>3, <1>4, <2>1
  <2>3. Len(captured) - i >= (now - captured[i].wall - 1) * Fps + thisSec
    BY <1>9, <2>1, <2>2 DEF Steady
  <2>4. (now - captured[i].wall - 1) * Fps \in Nat
    <3>1. now - captured[i].wall - 1 \in Nat
      BY <1>0, <1>9, <2>2
    <3> QED BY <3>1, Seconds
  <2> DEFINE a == (now - captured[i].wall - 1) * Fps
  <2>5. a \in Nat /\ Len(captured) - i >= a + thisSec
        /\ (now - captured'[i].wall - 1) * Fps = a
    BY <2>2, <2>3, <2>4
  <2> HIDE DEF a
  <2>6. Len(captured') - i >= a + thisSec'
    BY <1>0, <1>3, <2>1, <2>5
  <2> QED BY <2>5, <2>6
<1>10. ASSUME ~stalled, NEW i \in 1 .. Dropped'
       PROVE  Len(captured') - i >= Gop
  <2>1. i \in 1 .. Len(captured')
    BY <1>0, <1>3, LenProperties DEF Inv, TailOK, HistoryOK, Dropped
  <2>2. captured'[i].wall < now - PreSec \/ Len(captured') - i >= RING_CAP - 1
    BY <1>0 DEF Inv, TailOK
  <2>3. CASE Len(captured') - i >= RING_CAP - 1
    BY <1>0, <1>3, <2>1, <2>3 DEF RingReachesKey
  <2>4. CASE captured'[i].wall < now - PreSec
    <3> DEFINE w == captured'[i].wall
    <3>1. w \in Nat
      <4>1. captured' \in Seq(EntryType)
        BY DEF Inv, HistoryOK
      <4>2. captured'[i] \in EntryType
        BY <2>1, <4>1, ElementOfSeq
      <4> QED BY <4>2 DEF EntryType
    <3>2. w < now /\ now - w - 1 \in Nat /\ now - w - 1 >= PreSec
      BY <1>0, <2>4, <3>1
    <3>3. Len(captured') - i >= (now - w - 1) * Fps + thisSec'
      BY <1>9, <1>10, <2>1, <3>2
    <3> HIDE DEF w
    <3>4. (now - w - 1) * Fps >= PreSec * Fps /\ (now - w - 1) * Fps \in Nat
          /\ PreSec * Fps \in Nat /\ Fps * PreSec = PreSec * Fps
      BY <3>2, Seconds
    <3> DEFINE a == (now - w - 1) * Fps
               b == PreSec * Fps
    <3>5. a \in Nat /\ b \in Nat /\ a >= b /\ Gop <= b + 1 /\ Len(captured') - i >= a + thisSec'
      BY <3>3, <3>4 DEF RingReachesKey
    <3> HIDE DEF a, b
    <3> QED BY <1>0, <1>3, <2>1, <3>5
  <2> QED BY <2>2, <2>3, <2>4
<1>11. /\ thisSec' \in Nat /\ sinceKey' \in 0 .. Gop /\ sinceKey' # 0
  BY <1>0, <1>6
<1> QED BY <1>0, <1>7, <1>8, <1>9, <1>10, <1>11 DEF Steady

LEMMA NextSteady ==
  ASSUME RingReachesKey
  PROVE  Inv /\ Inv' /\ Steady /\ [Next]_vars => Steady'
<1> SUFFICES ASSUME Inv, Inv', Steady, [Next]_vars PROVE Steady'
  OBVIOUS
<1>0. /\ Fps \in Nat \ {0} /\ now \in Nat /\ thisSec \in Nat /\ Len(captured) \in Nat
      /\ captured \in Seq(EntryType) /\ Len(<<>>) = 0
  BY StreamAssumption, LenProperties, EmptySeq DEF Inv, HistoryOK, Steady
<1>1. CASE \E key \in BOOLEAN : Capture(key)
  BY <1>1, CaptureSteady
<1>2. CASE Flush
  <2>1. /\ captured' = <<>> /\ ring' = <<>> /\ Len(captured') = 0 /\ Dropped' = 0
        /\ thisSec' = thisSec /\ sinceKey' = sinceKey
    BY <1>0, <1>2 DEF Flush, Dropped
  <2>2. 1 .. Len(captured') = {} /\ 1 .. Dropped' = {}
    BY <2>1
  <2> QED BY <2>1, <2>2 DEF Steady
<1>3. CASE Tick
  <2>1. /\ now' = now + 1 /\ thisSec' = 0 /\ sinceKey' = sinceKey /\ captured' = captured
        /\ Dropped' = Dropped
    BY <1>3 DEF Tick, Dropped
  <2>2. ~stalled' => ~stalled /\ ~(thisSec < Fps)
    BY <1>3 DEF Tick
  <2>3. \A i \in 1 .. Len(captured) : captured[i].wall \in Nat /\ captured[i].wall <= now
    <3>1. \A i \in 1 .. Len(captured) : captured[i] \in EntryType
      BY <1>0, ElementOfSeq
    <3>2. \A i \in 1 .. Len(captured) : captured[i].wall \in Nat
      BY <3>1 DEF EntryType
    <3> QED BY <3>2 DEF Steady
  <2>4. ASSUME ~stalled', NEW i \in 1 .. Len(captured)
        PROVE  Len(captured) - i >= (now + 1 - captured[i].wall - 1) * Fps + 0
    <3> DEFINE w == captured[i].wall
    <3>1. w \in Nat /\ w <= now
      BY <2>3
    <3>2. CASE w = now
      <4>1. now + 1 - w - 1 = 0
        BY <1>0, <3>2
      <4>2. 0 * Fps = 0
        BY <1>0
      <4> QED BY <1>0, <4>1, <4>2
    <3>3. CASE w < now
      <4>1. Len(captured) - i >= (now - w - 1) * Fps + thisSec
        BY <2>2, <2>4, <3>3 DEF Steady
      <4> HIDE DEF w
      <4>2. PICK n \in Nat : n = now - w - 1 /\ n + 1 = now + 1 - w - 1
        BY <1>0, <3>1, <3>3
      <4>3. n * Fps \in Nat /\ (n + 1) * Fps = n * Fps + Fps
        BY Seconds
      <4>4. thisSec >= Fps
        BY <1>0, <2>2, <2>4
      <4> DEFINE a == n * Fps
      <4>5. a \in Nat /\ (n + 1) * Fps = a + Fps /\ Len(captured) - i >= a + thisSec
        BY <4>1, <4>2, <4>3
      <4> HIDE DEF a
      <4>6. Len(captured) - i >= (a + Fps) + 0
        BY <1>0, <4>4, <4>5
      <4>7. (now + 1 - w - 1) * Fps = a + Fps
        BY <4>2, <4>5
      <4> QED BY <4>6, <4>7 DEF w
    <3> QED BY <1>0, <3>1, <3>2, <3>3
  <2>5. ~stalled' => \A i \in 1 .. Dropped : Len(captured) - i >= Gop
    BY <2>2 DEF Steady
  <2>6. \A i \in 1 .. Len(captured) : captured[i].wall <= now + 1
    BY <1>0, <2>3
  <2>7. /\ sinceKey \in 0 .. Gop
        /\ captured # <<>> => sinceKey # 0
        /\ sinceKey \in 1 .. Len(captured) => captured[Len(captured) + 1 - sinceKey].frame.key
    BY DEF Steady
  <2>8. thisSec' \in Nat
    BY <2>1
  <2>9. /\ sinceKey' \in 0 .. Gop
        /\ captured' # <<>> => sinceKey' # 0
        /\ sinceKey' \in 1 .. Len(captured')
             => captured'[Len(captured') + 1 - sinceKey'].frame.key
    BY <2>1, <2>7
  <2>10. \A i \in 1 .. Len(captured') : captured'[i].wall <= now'
    BY <2>1, <2>6
  <2>11. ASSUME ~stalled', NEW i \in 1 .. Len(captured')
         PROVE  Len(captured') - i >= (now' - captured'[i].wall - 1) * Fps + thisSec'
    <3>1. /\ i \in 1 .. Len(captured) /\ Len(captured') = Len(captured)
          /\ captured'[i] = captured[i] /\ now' = now + 1 /\ thisSec' = 0
      BY <2>1, <2>11
    <3>2. Len(captured) - i >= (now + 1 - captured[i].wall - 1) * Fps + 0
      BY <2>4, <2>11, <3>1
    <3>3. captured[i].wall \in Nat /\ captured[i].wall <= now
      BY <2>3, <3>1
    <3>4. PICK n \in Nat : n = now + 1 - captured[i].wall - 1
      BY <1>0, <3>3
    <3>5. now' - captured'[i].wall - 1 = n
      BY <1>0, <3>1, <3>3, <3>4
    <3>6. Len(captured) - i >= n * Fps + 0
      BY <3>2, <3>4
    <3> QED BY <3>1, <3>5, <3>6
  <2>12. ~stalled' => \A i \in 1 .. Dropped' : Len(captured') - i >= Gop
    BY <2>1, <2>5
  <2> QED BY <2>8, <2>9, <2>10, <2>11, <2>12 DEF Steady
<1>4. CASE UNCHANGED vars
  BY <1>4 DEF vars, Steady, Dropped
<1> QED BY <1>1, <1>2, <1>3, <1>4 DEF Next

LEMMA InitSteady == Init => Steady
<1> SUFFICES ASSUME Init PROVE Steady
  OBVIOUS
<1>1. Len(<<>>) = 0 /\ Gop \in Nat
  BY EmptySeq, StreamAssumption
<1>2. /\ captured = <<>> /\ Len(captured) = 0 /\ Dropped = 0 /\ thisSec = 0 /\ sinceKey = 0
  BY <1>1 DEF Init, Dropped
<1>3. 1 .. Len(captured) = {} /\ 1 .. Dropped = {} /\ 0 \in 0 .. Gop
  BY <1>1, <1>2
<1> QED BY <1>2, <1>3 DEF Steady

(* The ring then holds a key frame.                                        *)
LEMMA SteadyHasKey ==
  ASSUME Inv, Steady, ~stalled, Len(captured) >= Gop
  PROVE  \E j \in 1 .. Len(ring) : ring[j].frame.key
<1> DEFINE i == Len(captured) + 1 - sinceKey
<1>0. /\ Gop \in Nat \ {0} /\ Len(captured) \in Nat /\ Len(ring) \in Nat
      /\ Dropped \in Nat /\ Len(captured) = Dropped + Len(ring)
  BY StreamAssumption, LenProperties DEF Inv, HistoryOK, TailOK, Dropped
<1>1. captured # <<>>
  BY <1>0, EmptySeq
<1>2. sinceKey \in 1 .. Gop
  BY <1>0, <1>1 DEF Steady
<1>3. sinceKey \in 1 .. Len(captured) /\ i \in 1 .. Len(captured) /\ Len(captured) - i < Gop
  BY <1>0, <1>2
<1>4. captured[i].frame.key
  BY <1>3 DEF Steady
<1>5. i \notin 1 .. Dropped
  <2> SUFFICES ASSUME i \in 1 .. Dropped PROVE FALSE
    OBVIOUS
  <2>1. Len(captured) - i >= Gop
    BY DEF Steady
  <2> HIDE DEF i
  <2> QED BY <1>0, <1>3, <2>1
<1> HIDE DEF i
<1>6. i - Dropped \in 1 .. Len(ring) /\ Dropped + (i - Dropped) = i
  BY <1>0, <1>3, <1>5
<1>7. ring[i - Dropped] = captured[i]
  BY <1>6 DEF Inv, TailOK
<1> QED BY <1>4, <1>6, <1>7

LEMMA SteadyNoLostStart == Inv /\ Steady => NoLostStart
<1> SUFFICES ASSUME Inv, Steady, ~stalled, Len(captured) >= Gop
             PROVE  /\ Start # <<>>
                    /\ \A i \in 1 .. Len(ring) :
                         ring[i].frame.key /\ ring[i].wall >= now - PreSec
                           => Start[1].id <= ring[i].frame.id
  BY DEF NoLostStart
<1>0. /\ Len(ring) \in Nat /\ Len(captured) \in Nat /\ Dropped \in Nat
      /\ Len(captured) = Dropped + Len(ring)
      /\ ring \in Seq(EntryType) /\ now \in Nat
  BY LenProperties DEF Inv, HistoryOK, TailOK, Dropped
<1>1. PICK j \in 1 .. Len(ring) : ring[j].frame.key
  BY SteadyHasKey
<1>2. ring # <<>>
  BY <1>0, <1>1, EmptySeq
<1> DEFINE s == FlushStart(ring, now)
<1>3. /\ s \in 1 .. Len(ring) /\ ring[s].frame.key
      /\ \A i \in 1 .. Len(ring) :
           ring[i].frame.key /\ ring[i].wall >= now - PreSec => s <= i
  BY <1>0, <1>1, FlushStartIsKey
<1> DEFINE n == Len(ring) - s + 1
<1>4. Start = [i \in 1 .. n |-> ring[s + i - 1].frame]
  BY <1>2, <1>3 DEF Start, FlushFrames
<1> HIDE DEF s
<1>5. n \in Nat \ {0} /\ 1 \in 1 .. n /\ s + 1 - 1 = s
  BY <1>0, <1>3
<1> HIDE DEF n
<1>6. Start[1] = ring[s].frame /\ Len(Start) = n
  BY <1>4, <1>5
<1>7. Start # <<>>
  BY <1>5, <1>6, EmptySeq
<1>8. \A i \in 1 .. Len(ring) : ring[i].frame.id = Dropped + i
  <2> SUFFICES ASSUME NEW i \in 1 .. Len(ring) PROVE ring[i].frame.id = Dropped + i
    OBVIOUS
  <2>1. ring[i] = captured[Dropped + i] /\ Dropped + i \in 1 .. Len(captured)
    BY <1>0 DEF Inv, TailOK
  <2> QED BY <2>1 DEF Inv, HistoryOK
<1>9. ASSUME NEW i \in 1 .. Len(ring), ring[i].frame.key, ring[i].wall >= now - PreSec
      PROVE  Start[1].id <= ring[i].frame.id
  <2>1. s <= i
    BY <1>3, <1>9
  <2>2. Start[1].id = Dropped + s /\ ring[i].frame.id = Dropped + i
    BY <1>3, <1>6, <1>8
  <2> QED BY <1>0, <1>3, <2>1, <2>2
<1> QED BY <1>7, <1>9

(* If the ring reaches back to a key frame, an event finds a start once    *)
(* the stream has run for a group of pictures, and the earliest there is.  *)
THEOREM StartIsNeverLost ==
  ASSUME RingReachesKey
  PROVE  Spec => []NoLostStart
<1>1. Init => Inv /\ Steady
  BY InitInv, InitSteady
<1>2. Inv /\ Steady /\ [Next]_vars => (Inv /\ Steady)'
  BY NextInv, NextSteady
<1>3. Inv /\ Steady => NoLostStart
  BY SteadyNoLostStart
<1> QED BY <1>1, <1>2, <1>3, PTL DEF Spec
=============================================================================
