---------------------------- MODULE RecordProofs ----------------------------
(***************************************************************************)
(* The recorder for any number of control threads, any queue and ring      *)
(* sizes, and any choice of operations that may overlap a close.           *)
(***************************************************************************)
EXTENDS RecordService, PrerecordRingProofs

-----------------------------------------------------------------------------
(* Types of the helpers                                                    *)

LEMMA Constants ==
  /\ WQ_CAP \in Nat \ {0} /\ RING_CAP \in Nat \ {0}
  /\ SegmentSec \in Nat /\ QuietSec \in Nat /\ RunSec \in Nat /\ ExtendSec \in Nat
  /\ InitOutcomes \subseteq {"ok", "nowriter", "nolistener"}
  /\ OpenOutcomes \subseteq {"ok", "dir", "stage", "init"}
  /\ PromoteOutcomes \subseteq {"moved", "kept", "partial"}
  /\ Venc \in Threads
BY RecordAssumption, RingAssumption DEF Threads

LEMMA ValueTypes ==
  /\ NoFrame \in FrameType /\ NoEntry \in EntryType
  /\ NoStage \in StageType /\ NoClip \in ClipType /\ NoLoc \in LocType
  /\ <<>> \in Seq(EntryType) /\ <<>> \in Seq(RingType) /\ <<>> \in Seq(FrameType)
  /\ Len(<<>>) = 0
<1>1. NoFrame \in FrameType /\ NoStage \in StageType /\ NoClip \in ClipType
  BY DEF NoFrame, FrameType, NoStage, StageName, StageType, NoClip, ClipName,
         ClipType, Sources
<1>2. NoEntry \in EntryType
  BY <1>1 DEF NoEntry, EntryType
<1>3. NoLoc \in LocType
  BY <1>1 DEF NoLoc, LocType
<1> QED BY <1>1, <1>2, <1>3, EmptySeq

LEMMA DiskPut ==
  ASSUME NEW d, DiskOK(d), NEW p \in StageType \cup ClipType, NEW f \in FileType
  PROVE  DiskOK(Put(d, p, f))
BY DEF DiskOK, Put

LEMMA DiskWithout ==
  ASSUME NEW d, DiskOK(d), NEW S
  PROVE  DiskOK(Without(d, S))
BY DEF DiskOK, Without

LEMMA FilesHaveSegs ==
  ASSUME NEW d, DiskOK(d), NEW S
  PROVE  SegsOf(d, S) \in SUBSET Nat
BY DEF DiskOK, SegsOf, FileType

LEMMA SealedType ==
  ASSUME DiskOK(disk)
  PROVE  DiskOK(Sealed)
<1>1. CASE mux \in DOMAIN disk
  <2>1. disk[mux] \in FileType
    BY <1>1 DEF DiskOK
  <2>2. [disk[mux] EXCEPT !.sealed = TRUE] \in FileType
    BY <2>1 DEF FileType
  <2>3. DOMAIN [disk EXCEPT ![mux].sealed = TRUE] = DOMAIN disk
    OBVIOUS
  <2>4. \A p \in DOMAIN disk : [disk EXCEPT ![mux].sealed = TRUE][p] =
           IF p = mux THEN [disk[mux] EXCEPT !.sealed = TRUE] ELSE disk[p]
    OBVIOUS
  <2> QED BY <1>1, <2>2, <2>3, <2>4 DEF DiskOK, Sealed
<1>2. CASE mux \notin DOMAIN disk
  BY <1>2 DEF Sealed
<1> QED BY <1>1, <1>2

LEMMA ClosedType ==
  ASSUME DiskOK(disk), gone \in SUBSET Nat,
         NEW l \in LocType, NEW o \in PromoteOutcomes
  PROVE  /\ DiskOK(Closed(l, o).disk)
         /\ Closed(l, o).gone \in SUBSET Nat
         /\ Closed(l, o).stage = NoStage
         /\ Closed(l, o).active = FALSE
<1> DEFINE promotes == ~l.empty /\ l.stage \in DOMAIN disk /\ o # "kept"
           broken   == [disk[l.stage] EXCEPT !.frames = <<>>, !.sealed = FALSE]
<1>1. l.clip \in StageType \cup ClipType /\ l.empty \in BOOLEAN
  BY DEF LocType
<1>2. DiskOK(Without(disk, {l.stage})) /\ SegsOf(disk, {l.clip}) \in SUBSET Nat
  BY DiskWithout, FilesHaveSegs
<1>3. ASSUME promotes PROVE disk[l.stage] \in FileType /\ broken \in FileType
  <2>1. disk[l.stage] \in FileType
    BY <1>3 DEF DiskOK
  <2>2. <<>> \in Seq(EntryType)
    BY ValueTypes
  <2> QED BY <2>1, <2>2 DEF FileType
<1>4. ASSUME promotes
      PROVE  /\ DiskOK(Put(Without(disk, {l.stage}), l.clip, disk[l.stage]))
             /\ DiskOK(Put(disk, l.clip, broken))
  BY <1>1, <1>2, <1>3, <1>4, DiskPut
<1>5. Closed(l, o).disk =
        CASE l.empty -> Without(disk, {l.stage})
          [] ~l.empty /\ ~promotes -> disk
          [] promotes /\ o = "moved" ->
               Put(Without(disk, {l.stage}), l.clip, disk[l.stage])
          [] promotes /\ o = "partial" -> Put(disk, l.clip, broken)
  BY DEF Closed
<1>6. Closed(l, o).gone = IF promotes THEN gone \cup SegsOf(disk, {l.clip}) ELSE gone
  BY DEF Closed
<1>7. Closed(l, o).stage = NoStage /\ Closed(l, o).active = FALSE
  BY DEF Closed
<1> HIDE DEF broken
<1>8. DiskOK(Closed(l, o).disk)
  <2>1. CASE l.empty
    BY <1>2, <1>5, <2>1
  <2>2. CASE ~l.empty /\ ~promotes
    BY <1>5, <2>2
  <2>3. CASE promotes /\ o = "moved"
    BY <1>4, <1>5, <2>3
  <2>4. CASE promotes /\ o = "partial"
    BY <1>4, <1>5, <2>4
  <2> QED BY <1>1, <2>1, <2>2, <2>3, <2>4, Constants
<1>9. Closed(l, o).gone \in SUBSET Nat
  BY <1>2, <1>6
<1> QED BY <1>7, <1>8, <1>9

-----------------------------------------------------------------------------
(* The type invariant in parts, one for each tuple of variables            *)

ClockT  == now \in Nat /\ nframes \in Nat /\ ncalls \in Nat
LifeT   == inited \in BOOLEAN /\ listener \in BOOLEAN
ModeT   == mode \in Modes /\ runDeadline \in Nat /\ quietDeadline \in Nat
FlagT   == muxerOpen \in BOOLEAN /\ muxClosing \in BOOLEAN /\ segActive \in BOOLEAN
NameT   == /\ segSrc \in SUBSET Sources /\ pendingSrc \in SUBSET Sources
           /\ curPath \in ClipType /\ stagePath \in StageType
CountT  == segments \in Nat /\ frames \in Nat /\ segFrames \in Nat
QueueT  == /\ waitingKey \in BOOLEAN
           /\ wq \in Seq(EntryType) /\ Len(wq) <= WQ_CAP
           /\ queued \in Seq(EntryType) /\ cleared \in Nat
RingT   == ring \in Seq(RingType) /\ Len(ring) <= RING_CAP
WriterT == /\ writerRun \in BOOLEAN /\ writer \in {"off", "idle", "write", "count"}
           /\ writing \in EntryType /\ written \in Seq(EntryType)
LibT    == /\ mux \in StageType /\ DiskOK(disk)
           /\ segStart \in Nat /\ nopened \in Nat /\ gone \in SUBSET Nat
ThreadT == /\ pc \in [Threads -> Labels]
           /\ op \in [Threads -> Ops \cup {"none"}]
           /\ loc \in [Threads -> LocType]

LEMMA TypeParts ==
  TypeOK <=> /\ ClockT /\ LifeT /\ ModeT /\ FlagT /\ NameT /\ CountT
             /\ QueueT /\ RingT /\ WriterT /\ LibT /\ ThreadT
BY DEF TypeOK, ClockT, LifeT, ModeT, FlagT, NameT, CountT, QueueT, RingT,
       WriterT, LibT, ThreadT

LEMMA TypePartsPrimed ==
  TypeOK' <=> /\ ClockT' /\ LifeT' /\ ModeT' /\ FlagT' /\ NameT' /\ CountT'
              /\ QueueT' /\ RingT' /\ WriterT' /\ LibT' /\ ThreadT'
BY DEF TypeOK, ClockT, LifeT, ModeT, FlagT, NameT, CountT, QueueT, RingT,
       WriterT, LibT, ThreadT

(* A part whose variables do not change is preserved.                      *)
LEMMA Unchanged ==
  /\ ClockT /\ UNCHANGED clockVars => ClockT'
  /\ LifeT /\ UNCHANGED lifeVars => LifeT'
  /\ ModeT /\ UNCHANGED modeVars => ModeT'
  /\ FlagT /\ UNCHANGED flagVars => FlagT'
  /\ NameT /\ UNCHANGED nameVars => NameT'
  /\ CountT /\ UNCHANGED countVars => CountT'
  /\ QueueT /\ UNCHANGED queueVars => QueueT'
  /\ RingT /\ UNCHANGED ring => RingT'
  /\ WriterT /\ UNCHANGED writerVars => WriterT'
  /\ LibT /\ UNCHANGED libVars => LibT'
  /\ ThreadT /\ UNCHANGED threadVars => ThreadT'
BY DEF ClockT, LifeT, ModeT, FlagT, NameT, CountT, QueueT, RingT, WriterT,
       LibT, ThreadT, clockVars, lifeVars, modeVars, flagVars, nameVars,
       countVars, queueVars, writerVars, libVars, threadVars

-----------------------------------------------------------------------------
(* The queue                                                               *)

LEMMA InFlightType ==
  ASSUME WriterT
  PROVE  InFlight \in Seq(EntryType)
BY DEF WriterT, InFlight

(* write_frame_locked never overruns the queue.                            *)
LEMMA OfferProperties ==
  ASSUME QueueT, NEW fs \in Seq(FrameType), NEW waiting \in BOOLEAN
  PROVE  \A a \in Offer(fs, waiting) : a \in Seq(FrameType) /\ Len(wq) + Len(a) <= WQ_CAP
<1>0. WQ_CAP \in Nat /\ Len(wq) \in Nat /\ Len(fs) \in Nat /\ Len(wq) <= WQ_CAP
  BY Constants, LenProperties DEF QueueT
<1>1. Admitted(fs, waiting) \in Seq(FrameType)
      /\ Len(wq) + Len(Admitted(fs, waiting)) <= WQ_CAP
  <2> DEFINE n == IF Len(fs) <= WQ_CAP - Len(wq) THEN Len(fs) ELSE WQ_CAP - Len(wq)
  <2>1. n \in Nat /\ n <= Len(fs) /\ Len(wq) + n <= WQ_CAP
    BY <1>0
  <2> HIDE DEF n
  <2>2. \A i \in 1 .. n : fs[i] \in FrameType
    BY <1>0, <2>1, ElementOfSeq
  <2>3. SubSeq(fs, 1, n) \in Seq(FrameType)
        /\ Len(SubSeq(fs, 1, n)) = IF 1 <= n THEN n - 1 + 1 ELSE 0
    BY <2>1, <2>2, SubSeqProperties
  <2>4. Admitted(fs, waiting) = <<>> \/ Admitted(fs, waiting) = SubSeq(fs, 1, n)
    <3>1. CASE fs = <<>> \/ (waiting /\ ~fs[1].key)
      BY <3>1 DEF Admitted
    <3>2. CASE ~(fs = <<>> \/ (waiting /\ ~fs[1].key))
      BY <3>2 DEF Admitted, n
    <3> QED BY <3>1, <3>2
  <2>5. Len(SubSeq(fs, 1, n)) = n
    BY <2>1, <2>3
  <2>6. CASE Admitted(fs, waiting) = SubSeq(fs, 1, n)
    BY <2>1, <2>3, <2>5, <2>6
  <2>7. CASE Admitted(fs, waiting) = <<>>
    BY <1>0, <2>7
  <2> QED BY <2>4, <2>6, <2>7
<1>2. \A a \in Offer(fs, waiting) : a = Admitted(fs, waiting) \/ a = <<>>
  BY DEF Offer
<1>3. <<>> \in Seq(FrameType) /\ Len(wq) + Len(<<>>) <= WQ_CAP
  BY <1>0
<1> QED BY <1>1, <1>2, <1>3

LEMMA OfferLiveProperties ==
  ASSUME QueueT, NEW f \in FrameType, NEW waiting \in BOOLEAN
  PROVE  \A a \in OfferLive(f, waiting) : a \in Seq(FrameType) /\ Len(wq) + Len(a) <= WQ_CAP
<1>1. <<f>> \in Seq(FrameType)
  OBVIOUS
<1>2. \A a \in Offer(<<f>>, waiting) : a \in Seq(FrameType) /\ Len(wq) + Len(a) <= WQ_CAP
  BY <1>1, OfferProperties
<1>3. Len(wq) + Len(<<>>) <= WQ_CAP
  BY Constants, ValueTypes, LenProperties DEF QueueT
<1> QED BY <1>2, <1>3, ValueTypes DEF OfferLive

LEMMA FlushTypes ==
  ASSUME NEW r \in Seq([frame : FrameType, wall : Nat]), NEW n \in Nat
  PROVE  FlushFrames(r, n) \in Seq(FrameType)
BY FlushIsTail, ZenonT(40)

(* What is accepted goes to the end of the queue and nowhere else.         *)
LEMMA EnqueueKeeps ==
  ASSUME QueueT, WriterT, NEW seg \in Nat, NEW fs \in Seq(FrameType),
         Len(wq) + Len(fs) <= WQ_CAP, NEW waiting \in BOOLEAN,
         Enqueue(seg, fs, waiting)
  PROVE  /\ QueueT'
         /\ QueueConserved => queued' = written \o InFlight \o wq'
<1> DEFINE entries == [i \in 1 .. Len(fs) |-> [seg |-> seg, frame |-> fs[i]]]
<1>0. Len(fs) \in Nat /\ Len(wq) \in Nat
  BY LenProperties DEF QueueT
<1>1. \A i \in 1 .. Len(fs) : [seg |-> seg, frame |-> fs[i]] \in EntryType
  BY ElementOfSeq DEF EntryType
<1>2. entries \in Seq(EntryType) /\ Len(entries) = Len(fs)
  BY <1>0, <1>1
<1>3. /\ wq' = wq \o entries /\ queued' = queued \o entries
      /\ cleared' = cleared /\ waitingKey' = (waiting /\ fs = <<>>)
  BY DEF Enqueue
<1> HIDE DEF entries
<1>4. QueueT'
  <2>1. /\ wq \in Seq(EntryType) /\ queued \in Seq(EntryType) /\ cleared \in Nat
    BY DEF QueueT
  <2>2. /\ wq' \in Seq(EntryType) /\ queued' \in Seq(EntryType)
        /\ Len(wq') = Len(wq) + Len(fs)
    <3>1. wq \o entries \in Seq(EntryType) /\ Len(wq \o entries) = Len(wq) + Len(entries)
      BY <1>2, <2>1, ConcatProperties
    <3>2. queued \o entries \in Seq(EntryType)
      BY <1>2, <2>1, ConcatProperties
    <3> QED BY <1>2, <1>3, <3>1, <3>2
  <2>3. waitingKey' \in BOOLEAN
    BY <1>3
  <2> QED BY <1>3, <2>1, <2>2, <2>3 DEF QueueT
<1>5. ASSUME QueueConserved PROVE queued' = written \o InFlight \o wq'
  <2>1. /\ written \in Seq(EntryType) /\ InFlight \in Seq(EntryType)
        /\ wq \in Seq(EntryType) /\ written \o InFlight \in Seq(EntryType)
    BY InFlightType, ConcatProperties DEF WriterT, QueueT
  <2> DEFINE before == written \o InFlight
  <2>2. queued = before \o wq /\ before \in Seq(EntryType)
    BY <1>5, <2>1 DEF QueueConserved
  <2> HIDE DEF before
  <2>3. (before \o wq) \o entries = before \o (wq \o entries)
    <3> HIDE DEF EntryType
    <3>1. /\ before \in Seq(EntryType) /\ wq \in Seq(EntryType)
          /\ entries \in Seq(EntryType)
      BY <1>2, <2>1, <2>2
    <3> QED BY ONLY <3>1, ConcatAssociative
  <2> QED BY <1>3, <2>2, <2>3 DEF before
<1> QED BY <1>4, <1>5

(* Clearing the queue forgets exactly what was queued.                     *)
LEMMA ClearQueueKeeps ==
  ASSUME QueueT, WriterT, ClearQueue, UNCHANGED waitingKey
  PROVE  QueueT' /\ queued' = written \o InFlight \o wq'
<1>1. written \o InFlight \in Seq(EntryType) /\ Len(wq) \in Nat
  BY InFlightType, ConcatProperties, LenProperties DEF WriterT, QueueT
<1>2. wq' = <<>> /\ queued' = written \o InFlight /\ cleared' = cleared + Len(wq)
  BY DEF ClearQueue
<1>3. written \o InFlight \o <<>> = written \o InFlight
  BY <1>1, ConcatEmptySeq
<1> QED BY <1>1, <1>2, <1>3, Constants, ValueTypes DEF QueueT

-----------------------------------------------------------------------------
(* Opening and closing                                                     *)

LEMMA NameTypes ==
  ASSUME ClockT, NameT, NEW m, NEW pending \in SUBSET Sources, NEW o,
         NameSegment(m, pending, o)
  PROVE  curPath' \in ClipType /\ segSrc' \in SUBSET Sources
<1>1. NewClip(m, pending) \in ClipType /\ NewClip(m, pending).src \in SUBSET Sources
  BY DEF ClockT, NewClip, ClipName, ClipType, Sources
<1> QED BY <1>1 DEF NameSegment, NameT

LEMMA FreshStageType ==
  ASSUME ClockT, CountT
  PROVE  FreshStage \in StageType
BY DEF ClockT, CountT, FreshStage, StageName, StageType

LEMMA UnclosedTypes ==
  ASSUME LibT, NameT, FlagT
  PROVE  /\ DiskOK(Unclosed.disk) /\ Unclosed.gone \in SUBSET Nat
         /\ Unclosed.stage \in StageType /\ Unclosed.active \in BOOLEAN
BY DEF LibT, NameT, FlagT, Unclosed

LEMMA InitMuxerTypes ==
  ASSUME CountT, LibT, NEW o, NEW name \in StageType, NEW sec \in Nat, NEW s,
         DiskOK(s.disk), s.gone \in SUBSET Nat, s.stage \in StageType,
         s.active \in BOOLEAN, InitMuxer(o, name, sec, s)
  PROVE  /\ stagePath' \in StageType /\ muxerOpen' \in BOOLEAN
         /\ segActive' \in BOOLEAN /\ segFrames' \in Nat /\ segments' \in Nat
         /\ LibT'
<1>1. stagePath' \in StageType
  BY ValueTypes DEF InitMuxer
<1>2. muxerOpen' \in BOOLEAN /\ segActive' \in BOOLEAN
  BY DEF InitMuxer
<1>3. CASE o # "ok"
  <2>1. /\ disk' = s.disk /\ gone' = s.gone
        /\ UNCHANGED <<segFrames, segments, nopened, mux, segStart>>
    BY <1>3 DEF InitMuxer
  <2>2. LibT' /\ segFrames' \in Nat /\ segments' \in Nat
    BY <2>1 DEF LibT, CountT
  <2> QED BY <1>1, <1>2, <2>2
<1>4. CASE o = "ok"
  <2> DEFINE file == [seg |-> nopened + 1, frames |-> <<>>, sealed |-> FALSE]
             d == Put(s.disk, name, file)
  <2>1. /\ segFrames' = 0 /\ segments' = segments + 1
        /\ nopened' = nopened + 1 /\ mux' = name /\ segStart' = sec
        /\ \E S \in RecycleChoices(d, name) :
             /\ disk' = Without(d, S)
             /\ gone' = s.gone \cup SegsOf(s.disk, {name}) \cup SegsOf(d, S)
    BY <1>4 DEF InitMuxer
  <2>2. file \in FileType
    BY ValueTypes DEF LibT, FileType
  <2> HIDE DEF file
  <2>3. DiskOK(d) /\ SegsOf(s.disk, {name}) \in SUBSET Nat
    BY <2>2, DiskPut, FilesHaveSegs
  <2> HIDE DEF d
  <2>4. DiskOK(disk') /\ gone' \in SUBSET Nat
    <3>1. PICK S \in RecycleChoices(d, name) :
            /\ disk' = Without(d, S)
            /\ gone' = s.gone \cup SegsOf(s.disk, {name}) \cup SegsOf(d, S)
      BY <2>1
    <3>2. DiskOK(Without(d, S)) /\ SegsOf(d, S) \in SUBSET Nat
      BY <2>3, DiskWithout, FilesHaveSegs
    <3> QED BY <2>3, <3>1, <3>2
  <2>5. LibT' /\ segFrames' \in Nat /\ segments' \in Nat
    <3>1. segFrames' = 0 /\ segments' = segments + 1 /\ nopened' = nopened + 1 /\ mux' = name /\ segStart' = sec
      BY <2>1
    <3>2. nopened' \in Nat /\ segFrames' \in Nat /\ segments' \in Nat
      BY <3>1 DEF LibT, CountT
    <3>3. LibT'
      BY <2>4, <3>1, <3>2 DEF LibT
    <3> QED BY <3>2, <3>3
  <2> QED BY <1>1, <1>2, <2>5
<1> QED BY <1>3, <1>4

LEMMA GotoTypes ==
  ASSUME pc \in [Threads -> Labels], NEW t \in Threads, NEW label \in Labels, Goto(t, label)
  PROVE  pc' \in [Threads -> Labels]
BY DEF Goto

LEMMA LabelNames ==
  /\ "idle" \in Labels /\ "enter" \in Labels /\ "deadline" \in Labels
  /\ "drain" \in Labels /\ "mark" \in Labels /\ "deinit" \in Labels
  /\ "finish" \in Labels /\ "overDrain" \in Labels /\ "overInit" \in Labels
  /\ "stopped" \in Labels /\ "join" \in Labels
BY DEF Labels, Closing

LEMMA BeginCloseTypes ==
  ASSUME TypeOK, NEW t \in Threads, NEW roll \in {"no", "continuous", "motion"},
         BeginClose(t, roll)
  PROVE  FlagT' /\ NameT' /\ QueueT' /\ LibT' /\ ThreadT'
         /\ segments' \in Nat /\ segFrames' \in Nat
<1>0. ClockT /\ FlagT /\ NameT /\ CountT /\ QueueT /\ LibT /\ ThreadT
  BY TypeParts
<1> DEFINE clip == IF curPath.kind = "event" THEN [curPath EXCEPT !.src = segSrc]
                                             ELSE curPath
<1>1. clip \in ClipType
  BY <1>0 DEF NameT, ClipType
<1>2. /\ muxerOpen' = FALSE /\ curPath' = clip /\ Goto(t, "drain")
      /\ loc' = [loc EXCEPT ![t].stage = stagePath, ![t].clip = clip,
                            ![t].roll = roll]
      /\ UNCHANGED <<muxClosing, segActive, segSrc, pendingSrc, stagePath,
                     segments, segFrames, queueVars, libVars, op>>
  BY DEF BeginClose
<1> HIDE DEF clip
<1>3. FlagT' /\ NameT' /\ segments' \in Nat /\ segFrames' \in Nat
  BY <1>0, <1>1, <1>2 DEF FlagT, NameT, CountT
<1>4. QueueT' /\ LibT'
  BY <1>0, <1>2, Unchanged
<1>5. ThreadT'
  <2>1. pc' \in [Threads -> Labels]
    BY <1>0, <1>2, GotoTypes, LabelNames DEF ThreadT
  <2>2. loc' \in [Threads -> LocType]
    <3>1. stagePath \in StageType /\ loc \in [Threads -> LocType]
      BY <1>0 DEF NameT, ThreadT
    <3>2. [loc[t] EXCEPT !.stage = stagePath, !.clip = clip, !.roll = roll] \in LocType
      BY <1>1, <3>1 DEF LocType
    <3>3. loc' = [loc EXCEPT ![t] = [loc[t] EXCEPT !.stage = stagePath, !.clip = clip,
                                                   !.roll = roll]]
      BY <1>2, <3>1
    <3> QED BY <3>1, <3>2, <3>3
  <2> QED BY <1>0, <1>2, <2>1, <2>2 DEF ThreadT
<1> QED BY <1>3, <1>4, <1>5

-----------------------------------------------------------------------------
(* Every step keeps the types                                              *)

LEMMA DrainTypes ==
  ASSUME TypeOK, NEW t \in Threads, DrainDone(t) \/ OverDrainDone(t) \/ CloseMark(t)
  PROVE  TypeOK'
<1>0. ClockT /\ LifeT /\ ModeT /\ FlagT /\ NameT /\ CountT /\ QueueT /\ RingT
      /\ WriterT /\ LibT /\ ThreadT
  BY TypeParts
<1>1. pc' \in [Threads -> Labels] /\ op' = op
  <2>1. op' = op /\ \E label \in {"mark", "overInit", "deinit"} : Goto(t, label)
    BY DEF DrainDone, OverDrainDone, CloseMark
  <2> QED BY <1>0, <2>1, GotoTypes, LabelNames DEF ThreadT
<1>2. loc' \in [Threads -> LocType]
  <2>1. CASE loc' = loc
    BY <1>0, <2>1 DEF ThreadT
  <2>2. CASE CloseMark(t)
    <3>1. loc \in [Threads -> LocType] /\ (segFrames = 0) \in BOOLEAN
      BY <1>0 DEF ThreadT
    <3>2. [loc[t] EXCEPT !.empty = (segFrames = 0)] \in LocType
      BY <3>1 DEF LocType
    <3>3. loc' = [loc EXCEPT ![t] = [loc[t] EXCEPT !.empty = (segFrames = 0)]]
      BY <2>2, <3>1 DEF CloseMark
    <3> QED BY <3>1, <3>2, <3>3
  <2> QED BY <2>1, <2>2 DEF DrainDone, OverDrainDone
<1>3. ThreadT'
  BY <1>0, <1>1, <1>2 DEF ThreadT
<1>4. FlagT'
  BY <1>0 DEF DrainDone, OverDrainDone, CloseMark, FlagT, flagVars
<1>5. /\ UNCHANGED clockVars /\ UNCHANGED lifeVars /\ UNCHANGED modeVars
      /\ UNCHANGED nameVars /\ UNCHANGED countVars /\ UNCHANGED queueVars
      /\ UNCHANGED ring /\ UNCHANGED writerVars /\ UNCHANGED libVars
  BY DEF DrainDone, OverDrainDone, CloseMark
<1> QED BY <1>0, <1>3, <1>4, <1>5, Unchanged, TypePartsPrimed

LEMMA MuxDeinitTypes ==
  ASSUME TypeOK, NEW t \in Threads, MuxDeinit(t)
  PROVE  TypeOK'
<1>0. ClockT /\ LifeT /\ ModeT /\ FlagT /\ NameT /\ CountT /\ QueueT /\ RingT
      /\ WriterT /\ LibT /\ ThreadT
  BY TypeParts
<1>1. ThreadT'
  <2>1. Goto(t, "finish") /\ op' = op /\ loc' = loc
    BY DEF MuxDeinit
  <2> QED BY <1>0, <2>1, GotoTypes, LabelNames DEF ThreadT
<1>2. LibT'
  <2>1. DiskOK(Sealed)
    BY <1>0, SealedType DEF LibT
  <2>2. disk' = Sealed /\ mux' = NoStage /\ UNCHANGED <<segStart, nopened, gone>>
    BY DEF MuxDeinit
  <2> QED BY <1>0, <2>1, <2>2, ValueTypes DEF LibT
<1>3. /\ UNCHANGED clockVars /\ UNCHANGED lifeVars /\ UNCHANGED modeVars
      /\ UNCHANGED flagVars /\ UNCHANGED nameVars /\ UNCHANGED countVars
      /\ UNCHANGED queueVars /\ UNCHANGED ring /\ UNCHANGED writerVars
  BY DEF MuxDeinit
<1> QED BY <1>0, <1>1, <1>2, <1>3, Unchanged, TypePartsPrimed

(* Leaving the recorder.                                                   *)
LEMMA LocReset ==
  ASSUME ThreadT, NEW t \in Threads, loc' = [loc EXCEPT ![t] = NoLoc]
  PROVE  loc' \in [Threads -> LocType]
BY ValueTypes DEF ThreadT

LEMMA LeaveTypes ==
  ASSUME ThreadT, NEW t \in Threads, Leave(t)
  PROVE  ThreadT'
BY GotoTypes, LabelNames DEF Leave, ThreadT

LEMMA CloseFinishTypes ==
  ASSUME TypeOK, NEW t \in Threads, CloseFinish(t)
  PROVE  TypeOK'
<1>0. ClockT /\ LifeT /\ ModeT /\ FlagT /\ NameT /\ CountT /\ QueueT /\ RingT
      /\ WriterT /\ LibT /\ ThreadT
  BY TypeParts
<1>1. ThreadT'
  <2>1. pc' \in [Threads -> Labels]
    <3>1. Goto(t, "stopped") \/ Goto(t, "idle")
      BY DEF CloseFinish
    <3> QED BY <1>0, <3>1, GotoTypes, LabelNames DEF ThreadT
  <2>2. op' \in [Threads -> Ops \cup {"none"}]
    BY <1>0 DEF CloseFinish, ThreadT
  <2>3. loc' \in [Threads -> LocType]
    BY <1>0, LocReset DEF CloseFinish
  <2> QED BY <2>1, <2>2, <2>3 DEF ThreadT
<1>2. PICK o \in PromoteOutcomes :
        /\ disk' = Closed(loc[t], o).disk
        /\ gone' = Closed(loc[t], o).gone
        /\ stagePath' = Closed(loc[t], o).stage
        /\ segActive' = Closed(loc[t], o).active
  BY DEF CloseFinish
<1>3. /\ DiskOK(Closed(loc[t], o).disk)
      /\ Closed(loc[t], o).gone \in SUBSET Nat
      /\ Closed(loc[t], o).stage = NoStage
      /\ Closed(loc[t], o).active = FALSE
  <2>1. loc[t] \in LocType
    BY <1>0 DEF ThreadT
  <2> QED BY <1>0, <2>1, ClosedType DEF LibT
<1>4. /\ UNCHANGED <<clockVars, lifeVars, modeVars, muxerOpen, segSrc, pendingSrc,
                     curPath, countVars, queueVars, ring, writerVars, mux, segStart, nopened>>
      /\ muxClosing' = FALSE
  BY DEF CloseFinish
<1>5. LibT' /\ FlagT' /\ NameT'
  BY <1>0, <1>2, <1>3, <1>4, ValueTypes DEF LibT, FlagT, NameT
<1> QED BY <1>0, <1>1, <1>4, <1>5, Unchanged, TypePartsPrimed

(* The frame that caused a rollover, written to the segment that follows.  *)
LEMMA WriteAfterRollTypes ==
  ASSUME QueueT, WriterT, LibT, NEW l \in LocType, NEW o, WriteAfterRoll(o, l)
  PROVE  /\ QueueT'
         /\ QueueConserved => queued' = written \o InFlight \o wq'
<1> DEFINE waiting == (l.roll = "continuous")
<1>1. CASE o = "ok"
  <2>1. PICK fs \in OfferLive(l.frame, waiting) : Enqueue(nopened + 1, fs, waiting)
    BY <1>1 DEF WriteAfterRoll
  <2>2. l.frame \in FrameType /\ waiting \in BOOLEAN /\ nopened + 1 \in Nat
    BY DEF LocType, LibT
  <2> HIDE DEF waiting
  <2>3. fs \in Seq(FrameType) /\ Len(wq) + Len(fs) <= WQ_CAP
    BY <2>1, <2>2, OfferLiveProperties
  <2> QED BY <2>1, <2>2, <2>3, EnqueueKeeps
<1>2. CASE o # "ok"
  <2>1. UNCHANGED queueVars
    BY <1>2 DEF WriteAfterRoll
  <2> QED BY <2>1, Unchanged DEF queueVars, QueueConserved
<1> QED BY <1>1, <1>2

LEMMA CloseReopenTypes ==
  ASSUME TypeOK, NEW t \in Threads, CloseReopen(t)
  PROVE  TypeOK'
<1>0. ClockT /\ LifeT /\ ModeT /\ FlagT /\ NameT /\ CountT /\ QueueT /\ RingT
      /\ WriterT /\ LibT /\ ThreadT
  BY TypeParts
<1>1. PICK p \in PromoteOutcomes, o \in OpenOutcomes :
        /\ NameSegment(mode, pendingSrc, o)
        /\ InitMuxer(o, FreshStage, now, Closed(loc[t], p))
        /\ WriteAfterRoll(o, loc[t])
  BY DEF CloseReopen
<1>2. /\ muxClosing' = FALSE /\ loc' = [loc EXCEPT ![t] = NoLoc] /\ Goto(t, "idle")
      /\ UNCHANGED <<clockVars, lifeVars, modeVars, pendingSrc, frames, ring,
                     writerVars, op>>
  BY DEF CloseReopen
<1>3. loc[t] \in LocType
  BY <1>0 DEF ThreadT
<1>4. ThreadT'
  BY <1>0, <1>2, GotoTypes, LabelNames, LocReset DEF ThreadT
<1>5. /\ DiskOK(Closed(loc[t], p).disk) /\ Closed(loc[t], p).gone \in SUBSET Nat
      /\ Closed(loc[t], p).stage \in StageType /\ Closed(loc[t], p).active \in BOOLEAN
  BY <1>0, <1>3, ClosedType, ValueTypes DEF LibT
<1>6. /\ stagePath' \in StageType /\ muxerOpen' \in BOOLEAN
      /\ segActive' \in BOOLEAN /\ segFrames' \in Nat /\ segments' \in Nat
      /\ LibT'
  <2>1. FreshStage \in StageType /\ now \in Nat
    BY <1>0, FreshStageType DEF ClockT
  <2> QED BY <1>0, <1>1, <1>5, <2>1, InitMuxerTypes
<1>7. curPath' \in ClipType /\ segSrc' \in SUBSET Sources
  BY <1>0, <1>1, NameTypes DEF NameT
<1>8. FlagT' /\ NameT' /\ CountT'
  BY <1>0, <1>2, <1>6, <1>7 DEF FlagT, NameT, CountT
<1>9. QueueT'
  BY <1>0, <1>1, <1>3, WriteAfterRollTypes
<1> QED BY <1>0, <1>2, <1>4, <1>6, <1>8, <1>9, Unchanged, TypePartsPrimed

LEMMA CloseReopenBusyTypes ==
  ASSUME TypeOK, NEW t \in Threads, CloseReopenBusy(t)
  PROVE  TypeOK'
<1>0. ClockT /\ LifeT /\ ModeT /\ FlagT /\ NameT /\ CountT /\ QueueT /\ RingT
      /\ WriterT /\ LibT /\ ThreadT
  BY TypeParts
<1>1. PICK p \in PromoteOutcomes, o \in OpenOutcomes :
        LET s == Closed(loc[t], p)
            names == o \in {"ok", "init"}
        IN  /\ disk' = s.disk
            /\ gone' = s.gone
            /\ segActive' = s.active
            /\ stagePath' = IF names THEN FreshStage ELSE s.stage
            /\ NameSegment(mode, pendingSrc, o)
            /\ muxClosing' = names
            /\ Goto(t, IF names THEN "overDrain" ELSE "idle")
            /\ loc' = [loc EXCEPT ![t] = IF names THEN [@ EXCEPT !.stage = FreshStage]
                                                  ELSE NoLoc]
  BY DEF CloseReopenBusy
<1>2. UNCHANGED <<clockVars, lifeVars, modeVars, muxerOpen, pendingSrc, countVars,
                  queueVars, ring, writerVars, mux, segStart, nopened, op>>
  BY DEF CloseReopenBusy
<1>3. loc[t] \in LocType
  BY <1>0 DEF ThreadT
<1>4. ThreadT'
  <2>1. pc' \in [Threads -> Labels]
    BY <1>0, <1>1, GotoTypes, LabelNames DEF ThreadT
  <2>2. loc' \in [Threads -> LocType]
    <3>1. [loc[t] EXCEPT !.stage = FreshStage] \in LocType
      BY <1>0, <1>3, FreshStageType DEF LocType
    <3>2. \E l \in LocType : loc' = [loc EXCEPT ![t] = l]
      BY <1>0, <1>1, <3>1, ValueTypes DEF ThreadT
    <3> QED BY <1>0, <3>2 DEF ThreadT
  <2> QED BY <1>0, <1>2, <2>1, <2>2 DEF ThreadT
<1>5. /\ DiskOK(Closed(loc[t], p).disk) /\ Closed(loc[t], p).gone \in SUBSET Nat
      /\ Closed(loc[t], p).stage \in StageType /\ Closed(loc[t], p).active \in BOOLEAN
  BY <1>0, <1>3, ClosedType, ValueTypes DEF LibT
<1>6. LibT'
  BY <1>0, <1>1, <1>2, <1>5 DEF LibT
<1>7. curPath' \in ClipType /\ segSrc' \in SUBSET Sources
  BY <1>0, <1>1, NameTypes DEF NameT
<1>8. FlagT' /\ NameT'
  <2>1. FreshStage \in StageType
    BY <1>0, FreshStageType
  <2> QED BY <1>0, <1>1, <1>2, <1>5, <1>7, <2>1 DEF FlagT, NameT
<1> QED BY <1>0, <1>2, <1>4, <1>6, <1>8, Unchanged, TypePartsPrimed

LEMMA OverInitTypes ==
  ASSUME TypeOK, NEW t \in Threads, OverInit(t)
  PROVE  TypeOK'
<1>0. ClockT /\ LifeT /\ ModeT /\ FlagT /\ NameT /\ CountT /\ QueueT /\ RingT
      /\ WriterT /\ LibT /\ ThreadT
  BY TypeParts
<1> DEFINE s == [disk |-> Without(Sealed, {stagePath}), gone |-> gone,
                 stage |-> stagePath, active |-> segActive]
<1>1. PICK o \in IF stagePath = NoStage THEN {"init"}
                  ELSE OpenOutcomes \cap {"ok", "init"} :
        /\ IF o = "ok" THEN InitMuxer(o, stagePath, loc[t].stage.sec, s)
           ELSE /\ mux' = NoStage
                /\ disk' = s.disk
                /\ muxerOpen' = FALSE
                /\ stagePath' = NoStage
                /\ UNCHANGED <<segActive, segFrames, segments, segStart, nopened, gone>>
        /\ WriteAfterRoll(o, loc[t])
  BY DEF OverInit
<1>2. /\ muxClosing' = FALSE /\ loc' = [loc EXCEPT ![t] = NoLoc] /\ Goto(t, "idle")
      /\ UNCHANGED <<clockVars, lifeVars, modeVars, segSrc, pendingSrc, curPath,
                     frames, ring, writerVars, op>>
  BY DEF OverInit
<1>3. ThreadT'
  BY <1>0, <1>2, GotoTypes, LabelNames, LocReset DEF ThreadT
<1>4. DiskOK(Without(Sealed, {stagePath}))
  BY <1>0, SealedType, DiskWithout DEF LibT
<1>5. /\ DiskOK(s.disk) /\ s.gone \in SUBSET Nat
      /\ s.stage \in StageType /\ s.active \in BOOLEAN
  BY <1>0, <1>4 DEF LibT, NameT, FlagT
<1> HIDE DEF s
<1>6. /\ stagePath' \in StageType /\ muxerOpen' \in BOOLEAN
      /\ segActive' \in BOOLEAN /\ segFrames' \in Nat /\ segments' \in Nat
      /\ LibT'
  <2>1. CASE o = "ok"
    <3>1. InitMuxer(o, stagePath, loc[t].stage.sec, s) /\ stagePath \in StageType
      BY <1>0, <1>1, <2>1 DEF NameT
    <3>2. loc[t].stage.sec \in Nat
      BY <1>0 DEF ThreadT, LocType, StageType
    <3> QED BY <1>0, <1>5, <3>1, <3>2, InitMuxerTypes
  <2>2. CASE o # "ok"
    BY <1>0, <1>1, <1>5, <2>2, ValueTypes DEF LibT, FlagT, CountT
  <2> QED BY <2>1, <2>2
<1>7. FlagT' /\ NameT' /\ CountT'
  BY <1>0, <1>2, <1>6 DEF FlagT, NameT, CountT
<1>8. QueueT'
  <2>1. loc[t] \in LocType
    BY <1>0 DEF ThreadT
  <2> QED BY <1>0, <1>1, <2>1, WriteAfterRollTypes
<1> QED BY <1>0, <1>2, <1>3, <1>6, <1>7, <1>8, Unchanged, TypePartsPrimed

LEMMA CloseTypes ==
  ASSUME TypeOK, NEW t \in Threads, Close(t)
  PROVE  TypeOK'
BY DrainTypes, MuxDeinitTypes, CloseFinishTypes, CloseReopenTypes,
   CloseReopenBusyTypes, OverInitTypes DEF Close

(* on_packet pushes the frame before it does anything else.                *)
LEMMA BufferTypes ==
  ASSUME ClockT, RingT, ThreadT, Buffer
  PROVE  RingT'
<1>1. Frame \in FrameType
  BY Constants DEF ThreadT, Frame, LocType
<1>2. [frame |-> Frame, wall |-> now] \in RingType
  BY <1>1 DEF ClockT, RingType
<1>3. /\ Popped(ring) \in Seq(RingType) /\ Len(Popped(ring)) < RING_CAP
      /\ Pushed(ring, Frame, now) \in Seq(RingType)
      /\ Len(Pushed(ring, Frame, now)) <= RING_CAP
  BY <1>2, PushedProperties DEF ClockT, RingT
<1>4. Len(Popped(ring)) <= RING_CAP
  BY <1>3, Constants, LenProperties
<1>5. ring' = Pushed(ring, Frame, now) \/ ring' = Popped(ring)
  BY DEF Buffer
<1> QED BY <1>3, <1>4, <1>5 DEF RingT

LEMMA PacketReturnsTypes ==
  ASSUME ThreadT, PacketReturns, op' = op
  PROVE  ThreadT'
BY GotoTypes, LabelNames, LocReset, Constants DEF PacketReturns, ThreadT

(* The packets that change nothing but the ring.                           *)
LEMMA QuietPacketTypes ==
  ASSUME TypeOK, PacketIgnored \/ PacketBuffered
  PROVE  TypeOK'
<1>0. ClockT /\ LifeT /\ ModeT /\ FlagT /\ NameT /\ CountT /\ QueueT /\ RingT
      /\ WriterT /\ LibT /\ ThreadT
  BY TypeParts
<1>1. /\ PacketReturns
      /\ UNCHANGED <<clockVars, lifeVars, modeVars, flagVars, nameVars, countVars,
                     queueVars, writerVars, libVars, op>>
  BY DEF PacketIgnored, PacketBuffered
<1>2. ThreadT'
  BY <1>0, <1>1, PacketReturnsTypes
<1>3. RingT'
  <2>1. UNCHANGED ring \/ Buffer
    BY DEF PacketIgnored, PacketBuffered
  <2> QED BY <1>0, <2>1, BufferTypes, Unchanged
<1> QED BY <1>0, <1>1, <1>2, <1>3, Unchanged, TypePartsPrimed

(* The packets that close the open segment, or find none to close.         *)
LEMMA ClosingPacketTypes ==
  ASSUME TypeOK, PacketRunOver \/ PacketRoll \/ PacketQuiet
  PROVE  TypeOK'
<1>0. ClockT /\ LifeT /\ ModeT /\ FlagT /\ NameT /\ CountT /\ QueueT /\ RingT
      /\ WriterT /\ LibT /\ ThreadT
  BY TypeParts
<1>1. /\ Buffer
      /\ UNCHANGED <<clockVars, lifeVars, runDeadline, quietDeadline, frames, writerVars>>
  BY DEF PacketRunOver, PacketRoll, PacketQuiet, modeVars
<1>2. RingT'
  BY <1>0, <1>1, BufferTypes
<1>3. ModeT'
  BY <1>0 DEF PacketRunOver, PacketRoll, PacketQuiet, ModeT, Modes, modeVars
<1>4. \/ \E roll \in {"no", "continuous", "motion"} : BeginClose(Venc, roll)
      \/ /\ PacketReturns
         /\ UNCHANGED <<flagVars, nameVars, segments, segFrames, queueVars, libVars, op>>
  <2>1. CASE PacketRoll
    <3>1. BeginClose(Venc, mode) /\ mode \in {"continuous", "motion"}
      BY <2>1 DEF PacketRoll, Recording
    <3> QED BY <3>1
  <2>2. CASE PacketQuiet
    BY <2>2 DEF PacketQuiet
  <2>3. CASE PacketRunOver
    BY <2>3 DEF PacketRunOver
  <2> QED BY <2>1, <2>2, <2>3
<1>5. FlagT' /\ NameT' /\ QueueT' /\ LibT' /\ ThreadT' /\ segments' \in Nat
      /\ segFrames' \in Nat
  <2>1. CASE \E roll \in {"no", "continuous", "motion"} : BeginClose(Venc, roll)
    BY <2>1, BeginCloseTypes, Constants
  <2>2. CASE /\ PacketReturns
             /\ UNCHANGED <<flagVars, nameVars, segments, segFrames, queueVars,
                            libVars, op>>
    <3>1. ThreadT'
      BY <1>0, <2>2, PacketReturnsTypes
    <3>2. FlagT' /\ NameT' /\ QueueT' /\ LibT'
      BY <1>0, <2>2, Unchanged
    <3> QED BY <1>0, <2>2, <3>1, <3>2 DEF CountT
  <2> QED BY <1>4, <2>1, <2>2
<1>6. CountT'
  BY <1>0, <1>1, <1>5 DEF CountT
<1> QED BY <1>0, <1>1, <1>2, <1>3, <1>5, <1>6, Unchanged, TypePartsPrimed

(* What a thread that opens a segment does to the types.                   *)
LEMMA OpenTypes ==
  ASSUME TypeOK, NEW m, NEW pending \in SUBSET Sources, NEW o,
         NameSegment(m, pending, o), InitMuxer(o, FreshStage, now, Unclosed)
  PROVE  /\ curPath' \in ClipType /\ segSrc' \in SUBSET Sources
         /\ stagePath' \in StageType /\ muxerOpen' \in BOOLEAN
         /\ segActive' \in BOOLEAN /\ segFrames' \in Nat /\ segments' \in Nat
         /\ LibT'
<1>0. ClockT /\ FlagT /\ NameT /\ CountT /\ LibT
  BY TypeParts
<1>1. FreshStage \in StageType /\ now \in Nat
  BY <1>0, FreshStageType DEF ClockT
<1>2. /\ DiskOK(Unclosed.disk) /\ Unclosed.gone \in SUBSET Nat
      /\ Unclosed.stage \in StageType /\ Unclosed.active \in BOOLEAN
  BY <1>0, UnclosedTypes
<1>3. curPath' \in ClipType /\ segSrc' \in SUBSET Sources
  BY <1>0, NameTypes
<1>4. /\ stagePath' \in StageType /\ muxerOpen' \in BOOLEAN
      /\ segActive' \in BOOLEAN /\ segFrames' \in Nat /\ segments' \in Nat
      /\ LibT'
  BY <1>0, <1>1, <1>2, InitMuxerTypes
<1> QED BY <1>3, <1>4

(* The packets that are offered to the queue.                              *)
LEMMA PacketOpenTypes ==
  ASSUME TypeOK, PacketOpen
  PROVE  /\ TypeOK'
         /\ QueueConserved => queued' = written \o InFlight \o wq'
<1>0. ClockT /\ LifeT /\ ModeT /\ FlagT /\ NameT /\ CountT /\ QueueT /\ RingT
      /\ WriterT /\ LibT /\ ThreadT
  BY TypeParts
<1>1. PICK o \in OpenOutcomes :
        /\ NameSegment(mode, pendingSrc, o)
        /\ InitMuxer(o, FreshStage, now, Unclosed)
        /\ muxClosing' = IF o \in {"ok", "init"} THEN FALSE ELSE muxClosing
        /\ IF o = "ok"
           THEN \E fs \in OfferLive(Frame, TRUE) : Enqueue(nopened + 1, fs, TRUE)
           ELSE UNCHANGED queueVars
  BY DEF PacketOpen
<1>2. /\ Buffer /\ PacketReturns
      /\ UNCHANGED <<clockVars, lifeVars, modeVars, pendingSrc, frames, writerVars, op>>
  BY DEF PacketOpen
<1>3. /\ curPath' \in ClipType /\ segSrc' \in SUBSET Sources
      /\ stagePath' \in StageType /\ muxerOpen' \in BOOLEAN
      /\ segActive' \in BOOLEAN /\ segFrames' \in Nat /\ segments' \in Nat
      /\ LibT'
  BY <1>0, <1>1, OpenTypes DEF NameT
<1>4. QueueT' /\ (QueueConserved => queued' = written \o InFlight \o wq')
  <2>1. CASE o = "ok"
    <3>1. PICK fs \in OfferLive(Frame, TRUE) : Enqueue(nopened + 1, fs, TRUE)
      BY <1>1, <2>1
    <3>2. Frame \in FrameType /\ nopened + 1 \in Nat
      BY <1>0, Constants DEF ThreadT, Frame, LocType, LibT
    <3>3. fs \in Seq(FrameType) /\ Len(wq) + Len(fs) <= WQ_CAP
      BY <1>0, <3>1, <3>2, OfferLiveProperties
    <3> QED BY <1>0, <3>1, <3>2, <3>3, EnqueueKeeps
  <2>2. CASE o # "ok"
    BY <1>0, <1>1, <2>2, Unchanged DEF queueVars, QueueConserved
  <2> QED BY <2>1, <2>2
<1>5. FlagT' /\ NameT' /\ CountT'
  BY <1>0, <1>1, <1>2, <1>3 DEF FlagT, NameT, CountT
<1>6. RingT' /\ ThreadT'
  BY <1>0, <1>2, BufferTypes, PacketReturnsTypes
<1> QED BY <1>0, <1>2, <1>3, <1>4, <1>5, <1>6, Unchanged, TypePartsPrimed

LEMMA PacketWriteTypes ==
  ASSUME TypeOK, PacketWrite
  PROVE  /\ TypeOK'
         /\ QueueConserved => queued' = written \o InFlight \o wq'
<1>0. ClockT /\ LifeT /\ ModeT /\ FlagT /\ NameT /\ CountT /\ QueueT /\ RingT
      /\ WriterT /\ LibT /\ ThreadT
  BY TypeParts
<1>1. /\ Buffer /\ PacketReturns
      /\ UNCHANGED <<clockVars, lifeVars, modeVars, flagVars, nameVars, countVars,
                     writerVars, libVars, op>>
  BY DEF PacketWrite
<1>2. \/ UNCHANGED queueVars
      \/ \E fs \in OfferLive(Frame, waitingKey) : Enqueue(nopened, fs, waitingKey)
  BY DEF PacketWrite
<1>3. QueueT' /\ (QueueConserved => queued' = written \o InFlight \o wq')
  <2>1. CASE UNCHANGED queueVars
    BY <1>0, <2>1, Unchanged DEF queueVars, QueueConserved
  <2>2. CASE \E fs \in OfferLive(Frame, waitingKey) : Enqueue(nopened, fs, waitingKey)
    <3>1. PICK fs \in OfferLive(Frame, waitingKey) : Enqueue(nopened, fs, waitingKey)
      BY <2>2
    <3>2. Frame \in FrameType /\ nopened \in Nat /\ waitingKey \in BOOLEAN
      BY <1>0, Constants DEF ThreadT, Frame, LocType, LibT, QueueT
    <3>3. fs \in Seq(FrameType) /\ Len(wq) + Len(fs) <= WQ_CAP
      BY <1>0, <3>1, <3>2, OfferLiveProperties
    <3> QED BY <1>0, <3>1, <3>2, <3>3, EnqueueKeeps
  <2> QED BY <1>2, <2>1, <2>2
<1>4. RingT' /\ ThreadT'
  BY <1>0, <1>1, BufferTypes, PacketReturnsTypes
<1> QED BY <1>0, <1>1, <1>3, <1>4, Unchanged, TypePartsPrimed

LEMMA PacketTypes ==
  ASSUME TypeOK, OnPacket
  PROVE  TypeOK'
BY QuietPacketTypes, ClosingPacketTypes, PacketOpenTypes, PacketWriteTypes DEF OnPacket

(* Camera, Call, Tick: nobody holds the mutex.                             *)
LEMMA OutsideTypes ==
  ASSUME TypeOK,
         \/ \E key \in BOOLEAN : Camera(key)
         \/ \E t \in Ctl, o \in Ops \ {"init"} : Call(t, o)
         \/ Tick
  PROVE  TypeOK'
<1>0. ClockT /\ LifeT /\ ModeT /\ FlagT /\ NameT /\ CountT /\ QueueT /\ RingT
      /\ WriterT /\ LibT /\ ThreadT
  BY TypeParts
<1>1. /\ UNCHANGED <<lifeVars, modeVars, flagVars, nameVars, countVars, queueVars,
                     ring, writerVars, libVars>>
  BY DEF Camera, Call, Tick
<1>2. ClockT'
  BY <1>0 DEF Camera, Call, Tick, ClockT
<1>3. ThreadT'
  <2>1. CASE \E key \in BOOLEAN : Camera(key)
    <3>1. PICK key \in BOOLEAN : Camera(key)
      BY <2>1
    <3>2. pc' \in [Threads -> Labels] /\ op' = op
      BY <1>0, <3>1, GotoTypes, LabelNames, Constants DEF Camera, ThreadT
    <3>3. [id |-> nframes + 1, key |-> key] \in FrameType
      BY <1>0 DEF ClockT, FrameType
    <3>4. loc \in [Threads -> LocType] /\ Venc \in Threads
      BY <1>0, Constants DEF ThreadT
    <3>5. [loc[Venc] EXCEPT !.frame = [id |-> nframes + 1, key |-> key]] \in LocType
      BY <3>3, <3>4 DEF LocType
    <3>6. loc' = [loc EXCEPT ![Venc] =
                    [loc[Venc] EXCEPT !.frame = [id |-> nframes + 1, key |-> key]]]
      BY <3>1, <3>4 DEF Camera
    <3>7. loc' \in [Threads -> LocType]
      BY <3>4, <3>5, <3>6
    <3> QED BY <1>0, <3>2, <3>7 DEF ThreadT
  <2>2. CASE \E t \in Ctl, o \in Ops \ {"init"} : Call(t, o)
    <3>1. PICK t \in Ctl, o \in Ops \ {"init"} : Call(t, o)
      BY <2>2
    <3>2. t \in Threads
      BY DEF Threads
    <3>3. pc' \in [Threads -> Labels]
      BY <1>0, <3>1, <3>2, GotoTypes, LabelNames DEF Call, ThreadT
    <3>4. op' \in [Threads -> Ops \cup {"none"}] /\ loc' = loc
      BY <1>0, <3>1, <3>2 DEF Call, ThreadT
    <3> QED BY <1>0, <3>3, <3>4 DEF ThreadT
  <2>3. CASE Tick
    BY <1>0, <2>3, Unchanged DEF Tick
  <2> QED BY <2>1, <2>2, <2>3
<1> QED BY <1>0, <1>1, <1>2, <1>3, Unchanged, TypePartsPrimed

LEMMA RecordInitTypes ==
  ASSUME TypeOK, NEW t \in Ctl, RecordInit(t)
  PROVE  /\ TypeOK' /\ queued' = written \o InFlight \o wq'
<1>0. ClockT /\ LifeT /\ ModeT /\ FlagT /\ NameT /\ CountT /\ QueueT /\ RingT
      /\ WriterT /\ LibT /\ ThreadT
  BY TypeParts
<1>1. /\ mode' = "off" /\ segments' = 0 /\ frames' = 0 /\ ring' = <<>> /\ ClearQueue
      /\ disk' = Without(disk, {p \in DOMAIN disk : disk[p].frames = <<>>
                                                     /\ ~disk[p].sealed})
      /\ UNCHANGED <<clockVars, runDeadline, quietDeadline, flagVars, nameVars,
                     segFrames, waitingKey, writing, written, mux, segStart, nopened, gone,
                     threadVars>>
  BY DEF RecordInit
<1>2. PICK o \in InitOutcomes :
        /\ inited' = (o # "nowriter")
        /\ writerRun' = (o = "ok")
        /\ writer' = IF o = "ok" /\ writer = "off" THEN "idle" ELSE writer
        /\ listener' = (o = "ok" \/ listener)
  BY DEF RecordInit
<1>3. LifeT' /\ WriterT'
  BY <1>0, <1>1, <1>2 DEF LifeT, WriterT
<1>4. ModeT' /\ CountT'
  BY <1>0, <1>1 DEF ModeT, Modes, CountT
<1>5. RingT'
  BY <1>1, Constants, ValueTypes DEF RingT
<1>6. QueueT' /\ queued' = written \o InFlight \o wq'
  BY <1>0, <1>1, ClearQueueKeeps
<1>7. LibT'
  BY <1>0, <1>1, DiskWithout DEF LibT
<1> QED BY <1>0, <1>1, <1>3, <1>4, <1>5, <1>6, <1>7, Unchanged, TypePartsPrimed

(* The operations that set deadlines, modes and sources, and leave.        *)
LEMMA SettingTypes ==
  ASSUME TypeOK, NEW t \in Threads,
         Start(t) \/ SetRunDeadline(t) \/ EventExtends(t) \/ Extend(t)
  PROVE  TypeOK'
<1>0. ClockT /\ LifeT /\ ModeT /\ FlagT /\ NameT /\ CountT /\ QueueT /\ RingT
      /\ WriterT /\ LibT /\ ThreadT
  BY TypeParts
<1>1. /\ UNCHANGED <<clockVars, lifeVars, flagVars, curPath, stagePath, ring,
                     writerVars, libVars>>
  BY DEF Start, SetRunDeadline, EventExtends, Extend, nameVars
<1>2. ModeT'
  <2>1. /\ now + QuietSec \in Nat /\ now + RunSec \in Nat /\ now + ExtendSec \in Nat
        /\ mode \in Modes /\ runDeadline \in Nat /\ quietDeadline \in Nat
    BY <1>0, Constants DEF ClockT, ModeT
  <2>2. CASE Start(t)
    BY <2>2 DEF Start, ModeT, Modes
  <2>3. CASE SetRunDeadline(t)
    BY <2>1, <2>3 DEF SetRunDeadline, ModeT
  <2>4. CASE EventExtends(t)
    BY <2>1, <2>4 DEF EventExtends, ModeT, Modes
  <2>5. CASE Extend(t)
    BY <2>1, <2>5 DEF Extend, ModeT
  <2> QED BY <2>2, <2>3, <2>4, <2>5
<1>3. NameT' /\ CountT'
  <2>1. CASE Start(t)
    BY <1>0, <2>1 DEF Start, NameT, CountT, nameVars
  <2>2. CASE SetRunDeadline(t)
    BY <1>0, <2>2, Unchanged DEF SetRunDeadline
  <2>3. CASE EventExtends(t)
    <3>1. /\ segSrc' = segSrc \cup EventSrc(op[t]) /\ pendingSrc' = segSrc'
          /\ UNCHANGED <<curPath, stagePath, countVars>>
      BY <2>3 DEF EventExtends
    <3>2. EventSrc(op[t]) \in SUBSET Sources
      BY DEF EventSrc, Sources
    <3>3. segSrc' \in SUBSET Sources
      BY <1>0, <3>1, <3>2 DEF NameT
    <3> QED BY <1>0, <3>1, <3>3, Unchanged DEF NameT
  <2>4. CASE Extend(t)
    BY <1>0, <2>4, Unchanged DEF Extend
  <2> QED BY <2>1, <2>2, <2>3, <2>4
<1>4. QueueT'
  BY <1>0 DEF Start, SetRunDeadline, EventExtends, Extend, QueueT, queueVars
<1>5. ThreadT'
  <2>1. CASE Leave(t)
    BY <1>0, <2>1, LeaveTypes
  <2>2. CASE Goto(t, "deadline") /\ UNCHANGED <<op, loc>>
    BY <1>0, <2>2, GotoTypes, LabelNames DEF ThreadT
  <2> QED BY <2>1, <2>2 DEF Start, SetRunDeadline, EventExtends, Extend
<1> QED BY <1>0, <1>1, <1>2, <1>3, <1>4, <1>5, Unchanged, TypePartsPrimed

(* The operations that close the open segment, or find none to close.      *)
LEMMA ClosingOperationTypes ==
  ASSUME TypeOK, NEW t \in Threads, Stop(t) \/ Arm(t) \/ Poll(t)
  PROVE  TypeOK'
<1>0. ClockT /\ LifeT /\ ModeT /\ FlagT /\ NameT /\ CountT /\ QueueT /\ RingT
      /\ WriterT /\ LibT /\ ThreadT
  BY TypeParts
<1>1. UNCHANGED <<clockVars, lifeVars, frames, ring, writerVars>>
  BY DEF Stop, Arm, Poll
<1>2. ModeT'
  BY <1>0 DEF Stop, Arm, Poll, ModeT, Modes, modeVars
<1>3. \/ BeginClose(t, "no")
      \/ /\ Leave(t) \/ (Goto(t, "stopped") /\ UNCHANGED <<op, loc>>)
         /\ UNCHANGED <<flagVars, nameVars, segments, segFrames, queueVars, libVars>>
  BY DEF Stop, Arm, Poll
<1>4. FlagT' /\ NameT' /\ QueueT' /\ LibT' /\ ThreadT' /\ segments' \in Nat
      /\ segFrames' \in Nat
  <2>1. CASE BeginClose(t, "no")
    BY <2>1, BeginCloseTypes
  <2>2. CASE /\ Leave(t) \/ (Goto(t, "stopped") /\ UNCHANGED <<op, loc>>)
             /\ UNCHANGED <<flagVars, nameVars, segments, segFrames, queueVars, libVars>>
    <3>1. ThreadT'
      <4>1. CASE Leave(t)
        BY <1>0, <4>1, LeaveTypes
      <4>2. CASE Goto(t, "stopped") /\ UNCHANGED <<op, loc>>
        BY <1>0, <4>2, GotoTypes, LabelNames DEF ThreadT
      <4> QED BY <2>2, <4>1, <4>2
    <3>2. FlagT' /\ NameT' /\ QueueT' /\ LibT'
      BY <1>0, <2>2, Unchanged
    <3> QED BY <1>0, <2>2, <3>1, <3>2 DEF CountT
  <2> QED BY <1>3, <2>1, <2>2
<1>5. CountT'
  BY <1>0, <1>1, <1>4 DEF CountT
<1> QED BY <1>0, <1>1, <1>2, <1>4, <1>5, Unchanged, TypePartsPrimed

LEMMA StopWriterTypes ==
  ASSUME TypeOK, NEW t \in Threads, StopWriter(t)
  PROVE  TypeOK'
<1>0. ClockT /\ LifeT /\ ModeT /\ FlagT /\ NameT /\ CountT /\ QueueT /\ RingT
      /\ WriterT /\ LibT /\ ThreadT
  BY TypeParts
<1>1. /\ listener' = FALSE /\ writerRun' = FALSE /\ Goto(t, "join")
      /\ UNCHANGED <<clockVars, inited, modeVars, flagVars, nameVars, countVars,
                     queueVars, ring, writer, writing, written, libVars, op, loc>>
  BY DEF StopWriter
<1>2. LifeT' /\ WriterT'
  BY <1>0, <1>1 DEF LifeT, WriterT
<1>3. ThreadT'
  BY <1>0, <1>1, GotoTypes, LabelNames DEF ThreadT
<1> QED BY <1>0, <1>1, <1>2, <1>3, Unchanged, TypePartsPrimed

LEMMA JoinedTypes ==
  ASSUME TypeOK, NEW t \in Threads, Joined(t)
  PROVE  /\ TypeOK' /\ queued' = written \o InFlight \o wq'
<1>0. ClockT /\ LifeT /\ ModeT /\ FlagT /\ NameT /\ CountT /\ QueueT /\ RingT
      /\ WriterT /\ LibT /\ ThreadT
  BY TypeParts
<1>1. /\ ring' = <<>> /\ ClearQueue /\ inited' = FALSE /\ Leave(t)
      /\ UNCHANGED <<clockVars, listener, modeVars, flagVars, nameVars, countVars,
                     waitingKey, writerVars, libVars>>
  BY DEF Joined
<1>2. LifeT'
  BY <1>0, <1>1 DEF LifeT
<1>3. RingT'
  BY <1>1, Constants, ValueTypes DEF RingT
<1>4. QueueT' /\ queued' = written \o InFlight \o wq'
  BY <1>0, <1>1, ClearQueueKeeps
<1>5. ThreadT'
  BY <1>0, <1>1, LeaveTypes
<1> QED BY <1>0, <1>1, <1>2, <1>3, <1>4, <1>5, Unchanged, TypePartsPrimed

LEMMA EventOpensTypes ==
  ASSUME TypeOK, NEW t \in Threads, EventOpens(t)
  PROVE  /\ TypeOK'
         /\ QueueConserved => queued' = written \o InFlight \o wq'
<1>0. ClockT /\ LifeT /\ ModeT /\ FlagT /\ NameT /\ CountT /\ QueueT /\ RingT
      /\ WriterT /\ LibT /\ ThreadT
  BY TypeParts
<1>1. /\ mode' = "motion" /\ quietDeadline' = now + QuietSec
      /\ pendingSrc' = EventSrc(op[t]) /\ Leave(t)
      /\ UNCHANGED <<clockVars, lifeVars, runDeadline, frames, writerVars>>
  BY DEF EventOpens
<1>2. PICK o \in OpenOutcomes :
        /\ NameSegment("motion", pendingSrc', o)
        /\ InitMuxer(o, FreshStage, now, Unclosed)
        /\ muxClosing' = IF o \in {"ok", "init"} THEN FALSE ELSE muxClosing
        /\ IF o = "ok"
           THEN /\ \E fs \in Offer(FlushFrames(ring, now), TRUE) :
                     Enqueue(nopened + 1, fs, TRUE)
                /\ ring' = <<>>
           ELSE UNCHANGED <<queueVars, ring>>
  BY DEF EventOpens
<1>3. pendingSrc' \in SUBSET Sources
  BY <1>1 DEF EventSrc, Sources
<1>4. /\ curPath' \in ClipType /\ segSrc' \in SUBSET Sources
      /\ stagePath' \in StageType /\ muxerOpen' \in BOOLEAN
      /\ segActive' \in BOOLEAN /\ segFrames' \in Nat /\ segments' \in Nat
      /\ LibT'
  BY <1>2, <1>3, OpenTypes
<1>5. ModeT'
  BY <1>0, <1>1, Constants DEF ModeT, Modes, ClockT
<1>6. FlagT' /\ NameT' /\ CountT'
  BY <1>0, <1>1, <1>2, <1>3, <1>4 DEF FlagT, NameT, CountT
<1>7. /\ QueueT' /\ RingT'
      /\ QueueConserved => queued' = written \o InFlight \o wq'
  <2>1. CASE o = "ok"
    <3>1. PICK fs \in Offer(FlushFrames(ring, now), TRUE) : Enqueue(nopened + 1, fs, TRUE)
      BY <1>2, <2>1
    <3>2. FlushFrames(ring, now) \in Seq(FrameType)
      <4>1. ring \in Seq([frame : FrameType, wall : Nat]) /\ now \in Nat
        BY <1>0 DEF RingT, RingType, ClockT
      <4> QED BY <4>1, FlushTypes
    <3>3. fs \in Seq(FrameType) /\ Len(wq) + Len(fs) <= WQ_CAP /\ nopened + 1 \in Nat
      <4>1. \A a \in Offer(FlushFrames(ring, now), TRUE) :
              a \in Seq(FrameType) /\ Len(wq) + Len(a) <= WQ_CAP
        BY <1>0, <3>2, OfferProperties
      <4>2. nopened + 1 \in Nat
        BY <1>0 DEF LibT
      <4> QED BY <3>1, <4>1, <4>2
    <3>4. RingT'
      BY <1>2, <2>1, Constants, ValueTypes DEF RingT
    <3> QED BY <1>0, <3>1, <3>3, <3>4, EnqueueKeeps
  <2>2. CASE o # "ok"
    <3>1. UNCHANGED queueVars /\ UNCHANGED ring
      BY <1>2, <2>2
    <3> QED BY <1>0, <3>1, Unchanged DEF queueVars, QueueConserved
  <2> QED BY <2>1, <2>2
<1>8. ThreadT'
  BY <1>0, <1>1, LeaveTypes
<1> QED BY <1>0, <1>1, <1>4, <1>5, <1>6, <1>7, <1>8, Unchanged, TypePartsPrimed

LEMMA OperationTypes ==
  ASSUME TypeOK, NEW t \in Ctl, Operation(t)
  PROVE  TypeOK'
<1>1. t \in Threads
  BY DEF Threads
<1> QED BY <1>1, SettingTypes, ClosingOperationTypes, StopWriterTypes, JoinedTypes,
           EventOpensTypes DEF Operation

(* The writer takes the oldest entry, hands it to the library, and counts. *)
LEMMA WriterTypes ==
  ASSUME TypeOK, Writer
  PROVE  /\ TypeOK'
         /\ QueueConserved => QueueConserved'
<1>0. ClockT /\ LifeT /\ ModeT /\ FlagT /\ NameT /\ CountT /\ QueueT /\ RingT
      /\ WriterT /\ LibT /\ ThreadT
  BY TypeParts
<1>1. CASE WriterTake
  <2>1. /\ writer = "idle" /\ wq # <<>> /\ writing' = Head(wq) /\ wq' = Tail(wq)
        /\ writer' = "write"
        /\ UNCHANGED <<clockVars, lifeVars, modeVars, flagVars, nameVars, countVars,
                       waitingKey, queued, cleared, ring, writerRun, written, libVars,
                       threadVars>>
    BY <1>1 DEF WriterTake
  <2>2. /\ Head(wq) \in EntryType /\ Tail(wq) \in Seq(EntryType)
        /\ Len(Tail(wq)) = Len(wq) - 1 /\ Len(wq) \in Nat
        /\ <<Head(wq)>> \in Seq(EntryType)
    BY <1>0, <2>1, HeadTailProperties, LenProperties DEF QueueT
  <2>3. QueueT' /\ WriterT'
    BY <1>0, <2>1, <2>2, Constants DEF QueueT, WriterT
  <2>4. wq = <<Head(wq)>> \o Tail(wq)
    <3>1. Len(wq) \in 1 .. Len(wq) /\ 1 \in 1 .. Len(wq)
      BY <1>0, <2>1, EmptySeq DEF QueueT
    <3>2. SubSeq(wq, 1, Len(wq)) = <<wq[1]>> \o SubSeq(wq, 2, Len(wq))
      BY <1>0, <3>1, SubSeqRecursiveFirst DEF QueueT
    <3>3. SubSeq(wq, 1, Len(wq)) = wq /\ Tail(wq) = SubSeq(wq, 2, Len(wq))
      BY <1>0, <2>1, SubSeqFull, TailIsSubSeq DEF QueueT
    <3> QED BY <1>0, <3>2, <3>3 DEF QueueT
  <2>5. ASSUME QueueConserved PROVE QueueConserved'
    <3>1. InFlight = <<>> /\ InFlight' = <<Head(wq)>>
      BY <2>1 DEF InFlight
    <3>2. queued = written \o <<>> \o wq /\ written \o <<>> = written
      BY <1>0, <2>5, <3>1, ConcatEmptySeq DEF QueueConserved, WriterT
    <3>3. written \o (<<Head(wq)>> \o Tail(wq)) = (written \o <<Head(wq)>>) \o Tail(wq)
      BY <1>0, <2>2, ConcatAssociative DEF WriterT
    <3>4. queued = written \o <<Head(wq)>> \o Tail(wq)
      BY <2>4, <3>2, <3>3
    <3> QED BY <2>1, <3>1, <3>4 DEF QueueConserved
  <2> QED BY <1>0, <2>1, <2>3, <2>5, Unchanged, TypePartsPrimed
<1>2. CASE WriterWrite
  <2>1. /\ writer = "write" /\ written' = Append(written, writing) /\ writer' = "count"
        /\ disk' = IF mux \in DOMAIN disk
                   THEN [disk EXCEPT ![mux].frames = Append(@, writing)] ELSE disk
        /\ UNCHANGED <<clockVars, lifeVars, modeVars, flagVars, nameVars, countVars,
                       queueVars, ring, writerRun, writing, mux, segStart, nopened, gone,
                       threadVars>>
    BY <1>2 DEF WriterWrite
  <2>2. writing \in EntryType /\ written \in Seq(EntryType)
    BY <1>0 DEF WriterT
  <2>3. Append(written, writing) \in Seq(EntryType)
        /\ Append(written, writing) = written \o <<writing>>
    BY <2>2, AppendProperties, AppendIsConcat
  <2>4. WriterT'
    BY <1>0, <2>1, <2>3 DEF WriterT
  <2>5. DiskOK(disk')
    <3>1. CASE mux \in DOMAIN disk
      <4>1. disk[mux] \in FileType
        BY <1>0, <3>1 DEF LibT, DiskOK
      <4>2. Append(disk[mux].frames, writing) \in Seq(EntryType)
        BY <2>2, <4>1, AppendProperties DEF FileType
      <4>3. [disk[mux] EXCEPT !.frames = Append(disk[mux].frames, writing)] \in FileType
        BY <4>1, <4>2 DEF FileType
      <4>4. /\ DOMAIN disk' = DOMAIN disk
            /\ \A p \in DOMAIN disk : disk'[p] =
                 IF p = mux
                 THEN [disk[mux] EXCEPT !.frames = Append(disk[mux].frames, writing)]
                 ELSE disk[p]
        BY <2>1, <3>1
      <4> QED BY <1>0, <4>3, <4>4 DEF DiskOK, LibT
    <3>2. CASE mux \notin DOMAIN disk
      BY <1>0, <2>1, <3>2 DEF LibT
    <3> QED BY <3>1, <3>2
  <2>6. LibT'
    BY <1>0, <2>1, <2>5 DEF LibT
  <2>7. ASSUME QueueConserved PROVE QueueConserved'
    <3>1. InFlight = <<writing>> /\ InFlight' = <<>>
      BY <2>1 DEF InFlight
    <3>2. queued = written \o <<writing>> \o wq
      BY <2>7, <3>1 DEF QueueConserved
    <3>3. written' \o <<>> = written'
      BY <2>1, <2>3, ConcatEmptySeq
    <3>4. wq' = wq /\ queued' = queued
      BY <2>1 DEF queueVars
    <3> QED BY <2>1, <2>3, <3>1, <3>2, <3>3, <3>4 DEF QueueConserved
  <2> QED BY <1>0, <2>1, <2>4, <2>6, <2>7, Unchanged, TypePartsPrimed
<1>3. CASE WriterCount
  <2>1. /\ writer = "count" /\ writing' = NoEntry /\ frames' = frames + 1
        /\ segFrames' = segFrames + 1 /\ writer' = "idle"
        /\ UNCHANGED <<clockVars, lifeVars, modeVars, flagVars, nameVars, segments,
                       queueVars, ring, writerRun, written, libVars, threadVars>>
    BY <1>3 DEF WriterCount
  <2>2. WriterT' /\ CountT'
    BY <1>0, <2>1, ValueTypes DEF WriterT, CountT
  <2>3. InFlight' = InFlight
    BY <2>1 DEF InFlight
  <2> QED BY <1>0, <2>1, <2>2, <2>3, Unchanged, TypePartsPrimed
          DEF QueueConserved, queueVars
<1>4. CASE WriterExit
  <2>1. /\ writer = "idle" /\ writer' = "off"
        /\ UNCHANGED <<clockVars, lifeVars, modeVars, flagVars, nameVars, countVars,
                       queueVars, ring, writerRun, writing, written, libVars, threadVars>>
    BY <1>4 DEF WriterExit
  <2>2. WriterT'
    BY <1>0, <2>1 DEF WriterT
  <2>3. InFlight' = InFlight
    BY <2>1 DEF InFlight
  <2> QED BY <1>0, <2>1, <2>2, <2>3, Unchanged, TypePartsPrimed
          DEF QueueConserved, queueVars
<1> QED BY <1>1, <1>2, <1>3, <1>4 DEF Writer
-----------------------------------------------------------------------------
(* The invariant                                                           *)

LEMMA InitTypes == Init => TypeOK /\ QueueConserved
<1> SUFFICES ASSUME Init PROVE TypeOK /\ QueueConserved
  OBVIOUS
<1>1. ClockT /\ LifeT /\ ModeT /\ FlagT /\ CountT
  BY DEF Init, ClockT, LifeT, ModeT, Modes, FlagT, CountT
<1>2. NameT
  BY ValueTypes DEF Init, NameT
<1>3. QueueT /\ RingT /\ WriterT
  <2>1. /\ waitingKey = FALSE /\ wq = <<>> /\ ring = <<>> /\ queued = <<>> /\ cleared = 0
        /\ writerRun = FALSE /\ writer = "off" /\ writing = NoEntry /\ written = <<>>
    BY DEF Init
  <2>2. Len(wq) <= WQ_CAP /\ Len(ring) <= RING_CAP
    BY <2>1, Constants
  <2>3. WriterT
    BY <2>1, ValueTypes DEF WriterT
  <2> QED BY <2>1, <2>2, <2>3, ValueTypes DEF QueueT, RingT
<1>4. LibT
  <2>1. disk = <<>> /\ mux = NoStage /\ segStart = 0 /\ nopened = 0 /\ gone = {}
    BY DEF Init
  <2>2. DiskOK(<<>>)
    BY DEF DiskOK
  <2> QED BY <2>1, <2>2, ValueTypes DEF LibT
<1>5. ThreadT
  <2>1. /\ pc = [t \in Threads |-> "idle"] /\ op = [t \in Threads |-> "none"]
        /\ loc = [t \in Threads |-> NoLoc]
    BY DEF Init
  <2> QED BY <2>1, LabelNames, ValueTypes DEF ThreadT
<1>6. QueueConserved
  BY DEF Init, QueueConserved, InFlight
<1> QED BY <1>1, <1>2, <1>3, <1>4, <1>5, <1>6, TypeParts

(* Steps of the other threads do not move the writer.                      *)
LEMMA QueueUntouched ==
  ASSUME QueueConserved, UNCHANGED <<wq, queued, writer, writing, written>>
  PROVE  QueueConserved'
BY DEF QueueConserved, InFlight

LEMMA QueueMoved ==
  ASSUME queued' = written \o InFlight \o wq', UNCHANGED <<writer, writing, written>>
  PROVE  QueueConserved'
BY DEF QueueConserved, InFlight

LEMMA OpeningQueue ==
  ASSUME TypeOK, QueueConserved, NEW t \in Threads,
         CloseReopen(t) \/ OverInit(t)
  PROVE  QueueConserved'
<1>1. QueueT /\ WriterT /\ LibT /\ loc[t] \in LocType
  BY TypeParts DEF ThreadT
<1>2. UNCHANGED <<writer, writing, written>> /\ \E o : WriteAfterRoll(o, loc[t])
  BY DEF CloseReopen, OverInit, writerVars
<1> QED BY <1>1, <1>2, WriteAfterRollTypes, QueueMoved

LEMMA CloseQueue ==
  ASSUME TypeOK, QueueConserved, NEW t \in Threads, Close(t)
  PROVE  QueueConserved'
<1>1. CASE DrainDone(t) \/ CloseMark(t) \/ MuxDeinit(t) \/ OverDrainDone(t)
  BY <1>1, QueueUntouched
     DEF DrainDone, CloseMark, MuxDeinit, OverDrainDone, queueVars, writerVars
<1>2. CASE CloseFinish(t) \/ CloseReopenBusy(t)
  BY <1>2, QueueUntouched DEF CloseFinish, CloseReopenBusy, queueVars, writerVars
<1>3. CASE CloseReopen(t) \/ OverInit(t)
  BY <1>3, OpeningQueue
<1> QED BY <1>1, <1>2, <1>3 DEF Close

LEMMA PacketQueue ==
  ASSUME TypeOK, QueueConserved, OnPacket
  PROVE  QueueConserved'
<1>1. CASE PacketIgnored \/ PacketBuffered
  BY <1>1, QueueUntouched DEF PacketIgnored, PacketBuffered, queueVars, writerVars
<1>2. CASE PacketRunOver \/ PacketRoll \/ PacketQuiet
  BY <1>2, QueueUntouched DEF PacketRunOver, PacketRoll, PacketQuiet, BeginClose,
     queueVars, writerVars
<1>3. CASE PacketOpen
  BY <1>3, PacketOpenTypes, QueueMoved DEF PacketOpen, writerVars
<1>4. CASE PacketWrite
  BY <1>4, PacketWriteTypes, QueueMoved DEF PacketWrite, writerVars
<1> QED BY <1>1, <1>2, <1>3, <1>4 DEF OnPacket

LEMMA OperationQueue ==
  ASSUME TypeOK, QueueConserved, NEW t \in Ctl, Operation(t)
  PROVE  QueueConserved'
<1>0. t \in Threads
  BY DEF Threads
<1>1. CASE Start(t) \/ SetRunDeadline(t) \/ EventExtends(t) \/ Extend(t)
  BY <1>1, QueueUntouched DEF Start, SetRunDeadline, EventExtends, Extend, queueVars,
     writerVars
<1>2. CASE Stop(t) \/ Arm(t) \/ Poll(t)
  BY <1>2, QueueUntouched DEF Stop, Arm, Poll, BeginClose, queueVars, writerVars
<1>3. CASE StopWriter(t)
  BY <1>3, QueueUntouched DEF StopWriter, queueVars
<1>4. CASE Joined(t)
  BY <1>0, <1>4, JoinedTypes, QueueMoved DEF Joined, writerVars
<1>5. CASE EventOpens(t)
  BY <1>0, <1>5, EventOpensTypes, QueueMoved DEF EventOpens, writerVars
<1> QED BY <1>1, <1>2, <1>3, <1>4, <1>5 DEF Operation

(* record_init may start the writer, but only one that was off.            *)
LEMMA InitQueue ==
  ASSUME TypeOK, QueueConserved, NEW t \in Ctl, RecordInit(t)
  PROVE  QueueConserved'
<1>1. queued' = written \o InFlight \o wq'
  BY RecordInitTypes
<1>2. UNCHANGED <<writing, written>>
      /\ (writer' = writer \/ (writer = "off" /\ writer' = "idle"))
  BY DEF RecordInit
<1> QED BY <1>1, <1>2 DEF QueueConserved, InFlight

LEMMA OutsideQueue ==
  ASSUME QueueConserved,
         \/ \E key \in BOOLEAN : Camera(key)
         \/ \E t \in Ctl, o \in Ops \ {"init"} : Call(t, o)
         \/ Tick
  PROVE  QueueConserved'
BY QueueUntouched DEF Camera, Call, Tick, queueVars, writerVars

LEMMA NextInv ==
  TypeOK /\ QueueConserved /\ [Next]_vars => (TypeOK /\ QueueConserved)'
<1> SUFFICES ASSUME TypeOK, QueueConserved, [Next]_vars
             PROVE  TypeOK' /\ QueueConserved'
  OBVIOUS
<1>1. CASE \/ \E key \in BOOLEAN : Camera(key)
           \/ \E t \in Ctl, o \in Ops \ {"init"} : Call(t, o)
           \/ Tick
  BY <1>1, OutsideTypes, OutsideQueue
<1>2. CASE OnPacket
  BY <1>2, PacketTypes, PacketQueue
<1>3. ASSUME NEW t \in Threads, Close(t) PROVE TypeOK' /\ QueueConserved'
  BY <1>3, CloseTypes, CloseQueue
<1>4. ASSUME NEW t \in Ctl, RecordInit(t) PROVE TypeOK' /\ QueueConserved'
  BY <1>4, RecordInitTypes, InitQueue
<1>5. ASSUME NEW t \in Ctl, Operation(t) PROVE TypeOK' /\ QueueConserved'
  BY <1>5, OperationTypes, OperationQueue
<1>6. CASE Writer
  BY <1>6, WriterTypes
<1>7. CASE UNCHANGED vars
  <2>1. UNCHANGED <<clockVars, lifeVars, modeVars, flagVars, nameVars, countVars,
                    queueVars, ring, writerVars, libVars, threadVars>>
    BY <1>7 DEF vars
  <2>2. TypeOK'
    BY <2>1, TypeParts, TypePartsPrimed, Unchanged
  <2>3. QueueConserved'
    BY <2>1, QueueUntouched DEF queueVars, writerVars
  <2> QED BY <2>2, <2>3
<1> QED BY <1>1, <1>2, <1>3, <1>4, <1>5, <1>6, <1>7 DEF Next

(* Whatever the threads do and whatever fails, every field of g_rec keeps  *)
(* its type and neither the mux queue nor the pre-record ring is ever      *)
(* written past its end (write_frame_locked, ring_push_locked).            *)
THEOREM TypesAlwaysOK == Spec => []TypeOK
<1>1. Init => TypeOK /\ QueueConserved
  BY InitTypes
<1>2. TypeOK /\ QueueConserved /\ [Next]_vars => (TypeOK /\ QueueConserved)'
  BY NextInv
<1> QED BY <1>1, <1>2, PTL DEF Spec

(* For any number of control threads and whichever operations overlap a    *)
(* close, the mux queue loses, repeats and reorders nothing: what          *)
(* write_frame_locked accepted is what the library got, what the writer    *)
(* thread holds, and what is still queued, in that order.                  *)
THEOREM QueueIsConserved == Spec => []QueueConserved
<1>1. Init => TypeOK /\ QueueConserved
  BY InitTypes
<1>2. TypeOK /\ QueueConserved /\ [Next]_vars => (TypeOK /\ QueueConserved)'
  BY NextInv
<1> QED BY <1>1, <1>2, PTL DEF Spec

-----------------------------------------------------------------------------
(* Capture order                                                           *)

(* Frames that on_packet has been handed: all but the one the encoder's    *)
(* thread holds while it waits for the mutex.                              *)
Delivered == IF AtPacket THEN nframes - 1 ELSE nframes

Rising(fs) == \A i, j \in 1 .. Len(fs) : i < j => fs[i].id < fs[j].id

(* Only the encoder's thread holds a frame, and it is the newest one.      *)
HeldIsNewest ==
  /\ AtPacket => loc[Venc].frame.id = nframes /\ nframes > 0
  /\ loc[Venc].frame.id <= nframes
  /\ \A t \in Ctl : loc[t].frame = NoFrame

(* The pre-record ring holds delivered frames in capture order.            *)
RingInOrder ==
  /\ \A i \in 1 .. Len(ring) : ring[i].frame.id <= Delivered
  /\ \A i, j \in 1 .. Len(ring) : i < j => ring[i].frame.id < ring[j].frame.id

(* What is queued is delivered, and belongs to a segment that was opened.  *)
QueueKnown ==
  \A i \in 1 .. Len(queued) :
    queued[i].seg <= nopened /\ queued[i].frame.id <= Delivered

CaptureInv == HeldIsNewest /\ RingInOrder /\ QueueKnown /\ CaptureOrder

LEMMA EntryParts ==
  /\ \A f \in FrameType : f.id \in Nat /\ f.key \in BOOLEAN
  /\ \A e \in EntryType : e.seg \in Nat /\ e.frame \in FrameType /\ e.frame.id \in Nat
BY DEF EntryType, FrameType

LEMMA QueuedParts ==
  ASSUME NEW q \in Seq(EntryType)
  PROVE  /\ Len(q) \in Nat
         /\ \A i \in 1 .. Len(q) :
              q[i] \in EntryType /\ q[i].seg \in Nat /\ q[i].frame.id \in Nat
BY LenProperties, ElementOfSeq, EntryParts

(* A step that hands no new frame over, and takes none back.               *)
SameFrames ==
  /\ nframes' = nframes
  /\ AtPacket' => AtPacket /\ loc'[Venc].frame = loc[Venc].frame
  /\ \A u \in Threads : loc'[u].frame \in {loc[u].frame, NoFrame}

LEMMA DeliveredGrows ==
  ASSUME TypeOK, HeldIsNewest
  PROVE  /\ Delivered \in Nat /\ Delivered <= nframes
         /\ SameFrames => HeldIsNewest' /\ Delivered' \in Nat /\ Delivered <= Delivered'
<1>0. nframes \in Nat /\ Venc \in Threads /\ \A t \in Ctl : t \in Threads
  BY Constants DEF TypeOK, Threads
<1>1. Delivered \in Nat /\ Delivered <= nframes
  BY <1>0 DEF Delivered, HeldIsNewest
<1>2. ASSUME SameFrames
      PROVE  HeldIsNewest' /\ Delivered' \in Nat /\ Delivered <= Delivered'
  <2>1. Delivered' \in Nat /\ Delivered <= Delivered'
    BY <1>0, <1>2 DEF Delivered, HeldIsNewest, SameFrames
  <2>2. AtPacket' => loc'[Venc].frame.id = nframes' /\ nframes' > 0
    BY <1>2 DEF HeldIsNewest, SameFrames
  <2>3. loc'[Venc].frame.id <= nframes'
    BY <1>0, <1>2 DEF HeldIsNewest, SameFrames, NoFrame
  <2>4. \A t \in Ctl : loc'[t].frame = NoFrame
    BY <1>0, <1>2 DEF HeldIsNewest, SameFrames
  <2> QED BY <2>1, <2>2, <2>3, <2>4 DEF HeldIsNewest
<1> QED BY <1>1, <1>2

(* A prefix of an ordered queue is ordered.                                *)
LEMMA PrefixKnown ==
  ASSUME QueueKnown, CaptureOrder, nopened' = nopened, Delivered \in Nat, Delivered' \in Nat,
         Delivered <= Delivered', nopened \in Nat,
         queued \in Seq(EntryType), queued' \in Seq(EntryType),
         Len(queued') <= Len(queued),
         \A i \in 1 .. Len(queued') : queued'[i] = queued[i]
  PROVE  QueueKnown' /\ CaptureOrder'
<1>0. Len(queued) \in Nat /\ Len(queued') \in Nat
  BY LenProperties
<1>1. \A i \in 1 .. Len(queued') : i \in 1 .. Len(queued)
  BY <1>0
<1>2. \A i \in 1 .. Len(queued) : queued[i].frame.id \in Nat
  BY QueuedParts
<1>3. QueueKnown'
  BY <1>0, <1>1, <1>2 DEF QueueKnown
<1>4. CaptureOrder'
  BY <1>0, <1>1 DEF CaptureOrder
<1> QED BY <1>3, <1>4

(* Frames that rise, all of them newer than what their segment has, keep   *)
(* the order when they are queued.                                         *)
LEMMA EnqueueInOrder ==
  ASSUME TypeOK, QueueKnown, CaptureOrder, nopened' \in Nat, nopened <= nopened',
         Delivered \in Nat, Delivered' \in Nat, Delivered <= Delivered',
         NEW seg \in Nat, seg <= nopened', NEW fs \in Seq(FrameType), Rising(fs),
         \A i \in 1 .. Len(fs) : fs[i].id <= Delivered',
         \/ nopened < seg
         \/ \A i \in 1 .. Len(fs) : Delivered < fs[i].id,
         NEW waiting, Enqueue(seg, fs, waiting)
  PROVE  QueueKnown' /\ CaptureOrder'
<1> DEFINE new == [i \in 1 .. Len(fs) |-> [seg |-> seg, frame |-> fs[i]]]
<1>. /\ queued \in Seq(EntryType) /\ nopened \in Nat
  BY DEF TypeOK
<1>0. Len(fs) \in Nat /\ Len(queued) \in Nat
  BY LenProperties
<1>1. \A i \in 1 .. Len(fs) : fs[i] \in FrameType /\ fs[i].id \in Nat
  BY ElementOfSeq, EntryParts
<1>2. \A i \in 1 .. Len(queued) :
        queued[i].frame.id \in Nat /\ queued[i].seg \in Nat
  BY QueuedParts
<1>3. /\ new \in Seq(EntryType) /\ Len(new) = Len(fs)
      /\ \A i \in 1 .. Len(fs) : new[i].seg = seg /\ new[i].frame = fs[i]
  <2>1. \A i \in 1 .. Len(fs) : [seg |-> seg, frame |-> fs[i]] \in EntryType
    BY <1>1 DEF EntryType
  <2>2. \A i \in 1 .. Len(fs) : new[i].seg = seg /\ new[i].frame = fs[i]
    OBVIOUS
  <2> HIDE DEF EntryType, FrameType
  <2>3. new \in Seq(EntryType) /\ Len(new) = Len(fs)
    BY <1>0, <2>1
  <2> QED BY <2>2, <2>3
<1>4. queued' = queued \o new
  BY DEF Enqueue
<1> HIDE DEF new
<1>5. /\ queued' \in Seq(EntryType) /\ Len(queued') = Len(queued) + Len(fs)
      /\ \A i \in 1 .. Len(queued) + Len(fs) :
           queued'[i] = IF i <= Len(queued) THEN queued[i] ELSE new[i - Len(queued)]
  <2> HIDE DEF EntryType
  <2>1. queued \in Seq(EntryType) /\ new \in Seq(EntryType)
    BY <1>3
  <2>2. /\ queued \o new \in Seq(EntryType)
        /\ Len(queued \o new) = Len(queued) + Len(new)
        /\ \A i \in 1 .. Len(queued) + Len(new) :
             (queued \o new)[i] = IF i <= Len(queued) THEN queued[i]
                                  ELSE new[i - Len(queued)]
    BY ONLY <2>1, ConcatProperties
  <2> QED BY <1>3, <1>4, <2>2
<1>6. \A i \in 1 .. Len(queued') :
        \/ i \in 1 .. Len(queued) /\ queued'[i] = queued[i]
        \/ /\ i - Len(queued) \in 1 .. Len(fs) /\ queued'[i].seg = seg
           /\ queued'[i].frame = fs[i - Len(queued)]
  BY <1>0, <1>3, <1>5
<1>7. QueueKnown'
  <2> SUFFICES ASSUME NEW i \in 1 .. Len(queued')
               PROVE  queued'[i].seg <= nopened' /\ queued'[i].frame.id <= Delivered'
    BY DEF QueueKnown
  <2>1. CASE i \in 1 .. Len(queued) /\ queued'[i] = queued[i]
    BY <1>0, <1>2, <2>1 DEF QueueKnown
  <2>2. CASE /\ i - Len(queued) \in 1 .. Len(fs) /\ queued'[i].seg = seg
             /\ queued'[i].frame = fs[i - Len(queued)]
    BY <2>2
  <2> QED BY <1>6, <2>1, <2>2
<1>8. CaptureOrder'
  <2> SUFFICES ASSUME NEW i \in 1 .. Len(queued'), NEW j \in 1 .. Len(queued'),
                      i < j, queued'[i].seg = queued'[j].seg
               PROVE  queued'[i].frame.id < queued'[j].frame.id
    BY DEF CaptureOrder
  <2>1. CASE j \in 1 .. Len(queued) /\ queued'[j] = queued[j]
    <3>1. i \in 1 .. Len(queued) /\ queued'[i] = queued[i]
      <4>1. Len(queued') = Len(queued) + Len(fs)
        BY <1>5
      <4>2. i \in 1 .. Len(queued)
        BY <1>0, <2>1, <4>1
      <4> QED BY <1>0, <1>6, <4>2
    <3>2. \A a, b \in 1 .. Len(queued) :
            a < b /\ queued[a].seg = queued[b].seg => queued[a].frame.id < queued[b].frame.id
      BY DEF CaptureOrder
    <3> QED BY <2>1, <3>1, <3>2, Zenon
  <2>2. CASE /\ j - Len(queued) \in 1 .. Len(fs) /\ queued'[j].seg = seg
             /\ queued'[j].frame = fs[j - Len(queued)]
    <3>1. CASE i \in 1 .. Len(queued) /\ queued'[i] = queued[i]
      <4>1. ~ (nopened < seg)
        BY <1>0, <1>2, <2>2, <3>1 DEF QueueKnown
      <4>2. Delivered < queued'[j].frame.id
        BY <2>2, <4>1
      <4>3. queued'[i].frame.id <= Delivered
        BY <3>1 DEF QueueKnown
      <4> QED BY <1>1, <1>2, <2>2, <3>1, <4>2, <4>3
    <3>2. CASE /\ i - Len(queued) \in 1 .. Len(fs) /\ queued'[i].seg = seg
               /\ queued'[i].frame = fs[i - Len(queued)]
      <4>1. i - Len(queued) < j - Len(queued)
        BY <1>0
      <4> QED BY <2>2, <3>2, <4>1 DEF Rising
    <3> QED BY <1>6, <3>1, <3>2
  <2> QED BY <1>6, <2>1, <2>2
<1> QED BY <1>7, <1>8

(* What is offered is accepted in a prefix, or not at all; while a segment *)
(* waits for its key frame, only one that starts with a key frame.         *)
LEMMA OfferIsPrefix ==
  ASSUME QueueT, NEW fs \in Seq(FrameType), NEW waiting \in BOOLEAN
  PROVE  \A a \in Offer(fs, waiting) :
           /\ a \in Seq(FrameType) /\ Len(a) <= Len(fs)
           /\ \A i \in 1 .. Len(a) : a[i] = fs[i]
           /\ a # <<>> => fs # <<>> /\ (waiting => fs[1].key)
<1>0. WQ_CAP \in Nat /\ Len(wq) \in Nat /\ Len(fs) \in Nat /\ Len(wq) <= WQ_CAP
  BY Constants, LenProperties DEF QueueT
<1> DEFINE n == IF Len(fs) <= WQ_CAP - Len(wq) THEN Len(fs) ELSE WQ_CAP - Len(wq)
<1>1. n \in Nat /\ n <= Len(fs)
  BY <1>0
<1>2. \A a \in Offer(fs, waiting) :
        a = <<>> \/ (a = SubSeq(fs, 1, n) /\ fs # <<>> /\ (waiting => fs[1].key))
  <2>1. \A a \in Offer(fs, waiting) : a = Admitted(fs, waiting) \/ a = <<>>
    BY DEF Offer
  <2>2. CASE fs = <<>> \/ (waiting /\ ~fs[1].key)
    BY <2>1, <2>2 DEF Admitted
  <2>3. CASE ~(fs = <<>> \/ (waiting /\ ~fs[1].key))
    BY <2>1, <2>3 DEF Admitted, n
  <2> QED BY <2>2, <2>3
<1> HIDE DEF n
<1>3. /\ SubSeq(fs, 1, n) \in Seq(FrameType)
      /\ Len(SubSeq(fs, 1, n)) = n
      /\ \A i \in 1 .. n : SubSeq(fs, 1, n)[i] = fs[i]
  <2>1. \A i \in 1 .. n : fs[i] \in FrameType
    BY <1>0, <1>1, ElementOfSeq
  <2>2. /\ SubSeq(fs, 1, n) \in Seq(FrameType)
        /\ Len(SubSeq(fs, 1, n)) = IF 1 <= n THEN n - 1 + 1 ELSE 0
        /\ \A i \in 1 .. n - 1 + 1 : SubSeq(fs, 1, n)[i] = fs[1 + i - 1]
    BY <1>1, <2>1, SubSeqProperties
  <2>3. n - 1 + 1 = n /\ \A i \in 1 .. n : 1 + i - 1 = i
    BY <1>1
  <2> QED BY <1>1, <2>2, <2>3
<1>4. <<>> \in Seq(FrameType) /\ Len(<<>>) = 0 /\ Len(<<>>) <= Len(fs)
  BY <1>0, ValueTypes
<1> SUFFICES ASSUME NEW a \in Offer(fs, waiting)
             PROVE  /\ a \in Seq(FrameType) /\ Len(a) <= Len(fs)
                    /\ \A i \in 1 .. Len(a) : a[i] = fs[i]
                    /\ a # <<>> => fs # <<>> /\ (waiting => fs[1].key)
  OBVIOUS
<1>5. CASE a = <<>>
  BY <1>4, <1>5
<1>6. CASE a = SubSeq(fs, 1, n) /\ fs # <<>> /\ (waiting => fs[1].key)
  BY <1>1, <1>3, <1>6
<1> QED BY <1>2, <1>5, <1>6

(* A live frame is accepted or dropped.                                    *)
LEMMA LiveIsOne ==
  ASSUME QueueT, NEW f \in FrameType, NEW waiting \in BOOLEAN
  PROVE  \A a \in OfferLive(f, waiting) :
           /\ a \in Seq(FrameType) /\ Len(a) <= 1
           /\ \A i \in 1 .. Len(a) : a[i] = f
           /\ a # <<>> => (waiting => f.key)
<1>1. <<f>> \in Seq(FrameType) /\ Len(<<f>>) = 1 /\ <<f>>[1] = f
  OBVIOUS
<1>2. \A a \in Offer(<<f>>, waiting) :
        /\ a \in Seq(FrameType) /\ Len(a) <= 1
        /\ \A i \in 1 .. Len(a) : a[i] = <<f>>[i]
        /\ a # <<>> => (waiting => f.key)
  BY <1>1, OfferIsPrefix
<1>3. /\ <<>> \in Seq(FrameType) /\ Len(<<>>) <= 1
      /\ \A i \in 1 .. Len(<<>>) : <<>>[i] = f
  BY ValueTypes
<1>4. \A a \in OfferLive(f, waiting) : a \in Offer(<<f>>, waiting) \/ a = <<>>
  BY DEF OfferLive
<1> SUFFICES ASSUME NEW a \in OfferLive(f, waiting)
             PROVE  /\ a \in Seq(FrameType) /\ Len(a) <= 1
                    /\ \A i \in 1 .. Len(a) : a[i] = f
                    /\ a # <<>> => (waiting => f.key)
  OBVIOUS
<1>5. CASE a = <<>>
  BY <1>3, <1>5
<1>6. CASE a \in Offer(<<f>>, waiting)
  <2>1. Len(a) \in Nat /\ Len(a) <= 1
    BY <1>2, <1>6, LenProperties
  <2>2. \A i \in 1 .. Len(a) : i = 1 /\ a[i] = <<f>>[i]
    BY <1>2, <1>6, <2>1
  <2> QED BY <1>1, <1>2, <1>6, <2>1, <2>2
<1> QED BY <1>4, <1>5, <1>6

LEMMA LiveRises ==
  ASSUME QueueT, NEW f \in FrameType, NEW waiting \in BOOLEAN,
         NEW a \in OfferLive(f, waiting)
  PROVE  a \in Seq(FrameType) /\ Rising(a) /\ \A i \in 1 .. Len(a) : a[i].id = f.id
<1>1. a \in Seq(FrameType) /\ Len(a) <= 1 /\ \A i \in 1 .. Len(a) : a[i] = f
  BY LiveIsOne
<1>2. Len(a) \in Nat
  BY <1>1, LenProperties
<1>3. ~ \E i, j \in 1 .. Len(a) : i < j
  BY <1>1, <1>2
<1> QED BY <1>1, <1>3 DEF Rising

(* What an event clip starts with is in capture order.                     *)
LEMMA FlushRises ==
  ASSUME TypeOK, RingInOrder, NEW waiting \in BOOLEAN,
         NEW a \in Offer(FlushFrames(ring, now), waiting)
  PROVE  a \in Seq(FrameType) /\ Rising(a) /\ \A i \in 1 .. Len(a) : a[i].id <= Delivered
<1> DEFINE fs == FlushFrames(ring, now)
<1>0. QueueT /\ RingT /\ ClockT
  BY TypeParts
<1>1. ring \in Seq([frame : FrameType, wall : Nat]) /\ now \in Nat
  BY <1>0 DEF RingT, RingType, ClockT
<1>2. fs \in Seq(FrameType)
  BY <1>1, FlushTypes
<1>3. fs # <<>> =>
        \E k \in 1 .. Len(ring) :
           /\ ring[k].frame.key
           /\ Len(fs) = Len(ring) - k + 1
           /\ \A i \in 1 .. Len(ring) - k + 1 : fs[i] = ring[k + i - 1].frame
  BY <1>1, FlushIsTail, ZenonT(40)
<1> HIDE DEF fs
<1>4. /\ a \in Seq(FrameType) /\ Len(a) <= Len(fs)
      /\ \A i \in 1 .. Len(a) : a[i] = fs[i]
      /\ a # <<>> => fs # <<>>
  BY <1>0, <1>2, OfferIsPrefix DEF fs
<1>5. Len(a) \in Nat /\ Len(fs) \in Nat /\ Len(ring) \in Nat
  BY <1>1, <1>2, <1>4, LenProperties
<1>6. CASE a = <<>>
  <2>1. \A i \in 1 .. Len(a) : FALSE
    BY <1>6, ValueTypes
  <2> QED BY <1>4, <2>1 DEF Rising
<1>7. CASE a # <<>>
  <2>1. PICK k \in 1 .. Len(ring) :
           /\ Len(fs) = Len(ring) - k + 1
           /\ \A i \in 1 .. Len(ring) - k + 1 : fs[i] = ring[k + i - 1].frame
    BY <1>3, <1>4, <1>7
  <2>2. \A i \in 1 .. Len(a) : k + i - 1 \in 1 .. Len(ring) /\ a[i] = ring[k + i - 1].frame
    BY <1>4, <1>5, <2>1
  <2>3. \A i, j \in 1 .. Len(a) : i < j => k + i - 1 < k + j - 1
    BY <1>5, <2>1
  <2>4. Rising(a)
    BY <2>2, <2>3 DEF Rising, RingInOrder
  <2>5. \A i \in 1 .. Len(a) : a[i].id <= Delivered
    BY <2>2 DEF RingInOrder
  <2> QED BY <1>4, <2>4, <2>5
<1> QED BY <1>6, <1>7

(* How the steps of a thread treat the frames the threads hold.            *)
LEMMA StepSameFrames ==
  ASSUME TypeOK, NEW t \in Threads, NEW label, t = Venc => label # "enter",
         Goto(t, label), nframes' = nframes,
         \A u \in Threads \ {t} : loc'[u] = loc[u],
         loc'[t].frame \in {loc[t].frame, NoFrame}
  PROVE  SameFrames
<1>1. pc \in [Threads -> Labels] /\ pc' = [pc EXCEPT ![t] = label] /\ Venc \in Threads
  BY Constants DEF TypeOK, Goto
<1>2. AtPacket' => AtPacket /\ loc'[Venc].frame = loc[Venc].frame
  <2>1. CASE t = Venc
    BY <1>1, <2>1 DEF AtPacket
  <2>2. CASE t # Venc
    BY <1>1, <2>2 DEF AtPacket
  <2> QED BY <2>1, <2>2
<1>3. \A u \in Threads : loc'[u].frame \in {loc[u].frame, NoFrame}
  OBVIOUS
<1> QED BY <1>2, <1>3 DEF SameFrames

LEMMA LocFrames ==
  ASSUME TypeOK, NEW t \in Threads,
         \/ loc' = loc
         \/ loc' = [loc EXCEPT ![t] = NoLoc]
         \/ \E s, c, r : loc' = [loc EXCEPT ![t].stage = s, ![t].clip = c, ![t].roll = r]
         \/ \E e : loc' = [loc EXCEPT ![t].empty = e]
         \/ \E s : loc' = [loc EXCEPT ![t] = [@ EXCEPT !.stage = s]]
  PROVE  /\ \A u \in Threads \ {t} : loc'[u] = loc[u]
         /\ loc'[t].frame \in {loc[t].frame, NoFrame}
<1>0. loc \in [Threads -> LocType] /\ loc[t] \in LocType
  BY DEF TypeOK
<1>1. CASE loc' = loc
  BY <1>1
<1>2. CASE loc' = [loc EXCEPT ![t] = NoLoc]
  BY <1>0, <1>2 DEF NoLoc
<1>3. CASE \E s, c, r : loc' = [loc EXCEPT ![t].stage = s, ![t].clip = c, ![t].roll = r]
  <2>1. PICK s, c, r : loc' = [loc EXCEPT ![t].stage = s, ![t].clip = c, ![t].roll = r]
    BY <1>3
  <2>2. loc' = [loc EXCEPT ![t] = [loc[t] EXCEPT !.stage = s, !.clip = c, !.roll = r]]
    BY <1>0, <2>1
  <2>3. [loc[t] EXCEPT !.stage = s, !.clip = c, !.roll = r].frame = loc[t].frame
    BY <1>0 DEF LocType
  <2> QED BY <1>0, <2>2, <2>3
<1>4. CASE \E e : loc' = [loc EXCEPT ![t].empty = e]
  BY <1>0, <1>4 DEF LocType
<1>5. CASE \E s : loc' = [loc EXCEPT ![t] = [@ EXCEPT !.stage = s]]
  BY <1>0, <1>5 DEF LocType
<1> QED BY <1>1, <1>2, <1>3, <1>4, <1>5

LEMMA BeginCloseFrames ==
  ASSUME TypeOK, NEW t \in Threads, NEW roll, BeginClose(t, roll)
  PROVE  /\ \A u \in Threads \ {t} : loc'[u] = loc[u]
         /\ loc'[t].frame \in {loc[t].frame, NoFrame}
<1> DEFINE clip == IF curPath.kind = "event" THEN [curPath EXCEPT !.src = segSrc]
                                             ELSE curPath
<1>1. loc' = [loc EXCEPT ![t].stage = stagePath, ![t].clip = clip, ![t].roll = roll]
  BY DEF BeginClose
<1> HIDE DEF clip
<1> QED BY <1>1, LocFrames

(* Steps that leave the queue alone, and leave or empty the ring.          *)
LEMMA RingKept ==
  ASSUME TypeOK, CaptureInv, SameFrames, ring' = ring \/ ring' = <<>>
  PROVE  RingInOrder'
<1>0. ring \in Seq(RingType) /\ RingInOrder /\ Delivered \in Nat /\ Delivered' \in Nat
      /\ Delivered <= Delivered'
  BY DeliveredGrows DEF TypeOK, CaptureInv
<1>1. CASE ring' = ring
  <2>1. \A i \in 1 .. Len(ring) : ring[i].frame.id \in Nat
    <3>1. \A i \in 1 .. Len(ring) : ring[i] \in RingType
      BY <1>0, ElementOfSeq
    <3>2. \A r \in RingType : r.frame \in FrameType
      BY DEF RingType
    <3> QED BY <3>1, <3>2, EntryParts
  <2> QED BY <1>0, <1>1, <2>1 DEF RingInOrder
<1>2. CASE ring' = <<>>
  <2>1. \A i \in 1 .. Len(ring') : FALSE
    BY <1>2, ValueTypes
  <2> QED BY <2>1 DEF RingInOrder
<1> QED BY <1>1, <1>2

LEMMA QueueKept ==
  ASSUME TypeOK, CaptureInv, SameFrames, queued' = queued, nopened' = nopened
  PROVE  QueueKnown' /\ CaptureOrder'
<1>0. queued \in Seq(EntryType) /\ nopened \in Nat /\ Len(queued) \in Nat
  BY LenProperties DEF TypeOK
<1>1. Delivered \in Nat /\ Delivered' \in Nat /\ Delivered <= Delivered'
  BY DeliveredGrows DEF CaptureInv
<1> QED BY <1>0, <1>1, PrefixKnown DEF CaptureInv

LEMMA NothingCaptured ==
  ASSUME TypeOK, CaptureInv, SameFrames, queued' = queued, nopened' = nopened,
         ring' = ring \/ ring' = <<>>
  PROVE  CaptureInv'
BY RingKept, QueueKept, DeliveredGrows DEF CaptureInv

(* Clearing the queue keeps what the library got and what the writer holds. *)
LEMMA ClearQueueInOrder ==
  ASSUME TypeOK, QueueConserved, CaptureInv, SameFrames, ClearQueue, nopened' = nopened,
         ring' = <<>>
  PROVE  CaptureInv'
<1>0. /\ queued \in Seq(EntryType) /\ wq \in Seq(EntryType) /\ nopened \in Nat
      /\ written \o InFlight \in Seq(EntryType)
  BY TypeParts, InFlightType, ConcatProperties DEF TypeOK, WriterT
<1> DEFINE kept == written \o InFlight
<1>1. queued' = kept /\ kept \in Seq(EntryType) /\ queued = kept \o wq
  BY <1>0 DEF ClearQueue, QueueConserved
<1> HIDE DEF kept
<1>2. Len(kept) \in Nat /\ Len(wq) \in Nat
  BY <1>0, <1>1, LenProperties
<1>3. Len(queued) = Len(kept) + Len(wq) /\ \A i \in 1 .. Len(kept) : queued[i] = kept[i]
  <2> HIDE DEF EntryType
  <2>1. /\ Len(kept \o wq) = Len(kept) + Len(wq)
        /\ \A i \in 1 .. Len(kept) + Len(wq) :
             (kept \o wq)[i] = IF i <= Len(kept) THEN kept[i] ELSE wq[i - Len(kept)]
    BY <1>0, <1>1, ConcatProperties
  <2>2. \A i \in 1 .. Len(kept) : i \in 1 .. Len(kept) + Len(wq) /\ i <= Len(kept)
    BY <1>2
  <2> QED BY <1>1, <2>1, <2>2
<1>4. Delivered \in Nat /\ Delivered' \in Nat /\ Delivered <= Delivered'
  BY DeliveredGrows DEF CaptureInv
<1>5. Len(queued') <= Len(queued)
      /\ \A i \in 1 .. Len(queued') : queued'[i] = queued[i]
  BY <1>1, <1>2, <1>3
<1>6. QueueKnown' /\ CaptureOrder'
  BY <1>0, <1>1, <1>4, <1>5, PrefixKnown DEF CaptureInv
<1> QED BY <1>6, RingKept, DeliveredGrows DEF CaptureInv

(* on_packet pushes the newest frame.                                      *)
LEMMA BufferInOrder ==
  ASSUME TypeOK, CaptureInv, AtPacket, ~AtPacket', nframes' = nframes, Buffer
  PROVE  RingInOrder'
<1> DEFINE e == [frame |-> Frame, wall |-> now]
<1>0. /\ ring \in Seq(RingType) /\ Len(ring) <= RING_CAP /\ now \in Nat /\ Len(ring) \in Nat
      /\ Frame \in FrameType /\ RingInOrder /\ nframes \in Nat
  BY Constants, LenProperties DEF TypeOK, CaptureInv, Frame, LocType
<1>1. e \in RingType /\ e.frame.id = nframes /\ Delivered = nframes - 1 /\ Delivered' = nframes
  BY <1>0 DEF RingType, Frame, CaptureInv, HeldIsNewest, Delivered
<1>2. \A i \in 1 .. Len(ring) : ring[i].frame.id \in Nat
  <2>1. \A i \in 1 .. Len(ring) : ring[i] \in RingType
    BY <1>0, ElementOfSeq
  <2>2. \A r \in RingType : r.frame \in FrameType
    BY DEF RingType
  <2> QED BY <2>1, <2>2, EntryParts
<1>3. \E k \in Nat : MovedUp(ring', k, ring, e)
  <2>1. CASE ring' = Pushed(ring, Frame, now)
    <3>1. \E k \in Nat : MovedUp(Pushed(ring, Frame, now), k, ring, e)
      BY <1>0, <1>1, PushedIsTail
    <3> QED BY <2>1, <3>1
  <2>2. CASE ring' = Popped(ring)
    <3>1. PICK k \in Nat :
            /\ Popped(ring) \in Seq(RingType) /\ Len(Popped(ring)) + k = Len(ring)
            /\ \A i \in 1 .. Len(Popped(ring)) : Popped(ring)[i] = ring[i + k]
      BY <1>0, PoppedIsTail
    <3>2. Len(Popped(ring)) \in Nat
      BY <3>1, LenProperties
    <3>3. \A i \in 1 .. Len(ring') : i + k \in 1 .. Len(ring) /\ ring'[i] = ring[i + k]
      BY <1>0, <2>2, <3>1, <3>2
    <3> QED BY <3>3 DEF MovedUp
  <2> QED BY <2>1, <2>2 DEF Buffer
<1> HIDE DEF e
<1>4. PICK k \in Nat :
        \A i \in 1 .. Len(ring') :
          \/ i + k \in 1 .. Len(ring) /\ ring'[i] = ring[i + k]
          \/ i + k = Len(ring) + 1 /\ ring'[i] = e
  BY <1>3 DEF MovedUp
<1>5. ASSUME NEW i \in 1 .. Len(ring') PROVE ring'[i].frame.id <= Delivered'
  BY <1>0, <1>1, <1>2, <1>4 DEF RingInOrder
<1>6. ASSUME NEW i \in 1 .. Len(ring'), NEW j \in 1 .. Len(ring'), i < j
      PROVE  ring'[i].frame.id < ring'[j].frame.id
  <2>0. i \in Int /\ j \in Int
    OBVIOUS
  <2>1. i + k \in 1 .. Len(ring) /\ ring'[i] = ring[i + k]
    BY <1>0, <1>4, <1>6, <2>0
  <2>2. CASE j + k \in 1 .. Len(ring) /\ ring'[j] = ring[j + k]
    <3>1. i + k < j + k
      BY <1>6, <2>0
    <3> QED BY <1>0, <2>1, <2>2, <3>1 DEF RingInOrder
  <2>3. CASE ring'[j] = e
    <3>1. ring'[i].frame.id <= Delivered
      BY <1>0, <2>1 DEF RingInOrder
    <3> QED BY <1>0, <1>1, <1>2, <2>1, <2>3, <3>1
  <2> QED BY <1>4, <2>2, <2>3
<1> QED BY <1>5, <1>6 DEF RingInOrder

(* A segment opened under the lock: what it starts with is delivered.      *)
LEMMA InitMuxerCounts ==
  ASSUME NEW o, NEW name, NEW sec, NEW s, InitMuxer(o, name, sec, s)
  PROVE  /\ o = "ok" => nopened' = nopened + 1
         /\ o # "ok" => nopened' = nopened
BY DEF InitMuxer

LEMMA WriteAfterRollInOrder ==
  ASSUME TypeOK, CaptureInv, SameFrames, NEW t \in Threads, NEW o,
         t = Venc => ~AtPacket', WriteAfterRoll(o, loc[t]),
         nopened' = IF o = "ok" THEN nopened + 1 ELSE nopened
  PROVE  QueueKnown' /\ CaptureOrder'
<1>0. /\ loc[t] \in LocType /\ loc[t].frame \in FrameType /\ nopened \in Nat /\ QueueT
      /\ nframes \in Nat /\ nframes' = nframes
  BY TypeParts DEF TypeOK, LocType, SameFrames
<1>1. /\ Delivered \in Nat /\ Delivered' \in Nat /\ Delivered <= Delivered'
      /\ QueueKnown /\ CaptureOrder
  BY DeliveredGrows DEF CaptureInv
<1>2. loc[t].frame.id <= Delivered'
  <2>1. CASE t = Venc
    BY <1>0, <2>1 DEF Delivered, CaptureInv, HeldIsNewest
  <2>2. CASE t # Venc
    <3>1. loc[t].frame = NoFrame
      BY <2>2 DEF CaptureInv, HeldIsNewest, Threads
    <3> QED BY <1>1, <3>1 DEF NoFrame
  <2> QED BY <2>1, <2>2
<1>3. CASE o = "ok"
  <2> DEFINE waiting == (loc[t].roll = "continuous")
  <2>1. PICK fs \in OfferLive(loc[t].frame, waiting) : Enqueue(nopened + 1, fs, waiting)
    BY <1>3 DEF WriteAfterRoll
  <2> HIDE DEF waiting
  <2>2. waiting \in BOOLEAN
    BY DEF waiting
  <2>3. fs \in Seq(FrameType) /\ Rising(fs) /\ \A i \in 1 .. Len(fs) : fs[i].id = loc[t].frame.id
    BY <1>0, <2>1, <2>2, LiveRises
  <2>4. \A i \in 1 .. Len(fs) : fs[i].id <= Delivered'
    BY <1>2, <2>3
  <2>5. nopened' = nopened + 1 /\ nopened' \in Nat /\ nopened + 1 \in Nat
        /\ nopened <= nopened' /\ nopened < nopened + 1 /\ nopened + 1 <= nopened'
    BY <1>0, <1>3
  <2> QED BY <1>1, <2>1, <2>3, <2>4, <2>5, EnqueueInOrder
<1>4. CASE o # "ok"
  <2>1. queued' = queued /\ nopened' = nopened
    BY <1>4 DEF WriteAfterRoll, queueVars
  <2> QED BY <2>1, QueueKept
<1> QED BY <1>3, <1>4

LEMMA CloseCapture ==
  ASSUME TypeOK, CaptureInv, NEW t \in Threads, Close(t)
  PROVE  CaptureInv'
<1>1. nframes' = nframes /\ \E label \in Labels \ {"enter"} : Goto(t, label)
  BY LabelNames DEF Close, DrainDone, CloseMark, MuxDeinit, CloseFinish, CloseReopen,
     CloseReopenBusy, OverDrainDone, OverInit, clockVars
<1>2. SameFrames
  <2>1. \/ loc' = loc
        \/ loc' = [loc EXCEPT ![t] = NoLoc]
        \/ \E e : loc' = [loc EXCEPT ![t].empty = e]
        \/ \E s : loc' = [loc EXCEPT ![t] = [@ EXCEPT !.stage = s]]
    <3>1. CASE CloseReopenBusy(t)
      BY <3>1, Zenon DEF CloseReopenBusy
    <3>2. CASE CloseMark(t)
      BY <3>2, Zenon DEF CloseMark
    <3> QED BY <3>1, <3>2 DEF Close, DrainDone, MuxDeinit, CloseFinish, CloseReopen,
               OverDrainDone, OverInit
  <2>2. /\ \A u \in Threads \ {t} : loc'[u] = loc[u]
        /\ loc'[t].frame \in {loc[t].frame, NoFrame}
    BY <2>1, LocFrames
  <2> QED BY <1>1, <2>2, StepSameFrames
<1>3. ring' = ring
  BY DEF Close, DrainDone, CloseMark, MuxDeinit, CloseFinish, CloseReopen,
     CloseReopenBusy, OverDrainDone, OverInit
<1>4. CASE DrainDone(t) \/ CloseMark(t) \/ MuxDeinit(t) \/ CloseFinish(t)
           \/ CloseReopenBusy(t) \/ OverDrainDone(t)
  <2>1. queued' = queued /\ nopened' = nopened
    BY <1>4 DEF DrainDone, CloseMark, MuxDeinit, CloseFinish, CloseReopenBusy,
       OverDrainDone, queueVars, libVars
  <2> QED BY <1>2, <1>3, <2>1, NothingCaptured
<1>5. CASE CloseReopen(t) \/ OverInit(t)
  <2>1. \E o : /\ WriteAfterRoll(o, loc[t])
               /\ nopened' = IF o = "ok" THEN nopened + 1 ELSE nopened
    <3>1. CASE CloseReopen(t)
      <4>1. PICK p \in PromoteOutcomes, o \in OpenOutcomes :
              /\ InitMuxer(o, FreshStage, now, Closed(loc[t], p))
              /\ WriteAfterRoll(o, loc[t])
        BY <3>1 DEF CloseReopen
      <4> QED BY <4>1, InitMuxerCounts
    <3>2. CASE OverInit(t)
      <4> DEFINE s == [disk |-> Without(Sealed, {stagePath}), gone |-> gone,
                       stage |-> stagePath, active |-> segActive]
      <4>1. PICK o \in IF stagePath = NoStage THEN {"init"}
                        ELSE OpenOutcomes \cap {"ok", "init"} :
              /\ IF o = "ok" THEN InitMuxer(o, stagePath, loc[t].stage.sec, s)
                 ELSE UNCHANGED <<segActive, segFrames, segments, segStart, nopened, gone>>
              /\ WriteAfterRoll(o, loc[t])
        BY <3>2 DEF OverInit
      <4> QED BY <4>1, InitMuxerCounts
    <3> QED BY <1>5, <3>1, <3>2
  <2>2. t = Venc => ~AtPacket'
    <3>1. Goto(t, "idle") /\ pc \in [Threads -> Labels]
      BY <1>5 DEF CloseReopen, OverInit, TypeOK
    <3> QED BY <3>1 DEF Goto, AtPacket
  <2>3. QueueKnown' /\ CaptureOrder'
    BY <1>2, <2>1, <2>2, WriteAfterRollInOrder
  <2> QED BY <1>2, <1>3, <2>3, RingKept, DeliveredGrows DEF CaptureInv
<1> QED BY <1>4, <1>5 DEF Close

(* A packet leaves the encoder's thread without a frame in hand, or in the *)
(* close that it began.                                                    *)
LEMMA PacketSameFrames ==
  ASSUME TypeOK, OnPacket
  PROVE  AtPacket /\ SameFrames /\ ~AtPacket' /\ (ring' = ring \/ Buffer)
<1>1. AtPacket /\ nframes' = nframes /\ (ring' = ring \/ Buffer)
  BY DEF OnPacket, PacketIgnored, PacketRunOver, PacketOpen, PacketRoll, PacketWrite,
     PacketQuiet, PacketBuffered, clockVars
<1>2. PacketReturns \/ \E roll : BeginClose(Venc, roll)
  BY DEF OnPacket, PacketIgnored, PacketRunOver, PacketOpen, PacketRoll, PacketWrite,
     PacketQuiet, PacketBuffered
<1>3. Venc \in Threads
  BY Constants
<1>4. \E label \in {"idle", "drain"} : Goto(Venc, label)
  BY <1>2 DEF PacketReturns, BeginClose
<1>5. ~AtPacket'
  BY <1>3, <1>4 DEF AtPacket, Goto, TypeOK
<1>6. PacketReturns => loc' = [loc EXCEPT ![Venc] = NoLoc]
  BY DEF PacketReturns
<1>7. /\ \A u \in Threads \ {Venc} : loc'[u] = loc[u]
      /\ loc'[Venc].frame \in {loc[Venc].frame, NoFrame}
  BY <1>2, <1>3, <1>6, LocFrames, BeginCloseFrames
<1>8. SameFrames
  BY <1>1, <1>3, <1>4, <1>7, StepSameFrames
<1> QED BY <1>1, <1>5, <1>8

LEMMA PacketCapture ==
  ASSUME TypeOK, CaptureInv, OnPacket
  PROVE  CaptureInv'
<1>1. AtPacket /\ SameFrames /\ ~AtPacket' /\ (ring' = ring \/ Buffer)
  BY PacketSameFrames
<1>2. RingInOrder'
  BY <1>1, RingKept, BufferInOrder DEF SameFrames
<1>3. HeldIsNewest' /\ Delivered \in Nat /\ Delivered' \in Nat /\ Delivered <= Delivered'
  BY <1>1, DeliveredGrows DEF CaptureInv
<1>4. /\ QueueT /\ Frame \in FrameType /\ Frame.id = nframes /\ nframes \in Nat
      /\ nopened \in Nat /\ waitingKey \in BOOLEAN
      /\ Delivered < nframes /\ nframes <= Delivered'
  <2>1. QueueT /\ nframes \in Nat /\ nopened \in Nat /\ waitingKey \in BOOLEAN
        /\ Frame \in FrameType
    BY TypeParts, Constants DEF TypeOK, Frame, LocType
  <2>2. Frame.id = nframes
    BY <1>1 DEF Frame, CaptureInv, HeldIsNewest
  <2>3. nframes' = nframes
    BY <1>1 DEF SameFrames
  <2>4. Delivered < nframes /\ nframes <= Delivered'
    BY <1>1, <2>1, <2>3 DEF Delivered
  <2> QED BY <2>1, <2>2, <2>4
<1>5. CASE queued' = queued /\ nopened' = nopened
  BY <1>1, <1>2, <1>3, <1>5, QueueKept DEF CaptureInv
<1>6. ASSUME NEW waiting \in BOOLEAN, NEW fs \in OfferLive(Frame, waiting),
             NEW seg \in {nopened, nopened + 1}, Enqueue(seg, fs, waiting), nopened' = seg
      PROVE  QueueKnown' /\ CaptureOrder'
  <2>1. fs \in Seq(FrameType) /\ Rising(fs) /\ \A i \in 1 .. Len(fs) : fs[i].id = nframes
    BY <1>4, LiveRises
  <2>2. seg \in Nat /\ nopened' \in Nat /\ nopened <= nopened' /\ seg <= nopened'
    BY <1>4, <1>6
  <2>3. \A i \in 1 .. Len(fs) : fs[i].id <= Delivered' /\ Delivered < fs[i].id
    BY <1>4, <2>1
  <2>4. QueueKnown /\ CaptureOrder
    BY DEF CaptureInv
  <2> QED BY <1>3, <1>6, <2>1, <2>2, <2>3, <2>4, EnqueueInOrder
<1>7. CASE PacketOpen
  <2>1. PICK o \in OpenOutcomes :
          /\ InitMuxer(o, FreshStage, now, Unclosed)
          /\ IF o = "ok"
             THEN \E fs \in OfferLive(Frame, TRUE) : Enqueue(nopened + 1, fs, TRUE)
             ELSE UNCHANGED queueVars
    BY <1>7 DEF PacketOpen
  <2>2. CASE o = "ok"
    <3>1. PICK fs \in OfferLive(Frame, TRUE) : Enqueue(nopened + 1, fs, TRUE)
      BY <2>1, <2>2
    <3>2. nopened' = nopened + 1
      BY <2>1, <2>2, InitMuxerCounts
    <3> QED BY <1>2, <1>3, <1>6, <3>1, <3>2 DEF CaptureInv
  <2>3. CASE o # "ok"
    <3>1. queued' = queued /\ nopened' = nopened
      BY <2>1, <2>3, InitMuxerCounts DEF queueVars
    <3> QED BY <1>5, <3>1
  <2> QED BY <2>2, <2>3
<1>8. CASE PacketWrite
  <2>1. nopened' = nopened
    BY <1>8 DEF PacketWrite, libVars
  <2>2. \/ UNCHANGED queueVars
        \/ \E fs \in OfferLive(Frame, waitingKey) : Enqueue(nopened, fs, waitingKey)
    BY <1>8 DEF PacketWrite
  <2>3. CASE UNCHANGED queueVars
    BY <1>5, <2>1, <2>3 DEF queueVars
  <2>4. CASE \E fs \in OfferLive(Frame, waitingKey) : Enqueue(nopened, fs, waitingKey)
    <3>1. PICK fs \in OfferLive(Frame, waitingKey) : Enqueue(nopened, fs, waitingKey)
      BY <2>4
    <3> QED BY <1>2, <1>3, <1>4, <1>6, <2>1, <3>1 DEF CaptureInv
  <2> QED BY <2>2, <2>3, <2>4
<1>9. CASE PacketIgnored \/ PacketRunOver \/ PacketRoll \/ PacketQuiet \/ PacketBuffered
  <2>1. queued' = queued /\ nopened' = nopened
    BY <1>9 DEF PacketIgnored, PacketRunOver, PacketRoll, PacketQuiet, PacketBuffered,
       BeginClose, queueVars, libVars
  <2> QED BY <1>5, <2>1
<1> QED BY <1>7, <1>8, <1>9 DEF OnPacket

LEMMA OperationCapture ==
  ASSUME TypeOK, QueueConserved, CaptureInv, NEW t \in Ctl, Operation(t)
  PROVE  CaptureInv'
<1>0. t \in Threads /\ t # Venc
  BY RecordAssumption DEF Threads
<1>1. nframes' = nframes /\ \E label : Goto(t, label)
  BY DEF Operation, Start, SetRunDeadline, Stop, StopWriter, Joined, Arm, EventExtends,
     EventOpens, Poll, Extend, Leave, BeginClose, clockVars
<1>2. SameFrames
  <2>1. loc' = loc \/ BeginClose(t, "no")
    BY DEF Operation, Start, SetRunDeadline, Stop, StopWriter, Joined, Arm, EventExtends,
       EventOpens, Poll, Extend, Leave
  <2>2. /\ \A u \in Threads \ {t} : loc'[u] = loc[u]
        /\ loc'[t].frame \in {loc[t].frame, NoFrame}
    BY <1>0, <2>1, LocFrames, BeginCloseFrames
  <2> QED BY <1>0, <1>1, <2>2, StepSameFrames
<1>3. CASE Start(t) \/ SetRunDeadline(t) \/ Stop(t) \/ StopWriter(t) \/ Arm(t)
           \/ EventExtends(t) \/ Poll(t) \/ Extend(t)
  <2>1. queued' = queued /\ nopened' = nopened /\ ring' = ring
    BY <1>3 DEF Start, SetRunDeadline, Stop, StopWriter, Arm, EventExtends, Poll, Extend,
       BeginClose, queueVars, libVars
  <2> QED BY <1>2, <2>1, NothingCaptured
<1>4. CASE Joined(t)
  <2>1. ClearQueue /\ ring' = <<>> /\ nopened' = nopened
    BY <1>4 DEF Joined, libVars
  <2> QED BY <1>2, <2>1, ClearQueueInOrder
<1>5. CASE EventOpens(t)
  <2>1. PICK o \in OpenOutcomes :
          /\ InitMuxer(o, FreshStage, now, Unclosed)
          /\ IF o = "ok"
             THEN /\ \E fs \in Offer(FlushFrames(ring, now), TRUE) :
                       Enqueue(nopened + 1, fs, TRUE)
                  /\ ring' = <<>>
             ELSE UNCHANGED <<queueVars, ring>>
    BY <1>5 DEF EventOpens
  <2>2. CASE o = "ok"
    <3>1. PICK fs \in Offer(FlushFrames(ring, now), TRUE) : Enqueue(nopened + 1, fs, TRUE)
      BY <2>1, <2>2
    <3>2. /\ nopened' = nopened + 1 /\ nopened \in Nat /\ nopened' \in Nat
          /\ nopened + 1 \in Nat
          /\ nopened <= nopened' /\ nopened < nopened + 1 /\ nopened + 1 <= nopened'
      BY <2>1, <2>2, InitMuxerCounts DEF TypeOK
    <3>3. /\ Delivered \in Nat /\ Delivered' \in Nat /\ Delivered <= Delivered'
          /\ HeldIsNewest' /\ QueueKnown /\ CaptureOrder
      BY <1>2, DeliveredGrows DEF CaptureInv
    <3>4. fs \in Seq(FrameType) /\ Rising(fs) /\ \A i \in 1 .. Len(fs) : fs[i].id <= Delivered
      BY <3>1, FlushRises DEF CaptureInv
    <3>5. \A i \in 1 .. Len(fs) : fs[i].id <= Delivered'
      <4>1. \A i \in 1 .. Len(fs) : fs[i].id \in Nat
        BY <3>4, ElementOfSeq, EntryParts
      <4> QED BY <3>3, <3>4, <4>1
    <3>6. QueueKnown' /\ CaptureOrder'
      BY <3>1, <3>2, <3>3, <3>4, <3>5, EnqueueInOrder
    <3>7. RingInOrder'
      BY <1>2, <2>1, <2>2, RingKept
    <3> QED BY <3>3, <3>6, <3>7 DEF CaptureInv
  <2>3. CASE o # "ok"
    <3>1. queued' = queued /\ nopened' = nopened /\ ring' = ring
      BY <2>1, <2>3, InitMuxerCounts DEF queueVars
    <3> QED BY <1>2, <3>1, NothingCaptured
  <2> QED BY <2>2, <2>3
<1> QED BY <1>3, <1>4, <1>5 DEF Operation

LEMMA InitCapture ==
  ASSUME TypeOK, QueueConserved, CaptureInv, NEW t \in Ctl, RecordInit(t)
  PROVE  CaptureInv'
<1>1. /\ ClearQueue /\ ring' = <<>> /\ nopened' = nopened /\ nframes' = nframes
      /\ pc' = pc /\ loc' = loc
  BY DEF RecordInit, clockVars, threadVars
<1>2. SameFrames
  BY <1>1 DEF SameFrames, AtPacket
<1> QED BY <1>1, <1>2, ClearQueueInOrder

(* The camera delivers the next frame.                                     *)
LEMMA CameraCapture ==
  ASSUME TypeOK, CaptureInv, NEW key \in BOOLEAN, Camera(key)
  PROVE  CaptureInv'
<1>0. /\ pc \in [Threads -> Labels] /\ loc \in [Threads -> LocType] /\ Venc \in Threads
      /\ nframes \in Nat /\ Venc \notin Ctl /\ \A t \in Ctl : t \in Threads
  BY Constants, RecordAssumption DEF TypeOK, Threads
<1>1. /\ pc[Venc] = "idle" /\ nframes' = nframes + 1 /\ pc' = [pc EXCEPT ![Venc] = "enter"]
      /\ loc' = [loc EXCEPT ![Venc].frame = [id |-> nframes + 1, key |-> key]]
      /\ queued' = queued /\ ring' = ring /\ nopened' = nopened
  BY DEF Camera, Goto, queueVars, libVars
<1>2. AtPacket' /\ ~AtPacket /\ Delivered' = nframes /\ Delivered = nframes
  BY <1>0, <1>1 DEF AtPacket, Delivered
<1>3. HeldIsNewest'
  <2>1. loc'[Venc].frame.id = nframes'
    BY <1>0, <1>1 DEF LocType
  <2>2. \A t \in Ctl : loc'[t] = loc[t]
    BY <1>0, <1>1
  <2> QED BY <1>0, <1>1, <2>1, <2>2 DEF HeldIsNewest, CaptureInv
<1>4. RingInOrder'
  BY <1>1, <1>2 DEF CaptureInv, RingInOrder
<1>5. QueueKnown' /\ CaptureOrder'
  BY <1>1, <1>2 DEF CaptureInv, QueueKnown, CaptureOrder
<1> QED BY <1>3, <1>4, <1>5 DEF CaptureInv

LEMMA OutsideCapture ==
  ASSUME TypeOK, CaptureInv,
         \/ \E t \in Ctl, o \in Ops \ {"init"} : Call(t, o)
         \/ Writer \/ Tick \/ UNCHANGED vars
  PROVE  CaptureInv'
<1>1. /\ queued' = queued /\ nopened' = nopened /\ ring' = ring /\ nframes' = nframes
      /\ loc' = loc
  BY DEF Call, Writer, WriterTake, WriterWrite, WriterCount, WriterExit, Tick, vars,
     queueVars, libVars, clockVars, threadVars
<1>2. SameFrames
  <2>1. AtPacket' => AtPacket
    <3>1. CASE \E t \in Ctl, o \in Ops \ {"init"} : Call(t, o)
      BY <3>1, Constants, RecordAssumption DEF Call, Goto, AtPacket, TypeOK, Threads
    <3>2. CASE Writer \/ Tick \/ UNCHANGED vars
      BY <3>2 DEF Writer, WriterTake, WriterWrite, WriterCount, WriterExit, Tick, vars,
         threadVars, AtPacket
    <3> QED BY <3>1, <3>2
  <2> QED BY <1>1, <2>1 DEF SameFrames
<1> QED BY <1>1, <1>2, NothingCaptured

LEMMA InitCaptureInv == Init => CaptureInv
<1> SUFFICES ASSUME Init PROVE CaptureInv
  OBVIOUS
<1>1. queued = <<>> /\ ring = <<>> /\ nframes = 0 /\ \A t \in Threads : loc[t] = NoLoc
      /\ pc[Venc] = "idle"
  BY Constants DEF Init
<1>2. /\ \A i \in 1 .. Len(queued) : FALSE
      /\ \A i \in 1 .. Len(ring) : FALSE
  BY <1>1, ValueTypes
<1>3. HeldIsNewest
  <2>1. \A t \in Threads : loc[t].frame = NoFrame
    BY <1>1 DEF NoLoc
  <2>2. ~AtPacket /\ NoFrame.id = 0 /\ Venc \in Threads
    BY <1>1, Constants DEF AtPacket, NoFrame
  <2> QED BY <1>1, <2>1, <2>2 DEF HeldIsNewest, Threads
<1> QED BY <1>2, <1>3 DEF CaptureInv, RingInOrder, QueueKnown, CaptureOrder

LEMMA NextCapture ==
  TypeOK /\ QueueConserved /\ CaptureInv /\ [Next]_vars => CaptureInv'
<1> SUFFICES ASSUME TypeOK, QueueConserved, CaptureInv, [Next]_vars PROVE CaptureInv'
  OBVIOUS
<1>1. CASE \E key \in BOOLEAN : Camera(key)
  BY <1>1, CameraCapture
<1>2. CASE OnPacket
  BY <1>2, PacketCapture
<1>3. ASSUME NEW t \in Threads, Close(t) PROVE CaptureInv'
  BY <1>3, CloseCapture
<1>4. ASSUME NEW t \in Ctl, RecordInit(t) PROVE CaptureInv'
  BY <1>4, InitCapture
<1>5. ASSUME NEW t \in Ctl, Operation(t) PROVE CaptureInv'
  BY <1>5, OperationCapture
<1>6. CASE \/ \E t \in Ctl, o \in Ops \ {"init"} : Call(t, o)
           \/ Writer \/ Tick \/ UNCHANGED vars
  BY <1>6, OutsideCapture
<1> QED BY <1>1, <1>2, <1>3, <1>4, <1>5, <1>6 DEF Next

(* Whatever overlaps and whatever fails, no segment gets a frame twice or  *)
(* out of capture order: not from the pre-record ring that on_packet fills *)
(* while other threads flush it, not from the frame a rollover carries     *)
(* across the unlocked close into the next segment.                        *)
THEOREM CaptureOrderKept == Spec => []CaptureOrder
<1>1. Init => TypeOK /\ QueueConserved /\ CaptureInv
  BY InitTypes, InitCaptureInv
<1>2. TypeOK /\ QueueConserved /\ CaptureInv /\ [Next]_vars
        => (TypeOK /\ QueueConserved /\ CaptureInv)'
  BY NextInv, NextCapture
<1>3. CaptureInv => CaptureOrder
  BY DEF CaptureInv
<1> QED BY <1>1, <1>2, <1>3, PTL DEF Spec
=============================================================================
