------------------------- MODULE RecordSerialProofs -------------------------
(***************************************************************************)
(* The recorder whose callers leave a close alone: no call but polling and *)
(* extending enters the recorder while a segment is being closed, and the  *)
(* drain of the queue is not given up (SerialCallers).  Neither is so in   *)
(* the code, where any thread may enter and the drain gives up after 60    *)
(* seconds; what is proved here is that these two are all the recorder     *)
(* needs to keep to its segment, to have a clip on disk when it announces  *)
(* it and to be at rest when it reports that it stopped, whatever opening, *)
(* promoting and allocating do.                                            *)
(* Where besides no allocation fails and no promotion breaks a clip        *)
(* (SoundStorage), the recorder implements ClipStore, and footage accepted *)
(* since a segment opened stays on its way to one clip.                    *)
(* The theorems hold for any number of control threads, any sizes and      *)
(* durations and any recycling, and with packets, events and the writer at *)
(* any time in between.                                                    *)
(***************************************************************************)
EXTENDS RecordProofs

-----------------------------------------------------------------------------
(* The three states of the recorder                                        *)

SerialCallers == OverlapOps \subseteq {"poll", "extend"} /\ ~DrainGivesUp

(* No segment is open.                                                     *)
AtRest ==
  /\ ~CloseInProgress /\ ~muxerOpen
  /\ mux = NoStage /\ stagePath = NoStage /\ Drained

(* A segment is open, and the library writes the file g_rec names.         *)
AtWork ==
  /\ ~CloseInProgress /\ muxerOpen
  /\ mux = stagePath /\ mux # NoStage
  /\ segActive /\ nopened # 0 /\ mode # "off"

(* The steps of a close, and those of record_deinit that follow it.        *)
Shutting == {"drain", "mark", "deinit", "finish"}

(* Thread t, and no other, is closing the segment.                         *)
ClosedBy(t) ==
  /\ pc[t] \in Shutting \cup {"stopped", "join"}
  /\ \A u \in Threads : pc[u] \in Closing => u = t
  /\ ~muxerOpen
  /\ pc[t] \in Shutting =>
       /\ stagePath = loc[t].stage /\ segActive
       /\ loc[t].roll # "no" => t = Venc /\ mode # "off"
  /\ pc[t] \in {"drain", "mark", "deinit"} => mux = stagePath /\ mux # NoStage
  /\ pc[t] \notin {"drain", "mark", "deinit"} => mux = NoStage
  /\ pc[t] # "drain" => Drained
  /\ pc[t] \notin Shutting => mode = "off" /\ stagePath = NoStage
  /\ t # Venc => mode # "continuous"
  /\ op[t] = "deinit" => mode = "off"

(* An entry is never mistaken for none, and the writer holds one exactly   *)
(* while it is at it.                                                      *)
QueueSound ==
  /\ \A i \in 1 .. Len(wq) : wq[i].seg # 0
  /\ writer \in {"write", "count"} <=> writing # NoEntry

SerialInv ==
  /\ AtRest \/ AtWork \/ \E t \in Threads : ClosedBy(t)
  /\ QueueSound
  /\ ~inited => mode = "off"
  /\ op[Venc] = "none"

-----------------------------------------------------------------------------
(* Steps                                                                   *)

(* Only polling and extending may enter during a close.                    *)
LEMMA EntersAlone ==
  ASSUME SerialCallers, NEW t, MayEnter(t), op[t] \notin {"poll", "extend"}
  PROVE  ~CloseInProgress /\ (inited \/ op[t] \in {"stop", "deinit"})
BY DEF SerialCallers, MayEnter

(* A step of a thread that closes nothing, of the writer or of nobody.     *)
LEMMA Bystander ==
  ASSUME SerialInv,
         muxerOpen' = muxerOpen, mux' = mux, stagePath' = stagePath,
         segActive' = segActive, nopened' = nopened,
         mode' = mode \/ (~CloseInProgress /\ (muxerOpen => mode' # "off")),
         ~inited' => mode' = "off",
         op'[Venc] = op[Venc],
         QueueSound', muxerOpen \/ (Drained => Drained'),
         \A u \in Threads : pc[u] \in Closing \/ pc'[u] \in Closing =>
            pc'[u] = pc[u] /\ op'[u] = op[u] /\ loc'[u] = loc[u]
  PROVE  SerialInv'
<1>1. CloseInProgress' <=> CloseInProgress
  BY DEF CloseInProgress
<1>2. CASE AtRest
  <2>1. AtRest'
    BY <1>1, <1>2 DEF AtRest
  <2> QED BY <2>1 DEF SerialInv
<1>3. CASE AtWork
  <2>1. AtWork'
    BY <1>1, <1>3 DEF AtWork
  <2> QED BY <2>1 DEF SerialInv
<1>4. ASSUME NEW t \in Threads, ClosedBy(t) PROVE SerialInv'
  <2>1. pc[t] \in Closing
    BY <1>4 DEF ClosedBy, Closing, Shutting
  <2>2. CloseInProgress /\ mode' = mode
    BY <2>1 DEF CloseInProgress
  <2>3. pc'[t] = pc[t] /\ op'[t] = op[t] /\ loc'[t] = loc[t]
    BY <2>1
  <2>4. Drained => Drained'
    BY <1>4 DEF ClosedBy
  <2>5. \A u \in Threads : pc'[u] \in Closing => u = t
    BY <1>4 DEF ClosedBy
  <2>6. ClosedBy(t)'
    BY <1>4, <2>2, <2>3, <2>4, <2>5, Zenon DEF ClosedBy
  <2> QED BY <2>6 DEF SerialInv
<1> QED BY <1>2, <1>3, <1>4 DEF SerialInv

(* A thread begins to close the open segment.                              *)
LEMMA BeginsClose ==
  ASSUME TypeOK, SerialInv, AtWork, NEW t \in Threads, NEW roll, BeginClose(t, roll),
         t # Venc => mode' # "continuous",
         op[t] = "deinit" => mode' = "off",
         roll # "no" => t = Venc /\ mode' # "off",
         ~inited' => mode' = "off",
         writer' = writer, writing' = writing
  PROVE  SerialInv'
<1> DEFINE clip == IF curPath.kind = "event" THEN [curPath EXCEPT !.src = segSrc]
                                             ELSE curPath
<1>0. pc \in [Threads -> Labels] /\ loc \in [Threads -> LocType]
  BY DEF TypeOK
<1>1. /\ muxerOpen' = FALSE /\ pc' = [pc EXCEPT ![t] = "drain"]
      /\ loc' = [loc EXCEPT ![t].stage = stagePath, ![t].clip = clip, ![t].roll = roll]
      /\ segActive' = segActive /\ stagePath' = stagePath /\ op' = op
      /\ wq' = wq /\ mux' = mux
  BY DEF BeginClose, Goto, queueVars, libVars
<1> HIDE DEF clip
<1>2. pc'[t] = "drain" /\ \A u \in Threads : u # t => pc'[u] = pc[u]
  BY <1>0, <1>1
<1>3. loc'[t].stage = stagePath /\ loc'[t].roll = roll
  <2>1. loc[t] \in LocType /\ t \in DOMAIN loc
    BY <1>0
  <2> QED BY <1>1, <2>1 DEF LocType
<1>4. \A u \in Threads : pc[u] \notin Closing
  BY DEF AtWork, CloseInProgress
<1>5. /\ mux = stagePath /\ mux # NoStage /\ segActive
  BY DEF AtWork
<1>6. ClosedBy(t)'
  BY <1>1, <1>2, <1>3, <1>4, <1>5, Zenon DEF ClosedBy, Shutting
<1>7. QueueSound'
  BY <1>1 DEF SerialInv, QueueSound
<1>8. op'[Venc] = "none"
  BY <1>1 DEF SerialInv
<1> QED BY <1>6, <1>7, <1>8 DEF SerialInv

LEMMA FreshStageIsNew ==
  ASSUME TypeOK
  PROVE  FreshStage # NoStage
<1>1. segments \in Nat
  BY DEF TypeOK
<1>2. segments + 1 # 0
  BY <1>1
<1>3. FreshStage.n = segments + 1 /\ NoStage.n = 0
  BY DEF FreshStage, NoStage, StageName
<1> QED BY <1>2, <1>3

(* open_segment_locked on a recorder at rest opens a segment or leaves it  *)
(* at rest.                                                                *)
LEMMA OpensSegment ==
  ASSUME TypeOK, NEW o, NEW s, s.stage = NoStage, InitMuxer(o, FreshStage, now, s),
         mux = NoStage, mode' # "off", inited', op'[Venc] = "none",
         \A u \in Threads : pc'[u] \notin Closing,
         QueueSound', o # "ok" => Drained'
  PROVE  SerialInv'
<1>0. ~CloseInProgress'
  BY DEF CloseInProgress
<1>1. nopened \in Nat /\ nopened + 1 # 0
  BY DEF TypeOK
<1>2. CASE o = "ok"
  <2>1. /\ stagePath' = FreshStage /\ muxerOpen' /\ segActive' /\ mux' = FreshStage
        /\ nopened' = nopened + 1
    BY <1>2 DEF InitMuxer
  <2>2. AtWork'
    BY <1>0, <1>1, <2>1, FreshStageIsNew DEF AtWork
  <2> QED BY <2>2 DEF SerialInv
<1>3. CASE o # "ok"
  <2>1. stagePath' = NoStage /\ ~muxerOpen' /\ mux' = NoStage
    BY <1>3 DEF InitMuxer
  <2>2. AtRest'
    BY <1>0, <1>3, <2>1 DEF AtRest
  <2> QED BY <2>2 DEF SerialInv
<1> QED BY <1>2, <1>3

(* A frame is never queued without its segment.                            *)
LEMMA EnqueueSound ==
  ASSUME TypeOK, QueueSound, NEW seg \in Nat \ {0}, NEW fs \in Seq(FrameType), NEW waiting,
         Enqueue(seg, fs, waiting), writer' = writer, writing' = writing
  PROVE  QueueSound'
<1> DEFINE new == [i \in 1 .. Len(fs) |-> [seg |-> seg, frame |-> fs[i]]]
<1>1. wq \in Seq(EntryType) /\ Len(wq) \in Nat /\ Len(fs) \in Nat
  BY LenProperties DEF TypeOK
<1>2. \A i \in 1 .. Len(fs) : [seg |-> seg, frame |-> fs[i]] \in EntryType
  BY <1>1, ElementOfSeq DEF EntryType
<1>3. /\ new \in Seq(EntryType) /\ Len(new) = Len(fs)
      /\ \A i \in 1 .. Len(new) : new[i].seg = seg
  BY <1>1, <1>2
<1>4. wq' = wq \o new
  BY DEF Enqueue
<1> HIDE DEF new
<1>5. \A i \in 1 .. Len(wq') : wq'[i].seg # 0
  <2> HIDE DEF EntryType
  <2>1. /\ Len(wq') = Len(wq) + Len(new)
        /\ \A i \in 1 .. Len(wq) + Len(new) :
             wq'[i] = IF i <= Len(wq) THEN wq[i] ELSE new[i - Len(wq)]
    BY <1>1, <1>3, <1>4, ConcatProperties
  <2> SUFFICES ASSUME NEW i \in 1 .. Len(wq) + Len(new) PROVE wq'[i].seg # 0
    BY <2>1
  <2>2. CASE i <= Len(wq)
    BY <1>1, <2>1, <2>2 DEF QueueSound
  <2>3. CASE ~(i <= Len(wq))
    <3>1. i - Len(wq) \in 1 .. Len(new)
      BY <1>1, <1>3, <2>3
    <3> QED BY <1>3, <2>1, <2>3, <3>1
  <2> QED BY <2>2, <2>3
<1> QED BY <1>5 DEF QueueSound

LEMMA WriteAfterRollSound ==
  ASSUME TypeOK, QueueSound, NEW o, NEW l \in LocType, WriteAfterRoll(o, l),
         writer' = writer, writing' = writing
  PROVE  QueueSound' /\ (o # "ok" => wq' = wq)
<1>0. QueueT /\ l.frame \in FrameType /\ nopened + 1 \in Nat \ {0}
  BY TypeParts DEF TypeOK, LocType
<1>1. CASE o = "ok"
  <2> DEFINE waiting == (l.roll = "continuous")
  <2>1. PICK fs \in OfferLive(l.frame, waiting) : Enqueue(nopened + 1, fs, waiting)
    BY <1>1 DEF WriteAfterRoll
  <2>2. waiting \in BOOLEAN
    OBVIOUS
  <2> HIDE DEF waiting
  <2>3. fs \in Seq(FrameType)
    BY <1>0, <2>1, <2>2, OfferLiveProperties
  <2> QED BY <1>0, <1>1, <2>1, <2>3, EnqueueSound
<1>2. CASE o # "ok"
  <2>1. wq' = wq
    BY <1>2 DEF WriteAfterRoll, queueVars
  <2> QED BY <1>2, <2>1 DEF QueueSound
<1> QED BY <1>1, <1>2

-----------------------------------------------------------------------------
(* Closing                                                                 *)

(* What a thread in the course of a close knows.                           *)
LEMMA CloserKnows ==
  ASSUME SerialInv, NEW t \in Threads, pc[t] \in Closing
  PROVE  ClosedBy(t)
<1>1. CloseInProgress
  BY DEF CloseInProgress
<1>2. PICK u \in Threads : ClosedBy(u)
  BY <1>1 DEF SerialInv, AtRest, AtWork
<1>3. t = u
  BY <1>2 DEF ClosedBy
<1> QED BY <1>2, <1>3

(* Draining ends with nothing on its way; the mark between changes nothing *)
(* of this.                                                                *)
LEMMA DrainSerial ==
  ASSUME SerialCallers, TypeOK, SerialInv, NEW t \in Threads, DrainDone(t) \/ CloseMark(t)
  PROVE  SerialInv'
<1>0. pc \in [Threads -> Labels] /\ loc \in [Threads -> LocType]
  BY DEF TypeOK
<1>1. /\ pc[t] \in {"drain", "mark"}
      /\ \E label \in {"mark", "deinit"} : pc' = [pc EXCEPT ![t] = label]
      /\ loc' = loc \/ \E e : loc' = [loc EXCEPT ![t].empty = e]
  BY DEF DrainDone, CloseMark, Goto
<1>2. Drained
  <2>1. CASE DrainDone(t)
    BY <2>1 DEF DrainDone, SerialCallers
  <2>2. CASE CloseMark(t)
    <3>1. ClosedBy(t) /\ pc[t] # "drain"
      BY <1>1, <2>2, CloserKnows DEF CloseMark, Closing
    <3> QED BY <3>1 DEF ClosedBy
  <2> QED BY <2>1, <2>2
<1>3. /\ muxerOpen' = muxerOpen /\ mux' = mux /\ stagePath' = stagePath
      /\ segActive' = segActive /\ mode' = mode /\ inited' = inited /\ op' = op
      /\ wq' = wq /\ writer' = writer /\ writing' = writing
  BY DEF DrainDone, CloseMark, flagVars, nameVars, modeVars, lifeVars, queueVars,
     writerVars, libVars
<1>4. /\ pc'[t] \in {"mark", "deinit"} /\ \A u \in Threads : u # t => pc'[u] = pc[u]
  BY <1>0, <1>1
<1>5. loc'[t].stage = loc[t].stage /\ loc'[t].roll = loc[t].roll
  <2>1. loc[t] \in LocType /\ t \in DOMAIN loc
    BY <1>0
  <2> QED BY <1>1, <2>1 DEF LocType
<1>6. ClosedBy(t)
  BY <1>1, CloserKnows DEF Closing
<1>7. Drained'
  BY <1>2, <1>3 DEF Drained
<1>8. \A u \in Threads : pc'[u] \in Closing => u = t
  BY <1>4, <1>6 DEF ClosedBy
<1>9. pc[t] \in Shutting /\ pc'[t] \in Shutting
  BY <1>1, <1>4 DEF Shutting
<1>10. mux = stagePath /\ mux # NoStage
  BY <1>1, <1>6 DEF ClosedBy
<1>11. ClosedBy(t)'
  BY <1>3, <1>4, <1>5, <1>6, <1>7, <1>8, <1>9, <1>10 DEF ClosedBy
<1>12. QueueSound' /\ (~inited' => mode' = "off") /\ op'[Venc] = "none"
  BY <1>3 DEF SerialInv, QueueSound
<1> QED BY <1>11, <1>12 DEF SerialInv

LEMMA MuxDeinitSerial ==
  ASSUME TypeOK, SerialInv, NEW t \in Threads, MuxDeinit(t)
  PROVE  SerialInv' /\ Drained
<1>0. pc \in [Threads -> Labels]
  BY DEF TypeOK
<1>1. /\ pc[t] = "deinit" /\ pc' = [pc EXCEPT ![t] = "finish"] /\ mux' = NoStage
      /\ muxerOpen' = muxerOpen /\ stagePath' = stagePath
      /\ segActive' = segActive /\ mode' = mode /\ inited' = inited /\ op' = op /\ loc' = loc
      /\ wq' = wq /\ writer' = writer /\ writing' = writing
  BY DEF MuxDeinit, Goto, flagVars, nameVars, modeVars, lifeVars, queueVars, writerVars
<1>2. pc'[t] = "finish" /\ \A u \in Threads : u # t => pc'[u] = pc[u]
  BY <1>0, <1>1
<1>3. ClosedBy(t)
  BY <1>1, CloserKnows DEF Closing
<1>4. Drained /\ Drained'
  BY <1>1, <1>3 DEF Drained, ClosedBy
<1>5. \A u \in Threads : pc'[u] \in Closing => u = t
  BY <1>2, <1>3 DEF ClosedBy
<1>6. ClosedBy(t)'
  BY <1>1, <1>2, <1>3, <1>4, <1>5, Zenon DEF ClosedBy, Shutting
<1>7. QueueSound' /\ (~inited' => mode' = "off") /\ op'[Venc] = "none"
  BY <1>1 DEF SerialInv, QueueSound
<1> QED BY <1>4, <1>6, <1>7 DEF SerialInv

(* The files that are left, whatever happens to them.                      *)
LEMMA ClosedFlags ==
  ASSUME NEW l, NEW o
  PROVE  Closed(l, o).stage = NoStage /\ Closed(l, o).active = FALSE
BY DEF Closed

LEMMA CloseFinishSerial ==
  ASSUME TypeOK, SerialInv, NEW t \in Threads, CloseFinish(t)
  PROVE  SerialInv'
<1>0. pc \in [Threads -> Labels] /\ op \in [Threads -> Ops \cup {"none"}]
  BY DEF TypeOK
<1>1. /\ pc[t] = "finish" /\ stagePath' = NoStage
      /\ muxerOpen' = muxerOpen /\ mux' = mux
      /\ mode' = mode /\ inited' = inited
      /\ wq' = wq /\ writer' = writer /\ writing' = writing
  BY ClosedFlags DEF CloseFinish, modeVars, lifeVars, queueVars, writerVars
<1>2. ClosedBy(t)
  BY <1>1, CloserKnows DEF Closing
<1>3. /\ mux = NoStage /\ Drained /\ ~muxerOpen /\ \A u \in Threads : pc[u] \in Closing => u = t
  BY <1>1, <1>2 DEF ClosedBy
<1>4. Drained' /\ QueueSound' /\ (~inited' => mode' = "off")
  BY <1>1, <1>3 DEF Drained, SerialInv, QueueSound
<1>5. CASE op[t] = "deinit"
  <2>1. pc' = [pc EXCEPT ![t] = "stopped"] /\ op' = op
    BY <1>5 DEF CloseFinish, Goto
  <2>2. pc'[t] = "stopped" /\ \A u \in Threads : u # t => pc'[u] = pc[u]
    BY <1>0, <2>1
  <2>3. mode = "off"
    BY <1>2, <1>5 DEF ClosedBy
  <2>4. \A u \in Threads : pc'[u] \in Closing => u = t
    BY <1>3, <2>2
  <2>5. ClosedBy(t)'
    BY <1>1, <1>3, <1>4, <2>1, <2>2, <2>3, <2>4 DEF ClosedBy, Shutting
  <2> QED BY <1>4, <2>1, <2>5 DEF SerialInv
<1>6. CASE op[t] # "deinit"
  <2>1. pc' = [pc EXCEPT ![t] = "idle"] /\ op' = [op EXCEPT ![t] = "none"]
    BY <1>6 DEF CloseFinish, Goto
  <2>2. \A u \in Threads : pc'[u] \notin Closing
    BY <1>0, <1>3, <2>1 DEF Closing
  <2>3. AtRest'
    BY <1>1, <1>3, <1>4, <2>2 DEF AtRest, CloseInProgress
  <2>4. op'[Venc] = "none"
    BY <1>0, <2>1, Constants DEF SerialInv
  <2> QED BY <1>4, <2>3, <2>4 DEF SerialInv
<1> QED BY <1>5, <1>6

LEMMA CloseReopenSerial ==
  ASSUME TypeOK, SerialInv, NEW t \in Threads, CloseReopen(t)
  PROVE  SerialInv'
<1>0. pc \in [Threads -> Labels] /\ loc[t] \in LocType
  BY DEF TypeOK
<1>1. PICK p \in PromoteOutcomes, o \in OpenOutcomes :
        /\ InitMuxer(o, FreshStage, now, Closed(loc[t], p))
        /\ WriteAfterRoll(o, loc[t])
  BY DEF CloseReopen
<1>2. /\ pc[t] = "finish" /\ loc[t].roll # "no" /\ pc' = [pc EXCEPT ![t] = "idle"]
      /\ mode' = mode /\ inited' = inited /\ op' = op
      /\ writer' = writer /\ writing' = writing
  BY DEF CloseReopen, Goto, modeVars, lifeVars, writerVars
<1>3. ClosedBy(t)
  BY <1>2, CloserKnows DEF Closing
<1>4. /\ mux = NoStage /\ Drained /\ mode # "off" /\ \A u \in Threads : pc[u] \in Closing => u = t
  BY <1>2, <1>3 DEF ClosedBy, Shutting
<1>5. \A u \in Threads : pc'[u] \notin Closing
  BY <1>0, <1>2, <1>4 DEF Closing
<1>6. QueueSound' /\ (o # "ok" => wq' = wq)
  BY <1>0, <1>1, <1>2, WriteAfterRollSound DEF SerialInv
<1>7. o # "ok" => Drained'
  BY <1>2, <1>4, <1>6 DEF Drained
<1>8. mode' # "off" /\ inited' /\ op'[Venc] = "none"
  BY <1>2, <1>4 DEF SerialInv
<1> QED BY <1>1, <1>4, <1>5, <1>6, <1>7, <1>8, ClosedFlags, OpensSegment

(* A thread that closes finds no segment opened meanwhile, and never goes  *)
(* on with a muxer it has not shut down.                                   *)
LEMMA CloseIsOrderly ==
  ASSUME SerialInv, NEW t \in Threads
  PROVE  ~CloseReopenBusy(t) /\ ~OverDrainDone(t) /\ ~OverInit(t)
<1>1. ~CloseReopenBusy(t)
  <2>1. ASSUME CloseReopenBusy(t) PROVE FALSE
    <3>1. pc[t] = "finish" /\ muxerOpen
      BY <2>1 DEF CloseReopenBusy
    <3>2. ClosedBy(t)
      BY <3>1, CloserKnows DEF Closing
    <3> QED BY <3>1, <3>2 DEF ClosedBy
  <2> QED BY <2>1
<1>2. ~OverDrainDone(t) /\ ~OverInit(t)
  <2>1. ASSUME pc[t] \in {"overDrain", "overInit"} PROVE FALSE
    <3>1. ClosedBy(t)
      BY <2>1, CloserKnows DEF Closing
    <3> QED BY <2>1, <3>1 DEF ClosedBy, Shutting
  <2> QED BY <2>1 DEF OverDrainDone, OverInit
<1> QED BY <1>1, <1>2

LEMMA CloseSerial ==
  ASSUME SerialCallers, TypeOK, SerialInv, NEW t \in Threads, Close(t)
  PROVE  SerialInv' /\ (mux # NoStage /\ mux' = NoStage => Drained)
<1>1. CASE DrainDone(t) \/ CloseMark(t)
  <2>1. mux' = mux
    BY <1>1 DEF DrainDone, CloseMark, libVars
  <2> QED BY <1>1, <2>1, DrainSerial
<1>2. CASE MuxDeinit(t)
  BY <1>2, MuxDeinitSerial
<1>3. CASE CloseFinish(t)
  <2>1. mux' = mux
    BY <1>3 DEF CloseFinish
  <2> QED BY <1>3, <2>1, CloseFinishSerial
<1>4. CASE CloseReopen(t)
  <2>1. ClosedBy(t) /\ pc[t] = "finish"
    BY <1>4, CloserKnows DEF CloseReopen, Closing
  <2>2. Drained
    BY <2>1 DEF ClosedBy
  <2> QED BY <1>4, <2>2, CloseReopenSerial
<1> QED BY <1>1, <1>2, <1>3, <1>4, CloseIsOrderly DEF Close

-----------------------------------------------------------------------------
(* The encoder's thread                                                    *)

(* A packet that returns leaves the threads that close alone.              *)
LEMMA PacketLeaves ==
  ASSUME TypeOK, AtPacket, PacketReturns
  PROVE  \A u \in Threads : pc[u] \in Closing \/ pc'[u] \in Closing =>
            pc'[u] = pc[u] /\ loc'[u] = loc[u]
<1>1. pc \in [Threads -> Labels] /\ loc \in [Threads -> LocType] /\ Venc \in Threads
  BY Constants DEF TypeOK
<1>2. pc' = [pc EXCEPT ![Venc] = "idle"] /\ loc' = [loc EXCEPT ![Venc] = NoLoc]
  BY DEF PacketReturns, Goto
<1> QED BY <1>1, <1>2 DEF AtPacket, Closing

(* Nothing but an open segment can be closed by the encoder's thread: no   *)
(* control thread closes in continuous mode.                               *)
LEMMA PacketState ==
  ASSUME SerialInv, AtPacket
  PROVE  /\ muxerOpen => AtWork
         /\ mode = "continuous" => AtWork \/ AtRest
<1>1. \A t \in Threads : ClosedBy(t) => t # Venc
  BY DEF AtPacket, ClosedBy, Shutting
<1>2. \A t \in Threads : ClosedBy(t) => ~muxerOpen /\ mode # "continuous"
  BY <1>1 DEF ClosedBy
<1> QED BY <1>2 DEF SerialInv, AtRest

LEMMA PacketOpenSerial ==
  ASSUME TypeOK, SerialInv, PacketOpen
  PROVE  SerialInv' /\ mux = NoStage
<1>0. /\ pc \in [Threads -> Labels] /\ Venc \in Threads /\ QueueT /\ Frame \in FrameType
      /\ nopened + 1 \in Nat \ {0}
  BY Constants, TypeParts DEF TypeOK, Frame, LocType
<1>1. /\ AtPacket /\ mode = "continuous" /\ ~muxerOpen /\ PacketReturns
      /\ mode' = mode /\ inited' = inited /\ op' = op /\ writer' = writer /\ writing' = writing
  BY DEF PacketOpen, modeVars, lifeVars, writerVars
<1>2. AtRest
  BY <1>1, PacketState DEF AtWork
<1>3. PICK o \in OpenOutcomes :
        /\ InitMuxer(o, FreshStage, now, Unclosed)
        /\ IF o = "ok" THEN \E fs \in OfferLive(Frame, TRUE) : Enqueue(nopened + 1, fs, TRUE)
           ELSE UNCHANGED queueVars
  BY DEF PacketOpen
<1>4. mux = NoStage /\ Drained /\ Unclosed.stage = NoStage
  BY <1>2 DEF AtRest, Unclosed
<1>5. \A u \in Threads : pc'[u] \notin Closing
  BY <1>0, <1>1, <1>2 DEF AtRest, CloseInProgress, PacketReturns, Goto, Closing
<1>6. QueueSound' /\ (o # "ok" => Drained')
  <2>1. CASE o = "ok"
    <3>1. PICK fs \in OfferLive(Frame, TRUE) : Enqueue(nopened + 1, fs, TRUE)
      BY <1>3, <2>1
    <3>2. fs \in Seq(FrameType)
      BY <1>0, <3>1, OfferLiveProperties
    <3> QED BY <1>0, <1>1, <2>1, <3>1, <3>2, EnqueueSound DEF SerialInv
  <2>2. CASE o # "ok"
    <3>1. wq' = wq
      BY <1>3, <2>2 DEF queueVars
    <3> QED BY <1>1, <1>4, <3>1 DEF SerialInv, QueueSound, Drained
  <2> QED BY <2>1, <2>2
<1>7. mode' # "off" /\ inited' /\ op'[Venc] = "none"
  BY <1>1 DEF SerialInv
<1> QED BY <1>3, <1>4, <1>5, <1>6, <1>7, OpensSegment

LEMMA PacketWriteSerial ==
  ASSUME TypeOK, SerialInv, PacketWrite
  PROVE  SerialInv'
<1>0. QueueT /\ Frame \in FrameType /\ waitingKey \in BOOLEAN /\ nopened \in Nat
  BY Constants, TypeParts DEF TypeOK, Frame, LocType
<1>1. /\ AtPacket /\ muxerOpen /\ PacketReturns
      /\ muxerOpen' = muxerOpen /\ mux' = mux /\ stagePath' = stagePath
      /\ segActive' = segActive /\ nopened' = nopened
      /\ mode' = mode /\ inited' = inited /\ op' = op /\ writer' = writer /\ writing' = writing
  BY DEF PacketWrite, flagVars, nameVars, modeVars, lifeVars, writerVars, libVars
<1>2. nopened # 0
  BY <1>1, PacketState DEF AtWork
<1>3. QueueSound'
  <2>1. CASE UNCHANGED queueVars
    <3>1. wq' = wq
      BY <2>1 DEF queueVars
    <3> QED BY <1>1, <3>1 DEF SerialInv, QueueSound
  <2>2. CASE \E fs \in OfferLive(Frame, waitingKey) : Enqueue(nopened, fs, waitingKey)
    <3>1. PICK fs \in OfferLive(Frame, waitingKey) : Enqueue(nopened, fs, waitingKey)
      BY <2>2
    <3>2. fs \in Seq(FrameType)
      BY <1>0, <3>1, OfferLiveProperties
    <3> QED BY <1>0, <1>1, <1>2, <3>1, <3>2, EnqueueSound DEF SerialInv
  <2> QED BY <2>1, <2>2 DEF PacketWrite
<1>4. \A u \in Threads : pc[u] \in Closing \/ pc'[u] \in Closing =>
         pc'[u] = pc[u] /\ op'[u] = op[u] /\ loc'[u] = loc[u]
  BY <1>1, PacketLeaves
<1> QED BY <1>1, <1>3, <1>4, Bystander DEF SerialInv

LEMMA PacketSerial ==
  ASSUME TypeOK, SerialInv, OnPacket
  PROVE  SerialInv' /\ (mux # NoStage => mux' = mux)
<1>1. CASE PacketOpen
  BY <1>1, PacketOpenSerial
<1>2. CASE PacketWrite
  <2>1. mux' = mux
    BY <1>2 DEF PacketWrite, libVars
  <2> QED BY <1>2, <2>1, PacketWriteSerial
<1>3. CASE PacketIgnored \/ PacketBuffered \/ (PacketRunOver /\ NothingToClose)
  <2>1. /\ AtPacket /\ PacketReturns
        /\ muxerOpen' = muxerOpen /\ mux' = mux /\ stagePath' = stagePath
        /\ segActive' = segActive /\ nopened' = nopened /\ wq' = wq
        /\ inited' = inited /\ op' = op /\ writer' = writer /\ writing' = writing
    BY <1>3 DEF PacketIgnored, PacketBuffered, PacketRunOver, flagVars, nameVars, lifeVars,
       queueVars, writerVars, libVars
  <2>2. \/ mode' = mode
        \/ mode = "continuous" /\ ~muxerOpen /\ mode' = "off"
    BY <1>3 DEF PacketIgnored, PacketBuffered, PacketRunOver, NothingToClose, modeVars
  <2>3. mode' = mode \/ (~CloseInProgress /\ ~muxerOpen /\ mode' = "off")
    BY <2>1, <2>2, PacketState DEF AtWork, AtRest
  <2>4. QueueSound' /\ (Drained => Drained') /\ (~inited' => mode' = "off")
    BY <2>1, <2>2 DEF SerialInv, QueueSound, Drained
  <2>5. \A u \in Threads : pc[u] \in Closing \/ pc'[u] \in Closing =>
           pc'[u] = pc[u] /\ op'[u] = op[u] /\ loc'[u] = loc[u]
    BY <2>1, PacketLeaves
  <2> QED BY <2>1, <2>3, <2>4, <2>5, Bystander
<1>4. CASE PacketRoll \/ PacketQuiet \/ (PacketRunOver /\ ~NothingToClose)
  <2>1. /\ AtPacket /\ inited' = inited /\ writer' = writer /\ writing' = writing
        /\ \E roll : /\ BeginClose(Venc, roll)
                     /\ roll # "no" => mode' # "off"
    BY <1>4 DEF PacketRoll, PacketQuiet, PacketRunOver, lifeVars, modeVars, writerVars, Recording
  <2>2. mode' = mode \/ mode' = "off"
    BY <1>4 DEF PacketRoll, PacketQuiet, PacketRunOver, modeVars
  <2>3. AtWork
    <3>1. CASE PacketRoll \/ PacketQuiet
      BY <2>1, <3>1, PacketState DEF PacketRoll, PacketQuiet
    <3>2. CASE PacketRunOver /\ ~NothingToClose
      <4>1. AtWork \/ AtRest
        BY <2>1, <3>2, PacketState DEF PacketRunOver
      <4> QED BY <3>2, <4>1 DEF AtRest, NothingToClose
    <3> QED BY <1>4, <3>1, <3>2
  <2>4. op[Venc] # "deinit" /\ Venc \in Threads
    BY Constants DEF SerialInv
  <2>5. ~inited' => mode' = "off"
    BY <2>1, <2>2 DEF SerialInv
  <2>6. mux' = mux
    BY <2>1 DEF BeginClose, libVars
  <2> QED BY <2>1, <2>3, <2>4, <2>5, <2>6, BeginsClose
<1> QED BY <1>1, <1>2, <1>3, <1>4 DEF OnPacket

-----------------------------------------------------------------------------
(* The control threads                                                     *)

(* A thread that enters an operation, or is past it, closes nothing.       *)
LEMMA ThreadMoves ==
  ASSUME TypeOK, NEW t \in Threads, pc[t] \notin Closing,
         NEW label, label \notin Closing, Goto(t, label), loc' = loc,
         \A u \in Threads \ {t} : op'[u] = op[u]
  PROVE  \A u \in Threads : pc[u] \in Closing \/ pc'[u] \in Closing =>
            pc'[u] = pc[u] /\ op'[u] = op[u] /\ loc'[u] = loc[u]
<1>1. pc \in [Threads -> Labels] /\ pc' = [pc EXCEPT ![t] = label]
  BY DEF TypeOK, Goto
<1> QED BY <1>1

LEMMA LeaveMoves ==
  ASSUME TypeOK, NEW t \in Ctl, pc[t] \notin Closing, Leave(t)
  PROVE  /\ \A u \in Threads : pc[u] \in Closing \/ pc'[u] \in Closing =>
               pc'[u] = pc[u] /\ op'[u] = op[u] /\ loc'[u] = loc[u]
         /\ op'[Venc] = op[Venc]
<1>0. t \in Threads /\ t # Venc /\ Venc \in Threads /\ op \in [Threads -> Ops \cup {"none"}]
  BY Constants, RecordAssumption DEF Threads, TypeOK
<1>1. Goto(t, "idle") /\ loc' = loc /\ op' = [op EXCEPT ![t] = "none"]
  BY DEF Leave
<1>2. \A u \in Threads \ {t} : op'[u] = op[u]
  BY <1>0, <1>1
<1> QED BY <1>0, <1>1, <1>2, ThreadMoves DEF Closing

(* The operations that close nothing and open nothing.                     *)
LEMMA SettingSerial ==
  ASSUME SerialCallers, TypeOK, SerialInv, NEW t \in Ctl,
         Start(t) \/ SetRunDeadline(t) \/ EventExtends(t) \/ Extend(t)
  PROVE  SerialInv' /\ mux' = mux
<1>0. t \in Threads /\ t # Venc
  BY RecordAssumption DEF Threads
<1>1. /\ muxerOpen' = muxerOpen /\ mux' = mux /\ stagePath' = stagePath
      /\ segActive' = segActive /\ nopened' = nopened /\ wq' = wq
      /\ inited' = inited /\ writer' = writer /\ writing' = writing
  BY DEF Start, SetRunDeadline, EventExtends, Extend, flagVars, nameVars, lifeVars,
     queueVars, writerVars, libVars
<1>2. pc[t] \in {"enter", "deadline"} /\ pc[t] \notin Closing
  BY DEF Start, SetRunDeadline, EventExtends, Extend, MayEnter, Closing
<1>3. \/ mode' = mode
      \/ ~CloseInProgress /\ inited /\ mode' # "off"
  <2>1. CASE Start(t)
    <3>1. MayEnter(t) /\ op[t] \in {"start", "runFor"} /\ mode' = "continuous"
      BY <2>1 DEF Start
    <3> QED BY <3>1, EntersAlone
  <2>2. CASE EventExtends(t)
    <3>1. MayEnter(t) /\ op[t] \in {"motionEvent", "faceEvent"} /\ mode' = "motion"
      BY <2>2 DEF EventExtends
    <3> QED BY <3>1, EntersAlone
  <2>3. CASE SetRunDeadline(t) \/ Extend(t)
    BY <2>3 DEF SetRunDeadline, Extend
  <2> QED BY <2>1, <2>2, <2>3
<1>4. /\ \A u \in Threads : pc[u] \in Closing \/ pc'[u] \in Closing =>
            pc'[u] = pc[u] /\ op'[u] = op[u] /\ loc'[u] = loc[u]
      /\ op'[Venc] = op[Venc]
  <2>1. CASE Leave(t)
    BY <1>2, <2>1, LeaveMoves
  <2>2. CASE Goto(t, "deadline") /\ UNCHANGED <<op, loc>>
    BY <1>0, <1>2, <2>2, ThreadMoves DEF Closing
  <2> QED BY <2>1, <2>2 DEF Start, SetRunDeadline, EventExtends, Extend
<1>5. QueueSound' /\ (Drained => Drained') /\ (~inited' => mode' = "off")
  BY <1>1, <1>3 DEF SerialInv, QueueSound, Drained
<1> QED BY <1>1, <1>3, <1>4, <1>5, Bystander

(* The operations that may close: they find a segment open, or nothing.    *)
LEMMA ClosingSerial ==
  ASSUME SerialCallers, TypeOK, SerialInv, NEW t \in Ctl, Stop(t) \/ Arm(t) \/ Poll(t)
  PROVE  SerialInv' /\ mux' = mux
<1>0. t \in Threads /\ t # Venc /\ pc \in [Threads -> Labels] /\ Venc \in Threads
  BY RecordAssumption, Constants DEF Threads, TypeOK
<1>1. /\ pc[t] = "enter" /\ pc[t] \notin Closing
      /\ inited' = inited /\ writer' = writer /\ writing' = writing
  BY DEF Stop, Arm, Poll, MayEnter, Closing, lifeVars, writerVars
<1>2. /\ Stop(t) => mode' = "off" /\ op[t] \in {"stop", "deinit"}
      /\ Arm(t) => mode' = "motion" /\ op[t] = "arm"
      /\ Poll(t) => mode' = mode /\ op[t] = "poll"
  BY DEF Stop, Arm, Poll, modeVars
<1>3. Stop(t) \/ Arm(t) => ~CloseInProgress
  BY <1>2, EntersAlone DEF Stop, Arm
<1>4. ~inited' => mode' = "off"
  <2>1. Arm(t) => inited
    BY <1>2, EntersAlone DEF Arm
  <2> QED BY <1>1, <1>2, <2>1 DEF SerialInv
<1>5. CASE BeginClose(t, "no")
  <2>1. muxerOpen /\ AtWork
    <3>1. CASE Poll(t) /\ muxerOpen
      BY <3>1 DEF SerialInv, AtRest, ClosedBy
    <3>2. CASE (Stop(t) \/ Arm(t)) /\ ~NothingToClose
      <4>1. AtRest \/ AtWork
        <5>1. \A u \in Threads : ~ClosedBy(u)
          BY <1>3, <3>2 DEF CloseInProgress, ClosedBy, Shutting, Closing
        <5> QED BY <5>1 DEF SerialInv
      <4> QED BY <3>2, <4>1 DEF AtRest, AtWork, NothingToClose
    <3>3. \/ Poll(t) /\ muxerOpen
          \/ (Stop(t) \/ Arm(t)) /\ ~NothingToClose
      <4>1. pc' = [pc EXCEPT ![t] = "drain"]
        BY <1>5 DEF BeginClose, Goto
      <4>2. pc'[t] = "drain"
        BY <1>0, <4>1
      <4>3. ~Leave(t) /\ ~Goto(t, "stopped")
        BY <1>0, <4>2 DEF Leave, Goto
      <4> QED BY <4>3 DEF Stop, Arm, Poll
    <3> QED BY <3>1, <3>2, <3>3 DEF AtWork
  <2>2. mode' # "continuous"
    <3>1. Poll(t) => mode = "motion"
      <4>1. pc' = [pc EXCEPT ![t] = "drain"]
        BY <1>5 DEF BeginClose, Goto
      <4>2. ~Leave(t)
        BY <1>0, <4>1 DEF Leave, Goto
      <4> QED BY <4>2 DEF Poll
    <3> QED BY <1>2, <3>1
  <2>3. op[t] = "deinit" => mode' = "off"
    BY <1>2
  <2>4. mux' = mux
    BY <1>5 DEF BeginClose, libVars
  <2> QED BY <1>0, <1>1, <1>4, <1>5, <2>1, <2>2, <2>3, <2>4, BeginsClose
<1>6. CASE ~BeginClose(t, "no")
  <2>1. /\ muxerOpen' = muxerOpen /\ mux' = mux /\ stagePath' = stagePath
        /\ segActive' = segActive /\ nopened' = nopened /\ wq' = wq
        /\ Stop(t) \/ Arm(t) => ~muxerOpen /\ stagePath = NoStage
        /\ ~Stop(t) \/ op[t] # "deinit" => Leave(t)
        /\ Stop(t) /\ op[t] = "deinit" => Goto(t, "stopped") /\ op' = op /\ loc' = loc
    <3>1. CASE Stop(t)
      <4>1. NothingToClose /\ UNCHANGED <<flagVars, nameVars, segments, segFrames, queueVars, libVars>>
            /\ (IF op[t] = "stop" THEN Leave(t)
                ELSE Goto(t, "stopped") /\ UNCHANGED <<op, loc>>)
        BY <1>6, <3>1 DEF Stop
      <4> QED BY <1>2, <3>1, <4>1 DEF NothingToClose, flagVars, nameVars, queueVars, libVars
    <3>2. CASE Arm(t)
      <4>1. NothingToClose /\ UNCHANGED <<flagVars, nameVars, segments, segFrames, queueVars, libVars>>
            /\ Leave(t)
        BY <1>6, <3>2 DEF Arm
      <4> QED BY <1>2, <3>2, <4>1 DEF NothingToClose, flagVars, nameVars, queueVars, libVars
    <3>3. CASE Poll(t)
      <4>1. UNCHANGED <<flagVars, nameVars, segments, segFrames, queueVars, libVars>> /\ Leave(t)
        BY <1>6, <3>3 DEF Poll
      <4>2. ~Stop(t) /\ ~Arm(t)
        BY <1>2, <3>3
      <4> QED BY <4>1, <4>2 DEF flagVars, nameVars, queueVars, libVars
    <3> QED BY <3>1, <3>2, <3>3
  <2>2. QueueSound' /\ (Drained => Drained')
    BY <1>1, <2>1 DEF SerialInv, QueueSound, Drained
  <2>3. CASE ~Stop(t) \/ op[t] # "deinit"
    <3>1. /\ \A u \in Threads : pc[u] \in Closing \/ pc'[u] \in Closing =>
                pc'[u] = pc[u] /\ op'[u] = op[u] /\ loc'[u] = loc[u]
          /\ op'[Venc] = op[Venc]
      BY <1>1, <2>1, <2>3, LeaveMoves
    <3>2. mode' = mode \/ (~CloseInProgress /\ ~muxerOpen)
      BY <1>2, <1>3, <2>1
    <3> QED BY <1>4, <2>1, <2>2, <3>1, <3>2, Bystander
  <2>4. CASE Stop(t) /\ op[t] = "deinit"
    <3>1. pc' = [pc EXCEPT ![t] = "stopped"] /\ op' = op
      BY <2>1, <2>4 DEF Goto
    <3>2. pc'[t] = "stopped" /\ \A u \in Threads : u # t => pc'[u] = pc[u]
      BY <1>0, <3>1
    <3>3. ~CloseInProgress /\ mode' = "off" /\ ~muxerOpen /\ stagePath = NoStage
      BY <1>2, <1>3, <2>1, <2>4
    <3>4. AtRest
      <4>1. \A u \in Threads : ~ClosedBy(u)
        BY <3>3 DEF CloseInProgress, ClosedBy, Shutting, Closing
      <4> QED BY <3>3, <4>1 DEF SerialInv, AtWork
    <3>5. mux' = NoStage /\ stagePath' = NoStage /\ Drained' /\ ~muxerOpen'
      BY <2>1, <2>2, <3>4 DEF AtRest
    <3>6. \A u \in Threads : pc'[u] \in Closing => u = t
      BY <3>2, <3>3 DEF CloseInProgress
    <3>7. ClosedBy(t)'
      BY <3>2, <3>3, <3>5, <3>6 DEF ClosedBy, Shutting
    <3>8. op'[Venc] = "none"
      BY <3>1 DEF SerialInv
    <3> QED BY <1>0, <1>4, <2>1, <2>2, <3>7, <3>8 DEF SerialInv
  <2> QED BY <2>3, <2>4
<1> QED BY <1>5, <1>6

LEMMA StopWriterSerial ==
  ASSUME TypeOK, SerialInv, NEW t \in Threads, StopWriter(t)
  PROVE  SerialInv' /\ mux' = mux
<1>0. pc \in [Threads -> Labels]
  BY DEF TypeOK
<1>1. /\ pc[t] = "stopped" /\ pc' = [pc EXCEPT ![t] = "join"]
      /\ muxerOpen' = muxerOpen /\ mux' = mux /\ stagePath' = stagePath
      /\ mode' = mode /\ inited' = inited /\ op' = op
      /\ wq' = wq /\ writer' = writer /\ writing' = writing
  BY DEF StopWriter, Goto, flagVars, nameVars, modeVars, queueVars, libVars
<1>2. pc'[t] = "join" /\ \A u \in Threads : u # t => pc'[u] = pc[u]
  BY <1>0, <1>1
<1>3. ClosedBy(t)
  BY <1>1, CloserKnows DEF Closing
<1>4. /\ Drained /\ mux = NoStage /\ mode = "off" /\ stagePath = NoStage /\ ~muxerOpen
      /\ \A u \in Threads : pc[u] \in Closing => u = t
  BY <1>1, <1>3 DEF ClosedBy, Shutting
<1>5. Drained' /\ QueueSound' /\ (~inited' => mode' = "off") /\ op'[Venc] = "none"
  BY <1>1, <1>4 DEF Drained, SerialInv, QueueSound
<1>6. \A u \in Threads : pc'[u] \in Closing => u = t
  BY <1>2, <1>4
<1>7. ClosedBy(t)'
  BY <1>1, <1>2, <1>4, <1>5, <1>6 DEF ClosedBy, Shutting
<1> QED BY <1>1, <1>5, <1>7 DEF SerialInv

LEMMA JoinedSerial ==
  ASSUME TypeOK, SerialInv, NEW t \in Ctl, Joined(t)
  PROVE  SerialInv' /\ mux' = mux
<1>0. /\ pc \in [Threads -> Labels] /\ op \in [Threads -> Ops \cup {"none"}]
      /\ t \in Threads /\ t # Venc /\ Venc \in Threads
  BY Constants, RecordAssumption DEF TypeOK, Threads
<1>1. /\ pc[t] = "join" /\ pc' = [pc EXCEPT ![t] = "idle"] /\ op' = [op EXCEPT ![t] = "none"]
      /\ muxerOpen' = muxerOpen /\ mux' = mux /\ stagePath' = stagePath
      /\ mode' = mode /\ wq' = <<>> /\ writer' = writer /\ writing' = writing
  BY DEF Joined, Leave, Goto, ClearQueue, flagVars, nameVars, modeVars, writerVars, libVars
<1>2. ClosedBy(t)
  BY <1>0, <1>1, CloserKnows DEF Closing
<1>3. /\ Drained /\ mux = NoStage /\ mode = "off" /\ stagePath = NoStage /\ ~muxerOpen
      /\ \A u \in Threads : pc[u] \in Closing => u = t
  BY <1>1, <1>2 DEF ClosedBy, Shutting
<1>4. \A u \in Threads : pc'[u] \notin Closing
  BY <1>0, <1>1, <1>3 DEF Closing
<1>5. Drained' /\ QueueSound'
  BY <1>1, <1>3, ValueTypes DEF Drained, SerialInv, QueueSound
<1>6. AtRest'
  BY <1>1, <1>3, <1>4, <1>5 DEF AtRest, CloseInProgress
<1>7. op'[Venc] = "none"
  BY <1>0, <1>1 DEF SerialInv
<1> QED BY <1>1, <1>3, <1>5, <1>6, <1>7 DEF SerialInv

(* An event on a recorder without an open segment opens a clip and fills   *)
(* it from the pre-record ring.                                            *)
LEMMA EventOpensSerial ==
  ASSUME SerialCallers, TypeOK, SerialInv, NEW t \in Ctl, EventOpens(t)
  PROVE  SerialInv' /\ mux = NoStage
<1>0. /\ pc \in [Threads -> Labels] /\ op \in [Threads -> Ops \cup {"none"}]
      /\ t \in Threads /\ t # Venc /\ Venc \in Threads
      /\ QueueT /\ nopened + 1 \in Nat \ {0}
      /\ ring \in Seq([frame : FrameType, wall : Nat]) /\ now \in Nat
  BY Constants, RecordAssumption, TypeParts DEF TypeOK, Threads, RingType
<1>1. /\ MayEnter(t) /\ op[t] \in {"motionEvent", "faceEvent"} /\ ~muxerOpen
      /\ mode' = "motion" /\ Leave(t)
      /\ inited' = inited /\ writer' = writer /\ writing' = writing
  BY DEF EventOpens, lifeVars, writerVars
<1>2. ~CloseInProgress /\ inited
  BY <1>1, EntersAlone
<1>3. AtRest
  <2>1. \A u \in Threads : ~ClosedBy(u)
    BY <1>2 DEF CloseInProgress, ClosedBy, Shutting, Closing
  <2> QED BY <1>1, <2>1 DEF SerialInv, AtWork
<1>4. PICK o \in OpenOutcomes :
        /\ InitMuxer(o, FreshStage, now, Unclosed)
        /\ IF o = "ok"
           THEN /\ \E fs \in Offer(FlushFrames(ring, now), TRUE) :
                     Enqueue(nopened + 1, fs, TRUE)
                /\ ring' = <<>>
           ELSE UNCHANGED <<queueVars, ring>>
  BY DEF EventOpens
<1>5. mux = NoStage /\ Drained /\ Unclosed.stage = NoStage
  BY <1>3 DEF AtRest, Unclosed
<1>6. /\ \A u \in Threads : pc'[u] \notin Closing
      /\ op'[Venc] = "none"
  <2>1. pc' = [pc EXCEPT ![t] = "idle"] /\ op' = [op EXCEPT ![t] = "none"]
    BY <1>1 DEF Leave, Goto
  <2>2. \A u \in Threads : pc[u] \notin Closing
    BY <1>2 DEF CloseInProgress
  <2>3. op[Venc] = "none"
    BY DEF SerialInv
  <2> QED BY <1>0, <2>1, <2>2, <2>3 DEF Closing
<1>7. QueueSound' /\ (o # "ok" => Drained')
  <2>1. CASE o = "ok"
    <3>1. PICK fs \in Offer(FlushFrames(ring, now), TRUE) : Enqueue(nopened + 1, fs, TRUE)
      BY <1>4, <2>1
    <3>2. FlushFrames(ring, now) \in Seq(FrameType)
      BY <1>0, FlushTypes
    <3>3. fs \in Seq(FrameType)
      BY <1>0, <3>1, <3>2, OfferProperties
    <3> QED BY <1>0, <1>1, <2>1, <3>1, <3>3, EnqueueSound DEF SerialInv
  <2>2. CASE o # "ok"
    <3>1. wq' = wq
      BY <1>4, <2>2 DEF queueVars
    <3> QED BY <1>1, <1>5, <3>1 DEF SerialInv, QueueSound, Drained
  <2> QED BY <2>1, <2>2
<1>8. mode' # "off" /\ inited'
  BY <1>1, <1>2
<1> QED BY <1>4, <1>5, <1>6, <1>7, <1>8, OpensSegment

LEMMA OperationSerial ==
  ASSUME SerialCallers, TypeOK, SerialInv, NEW t \in Ctl, Operation(t)
  PROVE  SerialInv' /\ (mux # NoStage => mux' = mux)
<1>1. t \in Threads
  BY DEF Threads
<1> QED BY <1>1, SettingSerial, ClosingSerial, StopWriterSerial, JoinedSerial, EventOpensSerial
        DEF Operation

(* record_init runs on a recorder at rest.                                 *)
LEMMA InitSerial ==
  ASSUME SerialCallers, TypeOK, SerialInv, NEW t \in Ctl, RecordInit(t)
  PROVE  SerialInv' /\ mux' = mux
<1>1. /\ muxerOpen' = muxerOpen /\ mux' = mux /\ stagePath' = stagePath
      /\ segActive' = segActive /\ nopened' = nopened /\ wq' = <<>>
      /\ mode' = "off" /\ writing' = writing
      /\ pc' = pc /\ op' = op /\ loc' = loc
      /\ writer' \in {writer, "idle"} /\ (writer' # writer => writer = "off")
      /\ ~inited
  BY DEF RecordInit, ClearQueue, flagVars, nameVars, threadVars
<1>2. mode' = mode
  BY <1>1 DEF SerialInv
<1>3. QueueSound' /\ (Drained => Drained')
  BY <1>1, ValueTypes DEF SerialInv, QueueSound, Drained
<1> QED BY <1>1, <1>2, <1>3, Bystander

-----------------------------------------------------------------------------
(* The writer, the camera, the callers and the clock                       *)

LEMMA WriterSerial ==
  ASSUME TypeOK, SerialInv, Writer
  PROVE  SerialInv' /\ mux' = mux
<1>0. wq \in Seq(EntryType) /\ Len(wq) \in Nat
  BY LenProperties DEF TypeOK
<1>1. /\ muxerOpen' = muxerOpen /\ mux' = mux /\ stagePath' = stagePath
      /\ segActive' = segActive /\ nopened' = nopened
      /\ mode' = mode /\ inited' = inited
      /\ pc' = pc /\ op' = op /\ loc' = loc
  BY DEF Writer, WriterTake, WriterWrite, WriterCount, WriterExit, flagVars, nameVars,
     modeVars, lifeVars, libVars, threadVars
<1>2. CASE WriterTake
  <2>1. writer' = "write" /\ writing' = Head(wq) /\ wq' = Tail(wq) /\ wq # <<>>
    BY <1>2 DEF WriterTake
  <2>2. /\ Head(wq) = wq[1] /\ Len(Tail(wq)) = Len(wq) - 1 /\ Len(wq) > 0
        /\ \A i \in 1 .. Len(Tail(wq)) : Tail(wq)[i] = wq[i + 1]
    <3> HIDE DEF EntryType
    <3> QED BY <1>0, <2>1, HeadTailProperties, EmptySeq
  <2>3. 1 \in 1 .. Len(wq) /\ \A i \in 1 .. Len(Tail(wq)) : i + 1 \in 1 .. Len(wq)
    BY <1>0, <2>2
  <2>4. NoEntry.seg = 0
    BY DEF NoEntry
  <2>5. writing' # NoEntry /\ \A i \in 1 .. Len(wq') : wq'[i].seg # 0
    BY <2>1, <2>2, <2>3, <2>4 DEF SerialInv, QueueSound
  <2>6. QueueSound' /\ ~Drained
    BY <2>1, <2>5 DEF QueueSound, Drained
  <2>7. ~inited' => mode' = "off"
    BY <1>1 DEF SerialInv
  <2> QED BY <1>1, <2>6, <2>7, Bystander
<1>3. CASE WriterWrite \/ WriterCount \/ WriterExit
  <2>1. /\ wq' = wq
        /\ \/ writer \in {"write", "count"} /\ writer' \in {"write", "count"} /\ writing' = writing
           \/ writing' = NoEntry /\ writer' \notin {"write", "count"}
           \/ writing' = writing /\ writer \notin {"write", "count"}
                /\ writer' \notin {"write", "count"}
    BY <1>3 DEF WriterWrite, WriterCount, WriterExit, queueVars
  <2>2. QueueSound' /\ (Drained => Drained')
    BY <2>1 DEF SerialInv, QueueSound, Drained
  <2>3. ~inited' => mode' = "off"
    BY <1>1 DEF SerialInv
  <2> QED BY <1>1, <2>2, <2>3, Bystander
<1> QED BY <1>2, <1>3 DEF Writer

LEMMA OutsideSerial ==
  ASSUME TypeOK, SerialInv,
         \/ \E key \in BOOLEAN : Camera(key)
         \/ \E t \in Ctl, o \in Ops \ {"init"} : Call(t, o)
         \/ Tick \/ UNCHANGED vars
  PROVE  SerialInv' /\ mux' = mux
<1>0. /\ pc \in [Threads -> Labels] /\ op \in [Threads -> Ops \cup {"none"}]
      /\ loc \in [Threads -> LocType] /\ Venc \in Threads
  BY Constants DEF TypeOK
<1>1. /\ muxerOpen' = muxerOpen /\ mux' = mux /\ stagePath' = stagePath
      /\ segActive' = segActive /\ nopened' = nopened /\ wq' = wq
      /\ mode' = mode /\ inited' = inited /\ writer' = writer /\ writing' = writing
  BY DEF Camera, Call, Tick, vars, flagVars, nameVars, modeVars, lifeVars, queueVars,
     writerVars, libVars
<1>2. QueueSound' /\ (Drained => Drained') /\ (~inited' => mode' = "off")
  BY <1>1 DEF SerialInv, QueueSound, Drained
<1>3. /\ \A u \in Threads : pc[u] \in Closing \/ pc'[u] \in Closing =>
            pc'[u] = pc[u] /\ op'[u] = op[u] /\ loc'[u] = loc[u]
      /\ op'[Venc] = op[Venc]
  <2>1. ASSUME NEW key, Camera(key)
        PROVE  /\ \A u \in Threads : pc[u] \in Closing \/ pc'[u] \in Closing =>
                     pc'[u] = pc[u] /\ op'[u] = op[u] /\ loc'[u] = loc[u]
               /\ op'[Venc] = op[Venc]
    <3>1. /\ pc[Venc] = "idle" /\ pc' = [pc EXCEPT ![Venc] = "enter"] /\ op' = op
          /\ loc' = [loc EXCEPT ![Venc].frame = [id |-> nframes + 1, key |-> key]]
      BY <2>1 DEF Camera, Goto
    <3>2. \A u \in Threads : u # Venc => pc'[u] = pc[u] /\ loc'[u] = loc[u]
      BY <1>0, <3>1
    <3>3. pc'[Venc] = "enter"
      BY <1>0, <3>1
    <3> QED BY <3>1, <3>2, <3>3 DEF Closing
  <2>2. ASSUME NEW t \in Ctl, NEW o, Call(t, o)
        PROVE  /\ \A u \in Threads : pc[u] \in Closing \/ pc'[u] \in Closing =>
                     pc'[u] = pc[u] /\ op'[u] = op[u] /\ loc'[u] = loc[u]
               /\ op'[Venc] = op[Venc]
    <3>0. t \in Threads /\ t # Venc
      BY RecordAssumption DEF Threads
    <3>1. /\ pc[t] = "idle" /\ Goto(t, "enter") /\ op' = [op EXCEPT ![t] = o] /\ loc' = loc
      BY <2>2 DEF Call
    <3>2. \A u \in Threads \ {t} : op'[u] = op[u]
      BY <1>0, <3>1
    <3>3. pc[t] \notin Closing /\ "enter" \notin Closing
      BY <3>1 DEF Closing
    <3> QED BY <1>0, <3>0, <3>1, <3>2, <3>3, ThreadMoves
  <2>3. CASE Tick \/ UNCHANGED vars
    <3>1. pc' = pc /\ op' = op /\ loc' = loc
      BY <2>3 DEF Tick, vars, threadVars
    <3> QED BY <3>1
  <2> QED BY <2>1, <2>2, <2>3
<1> QED BY <1>1, <1>2, <1>3, Bystander

-----------------------------------------------------------------------------
(* The theorems                                                            *)

LEMMA InitSerialInv == Init => SerialInv
<1> SUFFICES ASSUME Init PROVE SerialInv
  OBVIOUS
<1>1. /\ muxerOpen = FALSE /\ mux = NoStage /\ stagePath = NoStage /\ wq = <<>>
      /\ writing = NoEntry /\ writer = "off" /\ mode = "off"
      /\ (\A t \in Threads : pc[t] = "idle") /\ op[Venc] = "none"
  BY Constants DEF Init
<1>2. AtRest
  BY <1>1 DEF AtRest, CloseInProgress, Closing, Drained
<1>3. QueueSound
  BY <1>1, ValueTypes DEF QueueSound
<1> QED BY <1>1, <1>2, <1>3 DEF SerialInv

LEMMA NextSerial ==
  ASSUME SerialCallers
  PROVE  TypeOK /\ SerialInv /\ [Next]_vars
           => SerialInv' /\ (mux # NoStage /\ mux' = NoStage => Drained)
<1> SUFFICES ASSUME TypeOK, SerialInv, [Next]_vars
             PROVE  SerialInv' /\ (mux # NoStage /\ mux' = NoStage => Drained)
  OBVIOUS
<1>1. CASE OnPacket
  BY <1>1, PacketSerial
<1>2. ASSUME NEW t \in Threads, Close(t)
      PROVE  SerialInv' /\ (mux # NoStage /\ mux' = NoStage => Drained)
  BY <1>2, CloseSerial
<1>3. ASSUME NEW t \in Ctl, RecordInit(t) PROVE SerialInv' /\ mux' = mux
  BY <1>3, InitSerial
<1>4. ASSUME NEW t \in Ctl, Operation(t)
      PROVE  SerialInv' /\ (mux # NoStage => mux' = mux)
  BY <1>4, OperationSerial
<1>5. CASE Writer
  BY <1>5, WriterSerial
<1>6. CASE \/ \E key \in BOOLEAN : Camera(key)
           \/ \E t \in Ctl, o \in Ops \ {"init"} : Call(t, o)
           \/ Tick \/ UNCHANGED vars
  BY <1>6, OutsideSerial
<1> QED BY <1>1, <1>2, <1>3, <1>4, <1>5, <1>6 DEF Next

LEMMA SpecSerial ==
  ASSUME SerialCallers
  PROVE  Spec => [](TypeOK /\ QueueConserved /\ SerialInv)
<1>1. Init => TypeOK /\ QueueConserved /\ SerialInv
  BY InitTypes, InitSerialInv
<1>2. TypeOK /\ QueueConserved /\ SerialInv /\ [Next]_vars
        => (TypeOK /\ QueueConserved /\ SerialInv)'
  BY NextInv, NextSerial
<1> QED BY <1>1, <1>2, PTL DEF Spec

(* In each of the three states the recorder and the library agree.         *)
LEMMA SerialAgrees ==
  ASSUME TypeOK, SerialInv
  PROVE  MuxAgrees
<1>1. Drained => wq = <<>> /\ writer # "write"
  BY DEF Drained, SerialInv, QueueSound
<1>2. CASE AtRest
  BY <1>1, <1>2 DEF AtRest, MuxAgrees
<1>3. CASE AtWork
  BY <1>3 DEF AtWork, MuxAgrees
<1>4. ASSUME NEW t \in Threads, ClosedBy(t) PROVE MuxAgrees
  <2>1. ~muxerOpen /\ (Drained \/ mux # NoStage)
    BY <1>4 DEF ClosedBy
  <2> QED BY <1>1, <2>1 DEF MuxAgrees
<1> QED BY <1>2, <1>3, <1>4 DEF SerialInv

(* If no other call enters the recorder during a close, the muxer g_rec    *)
(* takes for open is the library's, on the file g_rec thinks it is, and no *)
(* frame is queued or written without one, whatever fails meanwhile.       *)
THEOREM MuxAlwaysAgrees ==
  ASSUME SerialCallers
  PROVE  Spec => []MuxAgrees
<1>1. TypeOK /\ SerialInv => MuxAgrees
  BY SerialAgrees
<1> QED BY <1>1, SpecSerial, PTL

(* Under the same condition a recorder that is off is closed: no muxer, no *)
(* staged path and nothing left to write.                                  *)
THEOREM StoppedIsClosed ==
  ASSUME SerialCallers
  PROVE  Spec => []StoppedMeansClosed
<1>1. SerialInv => StoppedMeansClosed
  <2> SUFFICES ASSUME SerialInv, mode = "off", ~CloseInProgress
               PROVE  ~muxerOpen /\ mux = NoStage /\ stagePath = NoStage /\ Drained
    BY DEF StoppedMeansClosed
  <2>1. \A t \in Threads : ~ClosedBy(t)
    BY DEF CloseInProgress, ClosedBy, Shutting, Closing
  <2>2. AtRest
    BY <2>1 DEF SerialInv, AtWork
  <2> QED BY <2>2 DEF AtRest
<1> QED BY <1>1, SpecSerial, PTL

(* Under the same condition the recorder says that an event recording has  *)
(* finished only when the library has no file open and nothing is staged.  *)
THEOREM FinishedIsOnDisk ==
  ASSUME SerialCallers
  PROVE  Spec => []FinishedMeansOnDisk
<1>1. SerialInv => FinishedMeansOnDisk
  <2> SUFFICES ASSUME SerialInv, mode = "motion", ~muxerOpen, ~segActive
               PROVE  mux = NoStage /\ stagePath = NoStage
    BY DEF FinishedMeansOnDisk, IsRunning
  <2>1. \A t \in Threads : ~ClosedBy(t)
    BY DEF ClosedBy
  <2>2. AtRest
    BY <2>1 DEF SerialInv, AtWork
  <2> QED BY <2>2 DEF AtRest
<1> QED BY <1>1, SpecSerial, PTL

(* Under the same condition the library's muxer is shut down only when no  *)
(* frame is queued or being written.                                       *)
THEOREM DeinitIsAfterDrain ==
  ASSUME SerialCallers
  PROVE  Spec => DeinitAfterDrain
<1>1. TypeOK /\ SerialInv /\ [Next]_vars => [mux # NoStage /\ mux' = NoStage => Drained]_vars
  BY NextSerial
<1> QED BY <1>1, SpecSerial, PTL DEF Spec, DeinitAfterDrain

-----------------------------------------------------------------------------
(* The files, and the clips they hold                                      *)

(* The copy of a frame is always allocated, and promoting a staged file    *)
(* moves it or leaves it.                                                  *)
SoundStorage == ~AllocFails /\ "partial" \notin PromoteOutcomes

(* A file has the frames of its own segment and starts with a key frame.   *)
PureFile(f) ==
  /\ \A i \in 1 .. Len(f.frames) : f.frames[i].seg = f.seg
  /\ f.frames # <<>> => f.frames[1].frame.key

WholeFile(f) == f.sealed /\ f.frames # <<>>

(* The files d after k segments of which those in g are destroyed: one for *)
(* a segment, and whole except for the one under the path live.            *)
FilesAt(d, g, k, live) ==
  /\ NoStage \notin DOMAIN d
  /\ \A p, q \in DOMAIN d : d[p].seg = d[q].seg => p = q
  /\ \A p \in DOMAIN d : /\ d[p].seg \in 1 .. k /\ d[p].seg \notin g
                         /\ PureFile(d[p])
                         /\ p # live => WholeFile(d[p])
  /\ g \subseteq 1 .. k

(* ClipOf for files d, with the file m open and the entries a and b on     *)
(* their way to it.                                                        *)
ClipIn(d, g, m, a, b, n) ==
  LET files == {p \in DOMAIN d : d[p].seg = n}
      file  == d[CHOOSE p \in files : TRUE]
  IN  IF n \in g THEN [phase |-> "gone", frames |-> <<>>]
      ELSE IF files = {} THEN [phase |-> "empty", frames |-> <<>>]
      ELSE IF m \in files THEN [phase  |-> "open", frames |-> file.frames \o a \o b]
      ELSE [phase  |-> IF file.frames = <<>> THEN "empty" ELSE "kept",
            frames |-> file.frames]

(* The same with no file open.                                             *)
Ended(d, g, n) == ClipIn(d, g, NoStage, <<>>, <<>>, n)

(* Of the first k clips each stays as it is or is destroyed.               *)
Survive(d, g, d2, g2, k) ==
  \A n \in 1 .. k : \/ Ended(d2, g2, n) = Ended(d, g, n)
                    \/ Store!Destroyed(Ended(d, g, n), Ended(d2, g2, n))

LEMMA ClipOfIs ==
  /\ \A n : ClipOf(n) = ClipIn(disk, gone, mux, InFlight, wq, n)
  /\ \A n : ClipOf(n)' = ClipIn(disk', gone', mux', InFlight', wq', n)
BY DEF ClipOf, ClipIn

(* What a clip is depends on its own file only.                            *)
LEMMA ClipOfFile ==
  ASSUME NEW d, NEW g, NEW k, NEW live, FilesAt(d, g, k, live),
         NEW m, NEW a, NEW b, NEW n
  PROVE  /\ n \in g => ClipIn(d, g, m, a, b, n) = [phase |-> "gone", frames |-> <<>>]
         /\ n \notin g /\ (\A p \in DOMAIN d : d[p].seg # n)
              => ClipIn(d, g, m, a, b, n) = [phase |-> "empty", frames |-> <<>>]
         /\ \A p \in DOMAIN d : d[p].seg = n =>
              ClipIn(d, g, m, a, b, n) =
                IF m = p THEN [phase |-> "open", frames |-> d[p].frames \o a \o b]
                ELSE [phase  |-> IF d[p].frames = <<>> THEN "empty" ELSE "kept",
                      frames |-> d[p].frames]
<1>1. n \in g => ClipIn(d, g, m, a, b, n) = [phase |-> "gone", frames |-> <<>>]
  BY DEF ClipIn
<1>2. ASSUME n \notin g, \A p \in DOMAIN d : d[p].seg # n
      PROVE  ClipIn(d, g, m, a, b, n) = [phase |-> "empty", frames |-> <<>>]
  <2>1. {p \in DOMAIN d : d[p].seg = n} = {}
    BY <1>2
  <2> QED BY <1>2, <2>1 DEF ClipIn
<1>3. ASSUME NEW p \in DOMAIN d, d[p].seg = n
      PROVE  ClipIn(d, g, m, a, b, n) =
               IF m = p THEN [phase |-> "open", frames |-> d[p].frames \o a \o b]
               ELSE [phase  |-> IF d[p].frames = <<>> THEN "empty" ELSE "kept",
                     frames |-> d[p].frames]
  <2>1. n \notin g /\ \A q \in DOMAIN d : d[q].seg = n => q = p
    BY <1>3 DEF FilesAt
  <2>2. {q \in DOMAIN d : d[q].seg = n} = {p}
    BY <1>3, <2>1
  <2>3. (CHOOSE q \in {p} : TRUE) = p
    OBVIOUS
  <2> QED BY <2>1, <2>2, <2>3 DEF ClipIn
<1> QED BY <1>1, <1>2, <1>3

(* A clip that is not the open one is what it is without an open file.     *)
LEMMA ClipOfOther ==
  ASSUME NEW d, NEW g, NEW k, NEW live, FilesAt(d, g, k, live),
         NEW m, NEW a, NEW b, NEW n, m \in DOMAIN d => d[m].seg # n
  PROVE  ClipIn(d, g, m, a, b, n) = Ended(d, g, n)
<1>1. CASE n \in g
  BY <1>1, ClipOfFile DEF Ended
<1>2. CASE n \notin g /\ \A p \in DOMAIN d : d[p].seg # n
  BY <1>2, ClipOfFile DEF Ended
<1>3. ASSUME NEW p \in DOMAIN d, d[p].seg = n
      PROVE  ClipIn(d, g, m, a, b, n) = Ended(d, g, n)
  <2>1. m # p /\ NoStage # p
    BY <1>3 DEF FilesAt
  <2>2. \A x, y, z : x # p =>
          ClipIn(d, g, x, y, z, n) =
            [phase |-> IF d[p].frames = <<>> THEN "empty" ELSE "kept", frames |-> d[p].frames]
    BY <1>3, ClipOfFile
  <2> QED BY <2>1, <2>2 DEF Ended
<1> QED BY <1>1, <1>2, <1>3

LEMMA EndedFile ==
  ASSUME NEW d, NEW g, NEW k, NEW live, FilesAt(d, g, k, live), NEW p \in DOMAIN d
  PROVE  Ended(d, g, d[p].seg) =
           [phase |-> IF d[p].frames = <<>> THEN "empty" ELSE "kept", frames |-> d[p].frames]
<1>1. NoStage # p
  BY DEF FilesAt
<1> QED BY <1>1, ClipOfFile DEF Ended

LEMMA EndedNotOpen ==
  ASSUME NEW d, NEW g, NEW k, NEW live, FilesAt(d, g, k, live), NEW n
  PROVE  Ended(d, g, n).phase # "open"
<1>1. CASE n \in g
  BY <1>1, ClipOfFile DEF Ended
<1>2. CASE n \notin g /\ \A p \in DOMAIN d : d[p].seg # n
  BY <1>2, ClipOfFile DEF Ended
<1>3. ASSUME NEW p \in DOMAIN d, d[p].seg = n PROVE Ended(d, g, n).phase # "open"
  <2>1. Ended(d, g, n) = [phase  |-> IF d[p].frames = <<>> THEN "empty" ELSE "kept",
                          frames |-> d[p].frames]
    BY <1>3, EndedFile
  <2> QED BY <2>1
<1> QED BY <1>1, <1>2, <1>3

LEMMA SurviveTwice ==
  ASSUME NEW d1, NEW g1, NEW d2, NEW g2, NEW d3, NEW g3, NEW k,
         Survive(d1, g1, d2, g2, k), Survive(d2, g2, d3, g3, k)
  PROVE  Survive(d1, g1, d3, g3, k)
<1> SUFFICES ASSUME NEW n \in 1 .. k
             PROVE  \/ Ended(d3, g3, n) = Ended(d1, g1, n)
                    \/ Store!Destroyed(Ended(d1, g1, n), Ended(d3, g3, n))
  BY DEF Survive
<1>1. /\ \/ Ended(d2, g2, n) = Ended(d1, g1, n)
         \/ Store!Destroyed(Ended(d1, g1, n), Ended(d2, g2, n))
      /\ \/ Ended(d3, g3, n) = Ended(d2, g2, n)
         \/ Store!Destroyed(Ended(d2, g2, n), Ended(d3, g3, n))
  BY DEF Survive
<1>2. Store!Destroyed(Ended(d1, g1, n), Ended(d2, g2, n)) => Ended(d2, g2, n).phase = "gone"
  BY DEF Store!Destroyed
<1>3. Store!Destroyed(Ended(d2, g2, n), Ended(d3, g3, n)) => Ended(d2, g2, n).phase # "gone"
  BY DEF Store!Destroyed
<1> QED BY <1>1, <1>2, <1>3

(* Files that are only taken away are destroyed, and nothing else is.      *)
LEMMA DestroyFiles ==
  ASSUME NEW d, NEW g, NEW k \in Nat, NEW live, FilesAt(d, g, k, live),
         NEW S, NEW j, \A p \in S \cap DOMAIN d : d[p].seg \in 1 .. j => d[p].frames # <<>>
  PROVE  /\ FilesAt(Without(d, S), g \cup SegsOf(d, S), k, live)
         /\ Survive(d, g, Without(d, S), g \cup SegsOf(d, S), j)
<1> DEFINE d2 == Without(d, S)
           g2 == g \cup SegsOf(d, S)
<1>1. /\ DOMAIN d2 = DOMAIN d \ S
      /\ \A p \in DOMAIN d2 : d2[p] = d[p]
  BY DEF Without
<1>2. \A n : n \in g2 <=> n \in g \/ \E p \in S \cap DOMAIN d : d[p].seg = n
  BY DEF SegsOf
<1> HIDE DEF d2, g2
<1>3. FilesAt(d2, g2, k, live)
  <2>1. \A p \in DOMAIN d2 : d2[p].seg \notin g2
    BY <1>1, <1>2 DEF FilesAt
  <2>2. g2 \subseteq 1 .. k
    <3> SUFFICES ASSUME NEW n \in g2 PROVE n \in 1 .. k
      OBVIOUS
    <3>1. CASE n \in g
      BY <3>1 DEF FilesAt
    <3>2. ASSUME NEW p \in S \cap DOMAIN d, d[p].seg = n PROVE n \in 1 .. k
      BY <3>2 DEF FilesAt
    <3> QED BY <1>2, <3>1, <3>2
  <2> QED BY <1>1, <2>1, <2>2 DEF FilesAt
<1>4. Survive(d, g, d2, g2, j)
  <2> SUFFICES ASSUME NEW n \in 1 .. j
               PROVE  \/ Ended(d2, g2, n) = Ended(d, g, n)
                      \/ Store!Destroyed(Ended(d, g, n), Ended(d2, g2, n))
    BY DEF Survive
  <2>1. CASE n \in g
    <3>1. n \in g2
      BY <1>2, <2>1
    <3> QED BY <1>3, <2>1, <3>1, ClipOfFile DEF Ended
  <2>2. ASSUME NEW p \in S \cap DOMAIN d, d[p].seg = n
        PROVE  Store!Destroyed(Ended(d, g, n), Ended(d2, g2, n))
    <3>1. n \in g2
      BY <1>2, <2>2
    <3>2. Ended(d2, g2, n) = [phase |-> "gone", frames |-> <<>>]
      BY <1>3, <3>1, ClipOfFile DEF Ended
    <3>3. Ended(d, g, n) = [phase |-> "kept", frames |-> d[p].frames]
      BY <2>2, EndedFile
    <3> QED BY <3>2, <3>3 DEF Store!Destroyed
  <2>3. ASSUME NEW p \in DOMAIN d \ S, d[p].seg = n
        PROVE  Ended(d2, g2, n) = Ended(d, g, n)
    <3>1. p \in DOMAIN d2 /\ d2[p] = d[p]
      BY <1>1
    <3>2. Ended(d2, g2, n) = [phase  |-> IF d[p].frames = <<>> THEN "empty" ELSE "kept",
                              frames |-> d[p].frames]
      BY <1>3, <2>3, <3>1, EndedFile
    <3>3. Ended(d, g, n) = [phase  |-> IF d[p].frames = <<>> THEN "empty" ELSE "kept",
                            frames |-> d[p].frames]
      BY <2>3, EndedFile
    <3> QED BY <3>2, <3>3
  <2>4. CASE n \notin g /\ \A p \in DOMAIN d : d[p].seg # n
    <3>1. n \notin g2 /\ \A p \in DOMAIN d2 : d2[p].seg # n
      BY <1>1, <1>2, <2>4
    <3> QED BY <1>3, <2>4, <3>1, ClipOfFile DEF Ended
  <2> QED BY <2>1, <2>2, <2>3, <2>4
<1> QED BY <1>3, <1>4 DEF d2, g2

LEMMA PathsDiffer ==
  ASSUME NEW l \in LocType, NEW s \in StageType
  PROVE  l.clip # s
<1>1. \A c \in ClipType : "kind" \in DOMAIN c
  BY DEF ClipType
<1>2. "kind" \notin DOMAIN s
  BY DEF StageType
<1> QED BY <1>1, <1>2 DEF LocType

(* The end of a close: an empty staged file goes, any other one is moved   *)
(* to its final name or stays.  What the name held is destroyed.           *)
LEMMA ClosedSurvives ==
  ASSUME SoundStorage, NEW l \in LocType, NEW o \in PromoteOutcomes, NEW k \in Nat,
         FilesAt(disk, gone, k, l.stage),
         l.stage \in DOMAIN disk =>
           disk[l.stage].sealed /\ (l.empty <=> disk[l.stage].frames = <<>>)
  PROVE  /\ FilesAt(Closed(l, o).disk, Closed(l, o).gone, k, NoStage)
         /\ Survive(disk, gone, Closed(l, o).disk, Closed(l, o).gone, k)
<1> DEFINE d2 == Closed(l, o).disk
           g2 == Closed(l, o).gone
           promotes == ~l.empty /\ l.stage \in DOMAIN disk /\ o # "kept"
<1>0. o \in {"moved", "kept"} /\ l.empty \in BOOLEAN /\ l.clip # l.stage
  BY Constants, PathsDiffer DEF SoundStorage, LocType
<1>1. /\ l.empty => d2 = Without(disk, {l.stage}) /\ g2 = gone
      /\ ~l.empty /\ ~promotes => d2 = disk /\ g2 = gone
      /\ promotes => /\ d2 = Put(Without(disk, {l.stage}), l.clip, disk[l.stage])
                     /\ g2 = gone \cup SegsOf(disk, {l.clip})
  BY <1>0 DEF Closed
<1> SUFFICES FilesAt(d2, g2, k, NoStage) /\ Survive(disk, gone, d2, g2, k)
  OBVIOUS
<1> HIDE DEF d2, g2
<1>2. CASE l.empty
  <2>1. /\ DOMAIN d2 = DOMAIN disk \ {l.stage}
        /\ \A p \in DOMAIN d2 : d2[p] = disk[p]
    BY <1>1, <1>2 DEF Without
  <2>2. FilesAt(d2, g2, k, NoStage)
    BY <1>1, <1>2, <2>1 DEF FilesAt
  <2>3. Survive(disk, gone, d2, g2, k)
    <3> SUFFICES ASSUME NEW n \in 1 .. k PROVE Ended(d2, g2, n) = Ended(disk, gone, n)
      BY DEF Survive
    <3>0. g2 = gone
      BY <1>1, <1>2
    <3>1. CASE n \in gone
      BY <2>2, <3>0, <3>1, ClipOfFile DEF Ended
    <3>2. CASE n \notin gone /\ \A p \in DOMAIN disk : disk[p].seg # n
      <4>1. n \notin g2 /\ \A p \in DOMAIN d2 : d2[p].seg # n
        BY <2>1, <3>0, <3>2
      <4> QED BY <2>2, <3>2, <4>1, ClipOfFile DEF Ended
    <3>3. ASSUME NEW p \in DOMAIN disk, disk[p].seg = n, p # l.stage
          PROVE  Ended(d2, g2, n) = Ended(disk, gone, n)
      <4>1. p \in DOMAIN d2 /\ d2[p] = disk[p] /\ d2[p].seg = n
        BY <2>1, <3>3
      <4>2. Ended(d2, g2, n) = [phase  |-> IF disk[p].frames = <<>> THEN "empty" ELSE "kept",
                                frames |-> disk[p].frames]
        <5>1. Ended(d2, g2, d2[p].seg) =
                [phase  |-> IF d2[p].frames = <<>> THEN "empty" ELSE "kept",
                 frames |-> d2[p].frames]
          BY <2>2, <4>1, EndedFile
        <5> QED BY <4>1, <5>1
      <4>3. Ended(disk, gone, n) = [phase  |-> IF disk[p].frames = <<>> THEN "empty" ELSE "kept",
                                    frames |-> disk[p].frames]
        BY <3>3, EndedFile
      <4> QED BY <4>2, <4>3
    <3>4. ASSUME l.stage \in DOMAIN disk, disk[l.stage].seg = n
          PROVE  Ended(d2, g2, n) = Ended(disk, gone, n)
      <4>1. disk[l.stage].frames = <<>>
        BY <1>2, <3>4
      <4>2. Ended(disk, gone, n) = [phase |-> "empty", frames |-> <<>>]
        BY <3>4, <4>1, EndedFile
      <4>3. n \notin g2 /\ \A p \in DOMAIN d2 : d2[p].seg # n
        BY <2>1, <3>0, <3>4 DEF FilesAt
      <4>4. Ended(d2, g2, n) = [phase |-> "empty", frames |-> <<>>]
        BY <2>2, <4>3, ClipOfFile DEF Ended
      <4> QED BY <4>2, <4>4
    <3> QED BY <3>1, <3>2, <3>3, <3>4
  <2> QED BY <2>2, <2>3
<1>3. CASE ~l.empty /\ ~promotes
  <2>1. d2 = disk /\ g2 = gone
    BY <1>1, <1>3
  <2>2. FilesAt(disk, gone, k, NoStage)
    BY <1>3 DEF FilesAt, WholeFile
  <2> QED BY <2>1, <2>2 DEF Survive
<1>4. CASE promotes
  <2> DEFINE d1 == Without(disk, {l.clip})
  <2>1. /\ DOMAIN d1 = DOMAIN disk \ {l.clip}
        /\ \A p \in DOMAIN d1 : d1[p] = disk[p]
    BY DEF Without
  <2>2. /\ DOMAIN d2 = (DOMAIN disk \ {l.stage}) \cup {l.clip}
        /\ d2[l.clip] = disk[l.stage]
        /\ \A p \in DOMAIN d2 : p # l.clip => d2[p] = disk[p]
    BY <1>0, <1>1, <1>4 DEF Put, Without
  <2> HIDE DEF d1
  <2>3. FilesAt(d1, g2, k, l.stage) /\ Survive(disk, gone, d1, g2, k)
    <3>1. \A p \in {l.clip} \cap DOMAIN disk : disk[p].frames # <<>>
      BY <1>0 DEF FilesAt, WholeFile
    <3>2. d1 = Without(disk, {l.clip}) /\ g2 = gone \cup SegsOf(disk, {l.clip})
      BY <1>1, <1>4 DEF d1
    <3> QED BY <3>1, <3>2, DestroyFiles
  <2>4. l.stage \in DOMAIN d1 /\ d1[l.stage] = disk[l.stage] /\ WholeFile(d1[l.stage])
    BY <1>0, <1>4, <2>1 DEF WholeFile
  <2>5. /\ DOMAIN d2 = (DOMAIN d1 \ {l.stage}) \cup {l.clip} /\ l.clip \notin DOMAIN d1
        /\ d2[l.clip] = d1[l.stage]
        /\ \A p \in DOMAIN d2 : p # l.clip => d2[p] = d1[p]
    BY <2>1, <2>2, <2>4
  <2>6. l.clip # NoStage
    BY PathsDiffer, ValueTypes
  <2>7. FilesAt(d2, g2, k, NoStage)
    <3>1. \A p, q \in DOMAIN d2 : d2[p].seg = d2[q].seg => p = q
      BY <2>3, <2>4, <2>5 DEF FilesAt
    <3>2. \A p \in DOMAIN d2 : /\ d2[p].seg \in 1 .. k /\ d2[p].seg \notin g2
                               /\ PureFile(d2[p]) /\ WholeFile(d2[p])
      BY <2>3, <2>4, <2>5 DEF FilesAt
    <3> QED BY <2>3, <2>5, <2>6, <3>1, <3>2 DEF FilesAt
  <2>8. \A n \in 1 .. k : Ended(d2, g2, n) = Ended(d1, g2, n)
    <3> SUFFICES ASSUME NEW n \in 1 .. k PROVE Ended(d2, g2, n) = Ended(d1, g2, n)
      OBVIOUS
    <3>1. CASE n \in g2
      BY <2>3, <2>7, <3>1, ClipOfFile DEF Ended
    <3>2. CASE n \notin g2 /\ \A p \in DOMAIN d1 : d1[p].seg # n
      <4>1. \A p \in DOMAIN d2 : d2[p].seg # n
        BY <2>4, <2>5, <3>2
      <4> QED BY <2>3, <2>7, <3>2, <4>1, ClipOfFile DEF Ended
    <3>3. ASSUME NEW p \in DOMAIN d1, d1[p].seg = n
          PROVE  Ended(d2, g2, n) = Ended(d1, g2, n)
      <4>1. PICK q \in DOMAIN d2 : d2[q] = d1[p] /\ d2[q].seg = n
        BY <2>4, <2>5, <3>3
      <4>2. Ended(d2, g2, n) = [phase  |-> IF d1[p].frames = <<>> THEN "empty" ELSE "kept",
                                frames |-> d1[p].frames]
        <5>1. Ended(d2, g2, d2[q].seg) =
                [phase  |-> IF d2[q].frames = <<>> THEN "empty" ELSE "kept",
                 frames |-> d2[q].frames]
          BY <2>7, <4>1, EndedFile
        <5> QED BY <4>1, <5>1
      <4>3. Ended(d1, g2, n) = [phase  |-> IF d1[p].frames = <<>> THEN "empty" ELSE "kept",
                                frames |-> d1[p].frames]
        BY <2>3, <3>3, EndedFile
      <4> QED BY <4>2, <4>3
    <3> QED BY <3>1, <3>2, <3>3
  <2>9. Survive(disk, gone, d2, g2, k)
    BY <2>3, <2>8 DEF Survive
  <2> QED BY <2>7, <2>9
<1> QED BY <1>0, <1>2, <1>3, <1>4

(* open_segment_locked creates a file under a name that may have been in   *)
(* use, and then recycles old files, perhaps the new one among them.       *)
NewDisk(d, name, file, S) == Without(Put(d, name, file), S)
NewGone(d, g, name, file, S) ==
  g \cup SegsOf(d, {name}) \cup SegsOf(Put(d, name, file), S)

LEMMA OpenedSurvives ==
  ASSUME NEW d, NEW g, NEW k \in Nat, FilesAt(d, g, k, NoStage),
         NEW name, name # NoStage, NEW file, file.seg = k + 1, file.frames = <<>>,
         NEW S
  PROVE  LET d2 == NewDisk(d, name, file, S)
             g2 == NewGone(d, g, name, file, S)
         IN  /\ FilesAt(d2, g2, k + 1, name)
             /\ Survive(d, g, d2, g2, k)
             /\ name \in DOMAIN d2 => d2[name] = file
             /\ name \notin DOMAIN d2 => k + 1 \in g2
<1> DEFINE d2 == NewDisk(d, name, file, S)
           g2 == NewGone(d, g, name, file, S)
           da == Without(d, {name})
           ga == g \cup SegsOf(d, {name})
           d1 == Put(d, name, file)
<1>1. /\ DOMAIN da = DOMAIN d \ {name}
      /\ \A p \in DOMAIN da : da[p] = d[p]
      /\ DOMAIN d1 = DOMAIN d \cup {name}
      /\ \A p \in DOMAIN d1 : d1[p] = IF p = name THEN file ELSE d[p]
      /\ DOMAIN d2 = DOMAIN d1 \ S
      /\ \A p \in DOMAIN d2 : d2[p] = d1[p]
  BY DEF Without, Put, NewDisk
<1>2. d2 = Without(d1, S) /\ g2 = ga \cup SegsOf(d1, S)
  BY DEF NewDisk, NewGone
<1> SUFFICES /\ FilesAt(d2, g2, k + 1, name)
             /\ Survive(d, g, d2, g2, k)
             /\ name \in DOMAIN d2 => d2[name] = file
             /\ name \notin DOMAIN d2 => k + 1 \in g2
  OBVIOUS
<1>3. FilesAt(da, ga, k, NoStage) /\ Survive(d, g, da, ga, k)
  <2>1. \A p \in {name} \cap DOMAIN d : d[p].seg \in 1 .. k => d[p].frames # <<>>
    BY DEF FilesAt, WholeFile
  <2> QED BY <2>1, DestroyFiles
<1> HIDE DEF da, ga, d1, d2, g2
<1>4. /\ DOMAIN d1 = DOMAIN da \cup {name} /\ name \notin DOMAIN da /\ d1[name] = file
      /\ \A p \in DOMAIN d1 : p # name => p \in DOMAIN da /\ d1[p] = da[p]
  BY <1>1
<1>5. \A n \in 1 .. k : n \in 1 .. k + 1 /\ n # k + 1
  OBVIOUS
<1>6. FilesAt(d1, ga, k + 1, name)
  <2>1. PureFile(file)
    BY DEF PureFile
  <2>2. k + 1 \in 1 .. k + 1 /\ k + 1 \notin 1 .. k
    OBVIOUS
  <2>3. ga \subseteq 1 .. k
    BY <1>3 DEF FilesAt
  <2>4. \A p \in DOMAIN da : da[p].seg \in 1 .. k /\ da[p].seg # k + 1
    BY <1>3, <2>2 DEF FilesAt
  <2>5. \A p, q \in DOMAIN d1 : d1[p].seg = d1[q].seg => p = q
    BY <1>3, <1>4, <2>4 DEF FilesAt
  <2>6. \A p \in DOMAIN d1 : /\ d1[p].seg \in 1 .. k + 1 /\ d1[p].seg \notin ga
                             /\ PureFile(d1[p])
                             /\ p # name => WholeFile(d1[p])
    BY <1>3, <1>4, <1>5, <2>1, <2>2, <2>3, <2>4 DEF FilesAt
  <2>7. NoStage \notin DOMAIN d1
    BY <1>3, <1>4 DEF FilesAt
  <2>8. ga \subseteq 1 .. k + 1
    BY <1>5, <2>3
  <2> QED BY <2>5, <2>6, <2>7, <2>8 DEF FilesAt
<1>7. \A n \in 1 .. k : Ended(d1, ga, n) = Ended(da, ga, n)
  <2> SUFFICES ASSUME NEW n \in 1 .. k PROVE Ended(d1, ga, n) = Ended(da, ga, n)
    OBVIOUS
  <2>1. CASE n \in ga
    BY <1>3, <1>6, <2>1, ClipOfFile DEF Ended
  <2>2. CASE n \notin ga /\ \A p \in DOMAIN da : da[p].seg # n
    <3>1. \A p \in DOMAIN d1 : d1[p].seg # n
      BY <1>4, <1>5, <2>2
    <3> QED BY <1>3, <1>6, <2>2, <3>1, ClipOfFile DEF Ended
  <2>3. ASSUME NEW p \in DOMAIN da, da[p].seg = n
        PROVE  Ended(d1, ga, n) = Ended(da, ga, n)
    <3>1. p \in DOMAIN d1 /\ d1[p] = da[p]
      BY <1>4
    <3>2. Ended(d1, ga, d1[p].seg) = [phase  |-> IF d1[p].frames = <<>> THEN "empty" ELSE "kept",
                                      frames |-> d1[p].frames]
      BY <1>6, <3>1, EndedFile
    <3>3. Ended(da, ga, da[p].seg) = [phase  |-> IF da[p].frames = <<>> THEN "empty" ELSE "kept",
                                      frames |-> da[p].frames]
      BY <1>3, EndedFile
    <3> QED BY <2>3, <3>1, <3>2, <3>3
  <2> QED BY <2>1, <2>2, <2>3
<1>8. FilesAt(d2, g2, k + 1, name) /\ Survive(d1, ga, d2, g2, k)
  <2>1. \A p \in S \cap DOMAIN d1 : d1[p].seg \in 1 .. k => d1[p].frames # <<>>
    <3> SUFFICES ASSUME NEW p \in DOMAIN d1, d1[p].seg \in 1 .. k PROVE d1[p].frames # <<>>
      OBVIOUS
    <3>1. p # name
      BY <1>4, <1>5
    <3> QED BY <1>3, <1>4, <3>1 DEF FilesAt, WholeFile
  <2>2. k + 1 \in Nat
    OBVIOUS
  <2>3. /\ FilesAt(Without(d1, S), ga \cup SegsOf(d1, S), k + 1, name)
        /\ Survive(d1, ga, Without(d1, S), ga \cup SegsOf(d1, S), k)
    BY <1>6, <2>1, <2>2, DestroyFiles, Zenon
  <2> QED BY <1>2, <2>3
<1>9. Survive(d, g, d2, g2, k)
  <2>1. Survive(d, g, d1, ga, k)
    BY <1>3, <1>7 DEF Survive
  <2> QED BY <1>8, <2>1, SurviveTwice
<1>10. /\ name \in DOMAIN d2 => d2[name] = file
       /\ name \notin DOMAIN d2 => k + 1 \in g2
  <2>1. CASE name \in DOMAIN d2
    BY <1>1, <1>4, <2>1
  <2>2. CASE name \notin DOMAIN d2
    <3>1. name \in S \cap DOMAIN d1 /\ d1[name].seg = k + 1
      BY <1>1, <1>4, <2>2
    <3> QED BY <1>2, <2>2, <3>1 DEF SegsOf
  <2> QED BY <2>1, <2>2
<1> QED BY <1>8, <1>9, <1>10

-----------------------------------------------------------------------------
(* Steps of the store                                                      *)

Clips == [n \in 1 .. nopened |-> ClipOf(n)]
StoreStep == Store!Next \/ Clips' = Clips

LEMMA ClipsAre ==
  ASSUME TypeOK, TypeOK'
  PROVE  /\ nopened \in Nat /\ nopened' \in Nat
         /\ Len(Clips) = nopened /\ Len(Clips') = nopened'
         /\ \A n \in 1 .. nopened : Clips[n] = ClipOf(n)
         /\ \A n \in 1 .. nopened' : Clips'[n] = ClipOf(n)'
<1>1. nopened \in Nat /\ nopened' \in Nat
  BY DEF TypeOK
<1>2. Len(Clips) = nopened
  BY <1>1 DEF Clips
<1>3. Len(Clips') = nopened'
  BY <1>1 DEF Clips
<1>4. \A n \in 1 .. nopened : Clips[n] = ClipOf(n)
  BY DEF Clips
<1>5. \A n \in 1 .. nopened' : Clips'[n] = ClipOf(n)'
  BY DEF Clips
<1> QED BY <1>1, <1>2, <1>3, <1>4, <1>5

LEMMA StoreStays ==
  ASSUME nopened' = nopened, \A n \in 1 .. nopened : ClipOf(n)' = ClipOf(n)
  PROVE  StoreStep
<1>1. Clips' = [n \in 1 .. nopened |-> ClipOf(n)']
  BY DEF Clips
<1>2. [n \in 1 .. nopened |-> ClipOf(n)'] = [n \in 1 .. nopened |-> ClipOf(n)]
  OBVIOUS
<1> QED BY <1>1, <1>2 DEF StoreStep, Clips

LEMMA StoreDestroys ==
  ASSUME TypeOK, TypeOK', nopened' = nopened,
         \A n \in 1 .. nopened :
           ClipOf(n)' = ClipOf(n) \/ Store!Destroyed(ClipOf(n), ClipOf(n)')
  PROVE  StoreStep
<1>1. Store!Destroy
  <2>1. Len(Clips') = Len(Clips)
    BY ClipsAre
  <2>2. \A m \in 1 .. Len(Clips) \ {0} :
          Clips'[m] = Clips[m] \/ Store!Destroyed(Clips[m], Clips'[m])
    BY ClipsAre
  <2> QED BY <2>1, <2>2 DEF Store!Destroy, Store!OthersSurvive, Store!Last, Clips
<1> QED BY <1>1 DEF StoreStep, Store!Next

LEMMA StoreRecords ==
  ASSUME TypeOK, TypeOK', nopened' = nopened, nopened # 0,
         \A n \in 1 .. nopened : n # nopened => ClipOf(n)' = ClipOf(n),
         ClipOf(nopened).phase = "open", ClipOf(nopened)'.phase = "open",
         Store!Grows(ClipOf(nopened).frames, ClipOf(nopened)'.frames)
  PROVE  StoreStep
<1>0. /\ Len(Clips') = Len(Clips) /\ Len(Clips) = nopened /\ nopened \in 1 .. nopened
      /\ nopened \in 1 .. nopened'
  BY ClipsAre
<1>1. Clips[nopened] = ClipOf(nopened) /\ Clips'[nopened] = ClipOf(nopened)'
  BY <1>0, ClipsAre
<1>2. Store!SomeOpen
  BY <1>0, <1>1 DEF Store!SomeOpen, Store!Last, Clips
<1>3. Store!OthersSurvive(Len(Clips))
  <2>1. \A m \in 1 .. Len(Clips) \ {Len(Clips)} : Clips'[m] = Clips[m]
    BY <1>0, ClipsAre
  <2> QED BY <2>1 DEF Store!OthersSurvive, Store!Last, Clips
<1>4. Store!Record
  BY <1>0, <1>1, <1>2, <1>3 DEF Store!Record, Store!Last, Clips
<1> QED BY <1>4 DEF StoreStep, Store!Next

LEMMA StoreFinishes ==
  ASSUME TypeOK, TypeOK', nopened' = nopened, nopened # 0,
         \A n \in 1 .. nopened : n # nopened => ClipOf(n)' = ClipOf(n),
         ClipOf(nopened).phase = "open",
         ClipOf(nopened)'.frames = ClipOf(nopened).frames,
         ClipOf(nopened)'.phase = IF ClipOf(nopened).frames = <<>> THEN "empty" ELSE "kept"
  PROVE  StoreStep
<1>0. /\ Len(Clips') = Len(Clips) /\ Len(Clips) = nopened /\ nopened \in 1 .. nopened
      /\ nopened \in 1 .. nopened'
  BY ClipsAre
<1>1. Clips[nopened] = ClipOf(nopened) /\ Clips'[nopened] = ClipOf(nopened)'
  BY <1>0, ClipsAre
<1>2. Store!SomeOpen
  BY <1>0, <1>1 DEF Store!SomeOpen, Store!Last, Clips
<1>3. Store!OthersSurvive(Len(Clips))
  <2>1. \A m \in 1 .. Len(Clips) \ {Len(Clips)} : Clips'[m] = Clips[m]
    BY <1>0, ClipsAre
  <2> QED BY <2>1 DEF Store!OthersSurvive, Store!Last, Clips
<1>4. Store!Finish
  BY <1>0, <1>1, <1>2, <1>3 DEF Store!Finish, Store!Last, Clips
<1> QED BY <1>4 DEF StoreStep, Store!Next

LEMMA StoreOpens ==
  ASSUME TypeOK, TypeOK', NEW k, k = nopened + 1, nopened' = k,
         \A n \in 1 .. nopened :
           /\ ClipOf(n).phase # "open"
           /\ ClipOf(n)' = ClipOf(n) \/ Store!Destroyed(ClipOf(n), ClipOf(n)'),
         \/ ClipOf(k)'.phase = "open"
              /\ Store!Grows(<<>>, ClipOf(k)'.frames)
         \/ ClipOf(k)'.phase = "gone"
  PROVE  StoreStep
<1>0. /\ Len(Clips') = Len(Clips) + 1 /\ Len(Clips) = nopened /\ k = Len(Clips) + 1
      /\ k \in 1 .. nopened' /\ \A n \in 1 .. nopened : n \in 1 .. nopened'
  <2>1. nopened \in Nat /\ Len(Clips) = nopened /\ Len(Clips') = nopened'
    BY ClipsAre, Zenon
  <2>2. k \in 1 .. nopened'
    BY <2>1
  <2>3. \A n \in 1 .. nopened : n \in 1 .. nopened'
    BY <2>1
  <2>4. Len(Clips') = Len(Clips) + 1
    BY <2>1
  <2>5. k = Len(Clips) + 1
    BY <2>1
  <2> QED BY <2>1, <2>2, <2>3, <2>4, <2>5, Zenon
<1>1. Clips'[k] = ClipOf(k)'
  BY <1>0, ClipsAre
<1>2. ~Store!SomeOpen
  <2>1. \A n \in 1 .. Len(Clips) : Clips[n].phase # "open"
    BY <1>0, ClipsAre
  <2> QED BY <2>1 DEF Store!SomeOpen, Store!Last, Clips
<1>3. Store!OthersSurvive(0)
  <2>1. \A m \in 1 .. Len(Clips) \ {0} :
          Clips'[m] = Clips[m] \/ Store!Destroyed(Clips[m], Clips'[m])
    BY <1>0, ClipsAre
  <2> QED BY <2>1 DEF Store!OthersSurvive, Store!Last, Clips
<1>4. Store!Open
  BY <1>0, <1>1, <1>2, <1>3 DEF Store!Open, Store!Last, Clips
<1> QED BY <1>4 DEF StoreStep, Store!Next

-----------------------------------------------------------------------------
(* The open segment and its file                                           *)

(* The staged file is that of the newest segment, unless it is destroyed.  *)
LiveIsNewest ==
  stagePath # NoStage =>
    IF stagePath \in DOMAIN disk THEN disk[stagePath].seg = nopened ELSE nopened \in gone

(* What the open file has, and what is on its way to it.                   *)
Content == disk[mux].frames \o InFlight \o wq
Counted == segFrames + (IF writer = "count" THEN 1 ELSE 0)

(* What is on its way is of the newest segment.  The open file has the     *)
(* frames that have been counted; it starts, or will start, with a key     *)
(* frame.                                                                  *)
LiveContent ==
  /\ \A i \in 1 .. Len(wq) : wq[i].seg = nopened
  /\ writer = "write" => writing.seg = nopened
  /\ mux \in DOMAIN disk =>
       /\ Len(disk[mux].frames) = Counted
       /\ Content # <<>> => Content[1].frame.key
       /\ muxerOpen => Content # <<>> \/ waitingKey

(* What a thread that closes has found out is still so when it acts on it. *)
CloserSees ==
  \A t \in Threads :
    /\ stagePath \in DOMAIN disk =>
         /\ pc[t] \in {"deinit", "finish"} => (loc[t].empty <=> disk[stagePath].frames = <<>>)
         /\ pc[t] = "finish" => disk[stagePath].sealed
    /\ pc[t] \in Shutting /\ loc[t].roll # "no" => loc[t].frame.key

FootInv ==
  /\ FilesAt(disk, gone, nopened, stagePath)
  /\ LiveIsNewest
  /\ LiveContent
  /\ CloserSees
  /\ cleared = 0

(* The files there are stay as they are or are destroyed, and that of a new *)
(* segment has nothing yet.                                                *)
FilesSurvive ==
  /\ Survive(disk, gone, disk', gone', nopened)
  /\ nopened' # nopened =>
       nopened' = nopened + 1 /\ Ended(disk', gone', nopened + 1).frames = <<>>

(* No thread gets as far as looking at the staged file.                    *)
QuietThreads ==
  \A u \in Threads :
    \/ pc'[u] \notin Shutting
    \/ pc'[u] = pc[u] /\ loc'[u] = loc[u]
    \/ pc'[u] \in {"drain", "mark"} /\ (loc'[u].roll # "no" => loc'[u].frame.key)

LEMMA SeesKept ==
  ASSUME CloserSees, QuietThreads, stagePath' = stagePath,
         DOMAIN disk' = DOMAIN disk,
         stagePath \in DOMAIN disk =>
           /\ disk'[stagePath].sealed = disk[stagePath].sealed
           /\ disk'[stagePath].frames = disk[stagePath].frames
  PROVE  CloserSees'
<1> SUFFICES ASSUME NEW t \in Threads
             PROVE  /\ stagePath' \in DOMAIN disk' =>
                         /\ pc'[t] \in {"deinit", "finish"} =>
                              (loc'[t].empty <=> disk'[stagePath'].frames = <<>>)
                         /\ pc'[t] = "finish" => disk'[stagePath'].sealed
                    /\ pc'[t] \in Shutting /\ loc'[t].roll # "no" => loc'[t].frame.key
  BY DEF CloserSees
<1>1. CASE pc'[t] \notin Shutting
  BY <1>1 DEF Shutting
<1>2. CASE pc'[t] = pc[t] /\ loc'[t] = loc[t]
  BY <1>2 DEF CloserSees
<1>3. CASE pc'[t] \in {"drain", "mark"} /\ (loc'[t].roll # "no" => loc'[t].frame.key)
  BY <1>3
<1> QED BY <1>1, <1>2, <1>3 DEF QuietThreads

(* The same files are the same clips.                                      *)
LEMMA ClipInSame ==
  ASSUME NEW d, NEW d2, DOMAIN d2 = DOMAIN d, \A p \in DOMAIN d : d2[p] = d[p],
         NEW g, NEW m, NEW a, NEW b, NEW n
  PROVE  ClipIn(d2, g, m, a, b, n) = ClipIn(d, g, m, a, b, n)
<1> DEFINE files == {p \in DOMAIN d : d[p].seg = n}
           one   == CHOOSE p \in files : TRUE
<1>1. {p \in DOMAIN d2 : d2[p].seg = n} = files
  OBVIOUS
<1>2. CASE files = {}
  BY <1>1, <1>2 DEF ClipIn
<1>3. CASE files # {}
  <2>1. one \in files
    BY <1>3
  <2>2. d2[one] = d[one]
    BY <2>1
  <2> HIDE DEF one
  <2>3. ClipIn(d2, g, m, a, b, n) =
          IF n \in g THEN [phase |-> "gone", frames |-> <<>>]
          ELSE IF m \in files THEN [phase |-> "open", frames |-> d2[one].frames \o a \o b]
          ELSE [phase |-> IF d2[one].frames = <<>> THEN "empty" ELSE "kept",
                frames |-> d2[one].frames]
    BY <1>1, <1>3 DEF ClipIn, one
  <2>4. ClipIn(d, g, m, a, b, n) =
          IF n \in g THEN [phase |-> "gone", frames |-> <<>>]
          ELSE IF m \in files THEN [phase |-> "open", frames |-> d[one].frames \o a \o b]
          ELSE [phase |-> IF d[one].frames = <<>> THEN "empty" ELSE "kept",
                frames |-> d[one].frames]
    BY <1>3 DEF ClipIn, one
  <2> QED BY <2>2, <2>3, <2>4
<1> QED BY <1>2, <1>3

LEMMA FilesSame ==
  ASSUME NEW d, NEW d2, DOMAIN d2 = DOMAIN d, \A p \in DOMAIN d : d2[p] = d[p],
         NEW g, NEW k, NEW live, FilesAt(d, g, k, live)
  PROVE  FilesAt(d2, g, k, live)
BY DEF FilesAt

(* A step that touches neither the files nor what is on its way to them.   *)
LEMMA FootKept ==
  ASSUME TypeOK, FootInv,
         DOMAIN disk' = DOMAIN disk, \A p \in DOMAIN disk : disk'[p] = disk[p],
         gone' = gone, nopened' = nopened, stagePath' = stagePath, mux' = mux,
         wq' = wq, writing' = writing, segFrames' = segFrames, cleared' = cleared,
         \A w \in {"write", "count"} : writer' = w <=> writer = w,
         muxerOpen' => muxerOpen, waitingKey => waitingKey',
         CloserSees'
  PROVE  FootInv' /\ StoreStep
<1>1. InFlight' = InFlight
  BY DEF InFlight
<1>2. FilesAt(disk', gone', nopened', stagePath')
  <2>1. FilesAt(disk, gone, nopened, stagePath)
    BY DEF FootInv
  <2>2. FilesAt(disk', gone, nopened, stagePath)
    BY <2>1, FilesSame
  <2> QED BY <2>2
<1>3. LiveIsNewest'
  BY DEF FootInv, LiveIsNewest
<1>4. LiveContent'
  <2>1. mux \in DOMAIN disk => Content' = Content
    BY <1>1 DEF Content
  <2>2. Counted' = Counted
    BY DEF Counted
  <2>3. /\ \A i \in 1 .. Len(wq') : wq'[i].seg = nopened'
        /\ writer' = "write" => writing'.seg = nopened'
    BY DEF FootInv, LiveContent
  <2>4. ASSUME mux \in DOMAIN disk
        PROVE  /\ Len(disk'[mux'].frames) = Counted'
               /\ Content' # <<>> => Content'[1].frame.key
               /\ muxerOpen' => Content' # <<>> \/ waitingKey'
    BY <2>1, <2>2, <2>4 DEF FootInv, LiveContent
  <2> QED BY <2>3, <2>4 DEF LiveContent
<1>5. cleared' = 0
  BY DEF FootInv
<1>6. StoreStep
  <2> SUFFICES ASSUME NEW n \in 1 .. nopened PROVE ClipOf(n)' = ClipOf(n)
    BY StoreStays
  <2>1. ClipIn(disk', gone, mux, InFlight, wq, n) = ClipIn(disk, gone, mux, InFlight, wq, n)
    BY ClipInSame
  <2> QED BY <1>1, <2>1, ClipOfIs
<1>7. FilesAt(disk, gone, nopened, stagePath)'
  BY <1>2
<1> QED BY <1>3, <1>4, <1>5, <1>6, <1>7 DEF FootInv

-----------------------------------------------------------------------------
(* Steps that leave the files alone                                        *)

LEMMA ThreadPasses ==
  ASSUME TypeOK, NEW t \in Threads, NEW label, label \notin Shutting, Goto(t, label),
         \A u \in Threads \ {t} : loc'[u] = loc[u]
  PROVE  QuietThreads
<1>1. pc \in [Threads -> Labels] /\ pc' = [pc EXCEPT ![t] = label]
  BY DEF TypeOK, Goto
<1> QED BY <1>1 DEF QuietThreads

LEMMA CloseBegins ==
  ASSUME TypeOK, NEW t \in Threads, NEW roll, BeginClose(t, roll),
         roll # "no" => loc[t].frame.key
  PROVE  QuietThreads
<1> DEFINE clip == IF curPath.kind = "event" THEN [curPath EXCEPT !.src = segSrc]
                                             ELSE curPath
<1>1. /\ pc \in [Threads -> Labels] /\ pc' = [pc EXCEPT ![t] = "drain"]
      /\ loc' = [loc EXCEPT ![t].stage = stagePath, ![t].clip = clip, ![t].roll = roll]
  BY DEF TypeOK, BeginClose, Goto
<1> HIDE DEF clip
<1>2. loc \in [Threads -> LocType]
  BY DEF TypeOK
<1>3. pc'[t] = "drain" /\ \A u \in Threads \ {t} : pc'[u] = pc[u] /\ loc'[u] = loc[u]
  BY <1>1, <1>2
<1>4. loc'[t].roll = roll /\ loc'[t].frame = loc[t].frame
  <2>1. loc[t] \in LocType /\ t \in DOMAIN loc
    BY <1>2
  <2> QED BY <1>1, <2>1 DEF LocType
<1> QED BY <1>3, <1>4 DEF QuietThreads

LEMMA QuietFoot ==
  ASSUME TypeOK, FootInv, QuietThreads,
         disk' = disk, gone' = gone, nopened' = nopened, stagePath' = stagePath,
         mux' = mux, wq' = wq, writing' = writing, writer' = writer,
         segFrames' = segFrames, cleared' = cleared,
         muxerOpen' => muxerOpen, waitingKey => waitingKey'
  PROVE  FootInv' /\ StoreStep
<1>1. CloserSees'
  <2>1. CloserSees
    BY DEF FootInv
  <2> QED BY <2>1, SeesKept
<1> QED BY <1>1, FootKept

LEMMA BeginFoot ==
  ASSUME TypeOK, FootInv, NEW t \in Threads, NEW roll, BeginClose(t, roll),
         roll # "no" => loc[t].frame.key, writing' = writing, writer' = writer
  PROVE  FootInv' /\ StoreStep
<1>1. QuietThreads
  BY CloseBegins
<1>2. /\ disk' = disk /\ gone' = gone /\ nopened' = nopened /\ stagePath' = stagePath
      /\ mux' = mux /\ wq' = wq /\ segFrames' = segFrames /\ cleared' = cleared
      /\ muxerOpen' = FALSE /\ waitingKey' = waitingKey
  BY DEF BeginClose, queueVars, libVars
<1> QED BY <1>1, <1>2, QuietFoot

LEMMA ReturnsQuietly ==
  ASSUME TypeOK, PacketReturns
  PROVE  QuietThreads
<1>1. /\ Venc \in Threads /\ loc \in [Threads -> LocType] /\ Goto(Venc, "idle")
      /\ loc' = [loc EXCEPT ![Venc] = NoLoc] /\ "idle" \notin Shutting
  BY Constants DEF TypeOK, PacketReturns, Shutting
<1>2. \A u \in Threads \ {Venc} : loc'[u] = loc[u]
  BY <1>1
<1> QED BY <1>1, <1>2, ThreadPasses

LEMMA PacketPassesFoot ==
  ASSUME TypeOK, FootInv, PacketIgnored \/ PacketBuffered \/ PacketRunOver \/ PacketRoll
                            \/ PacketQuiet
  PROVE  FootInv' /\ StoreStep
<1>1. writing' = writing /\ writer' = writer
  BY DEF PacketIgnored, PacketBuffered, PacketRunOver, PacketRoll, PacketQuiet, writerVars
<1>2. \/ \E roll : BeginClose(Venc, roll) /\ (roll # "no" => Frame.key)
      \/ /\ PacketReturns
         /\ UNCHANGED <<flagVars, nameVars, segFrames, queueVars, libVars>>
  <2>1. CASE PacketIgnored
    BY <2>1 DEF PacketIgnored, countVars
  <2>2. CASE PacketBuffered
    BY <2>2 DEF PacketBuffered, countVars
  <2>3. CASE PacketRunOver
    BY <2>3 DEF PacketRunOver
  <2>4. CASE PacketRoll
    BY <2>4 DEF PacketRoll, RollDue
  <2>5. CASE PacketQuiet
    BY <2>5 DEF PacketQuiet
  <2> QED BY <2>1, <2>2, <2>3, <2>4, <2>5
<1>3. ASSUME NEW roll, BeginClose(Venc, roll), roll # "no" => Frame.key
      PROVE  FootInv' /\ StoreStep
  BY <1>1, <1>3, Constants, BeginFoot DEF Frame
<1>4. CASE PacketReturns /\ UNCHANGED <<flagVars, nameVars, segFrames, queueVars, libVars>>
  <2>1. /\ disk' = disk /\ gone' = gone /\ nopened' = nopened /\ stagePath' = stagePath
        /\ mux' = mux /\ wq' = wq /\ segFrames' = segFrames /\ cleared' = cleared
        /\ muxerOpen' = muxerOpen /\ waitingKey' = waitingKey
    BY <1>4 DEF flagVars, nameVars, queueVars, libVars
  <2>2. QuietThreads
    BY <1>4, ReturnsQuietly
  <2> QED BY <1>1, <2>1, <2>2, QuietFoot
<1> QED BY <1>2, <1>3, <1>4

LEMMA LeavesQuietly ==
  ASSUME TypeOK, NEW t \in Threads, NEW label, label \notin Shutting,
         Goto(t, label), loc' = loc
  PROVE  QuietThreads
BY ThreadPasses

LEMMA SettingFoot ==
  ASSUME TypeOK, FootInv, NEW t \in Ctl,
         \/ Start(t) \/ SetRunDeadline(t) \/ EventExtends(t) \/ Extend(t) \/ StopWriter(t)
  PROVE  FootInv' /\ StoreStep
<1>1. t \in Threads
  BY DEF Threads
<1>2. /\ disk' = disk /\ gone' = gone /\ nopened' = nopened /\ stagePath' = stagePath
      /\ mux' = mux /\ wq' = wq /\ segFrames' = segFrames /\ cleared' = cleared
      /\ muxerOpen' = muxerOpen /\ writing' = writing /\ writer' = writer
  BY DEF Start, SetRunDeadline, EventExtends, Extend, StopWriter, flagVars, nameVars,
     countVars, queueVars, writerVars, libVars
<1>3. waitingKey => waitingKey'
  BY DEF Start, SetRunDeadline, EventExtends, Extend, StopWriter, queueVars
<1>4. \E label \in {"idle", "deadline", "join"} : Goto(t, label) /\ loc' = loc
  BY DEF Start, SetRunDeadline, EventExtends, Extend, StopWriter, Leave
<1>5. QuietThreads
  BY <1>1, <1>4, LeavesQuietly DEF Shutting
<1> QED BY <1>2, <1>3, <1>5, QuietFoot

LEMMA ClosingFoot ==
  ASSUME TypeOK, FootInv, NEW t \in Ctl, Stop(t) \/ Arm(t) \/ Poll(t)
  PROVE  FootInv' /\ StoreStep
<1>1. t \in Threads /\ writing' = writing /\ writer' = writer
  BY DEF Threads, Stop, Arm, Poll, writerVars
<1>2. CASE BeginClose(t, "no")
  BY <1>1, <1>2, BeginFoot
<1>3. CASE ~BeginClose(t, "no")
  <2>1. /\ UNCHANGED <<flagVars, nameVars, segments, segFrames, queueVars, libVars>>
        /\ \E label \in {"idle", "stopped"} : Goto(t, label) /\ loc' = loc
    BY <1>3 DEF Stop, Arm, Poll, Leave
  <2>2. /\ disk' = disk /\ gone' = gone /\ nopened' = nopened /\ stagePath' = stagePath
        /\ mux' = mux /\ wq' = wq /\ segFrames' = segFrames /\ cleared' = cleared
        /\ muxerOpen' = muxerOpen /\ waitingKey' = waitingKey
    BY <2>1 DEF flagVars, nameVars, queueVars, libVars
  <2>3. QuietThreads
    BY <1>1, <2>1, LeavesQuietly DEF Shutting
  <2> QED BY <1>1, <2>2, <2>3, QuietFoot
<1> QED BY <1>2, <1>3

LEMMA OutsideFoot ==
  ASSUME TypeOK, FootInv,
         \/ \E key \in BOOLEAN : Camera(key)
         \/ \E t \in Ctl, o \in Ops \ {"init"} : Call(t, o)
         \/ Tick \/ UNCHANGED vars
  PROVE  FootInv' /\ StoreStep
<1>1. /\ disk' = disk /\ gone' = gone /\ nopened' = nopened /\ stagePath' = stagePath
      /\ mux' = mux /\ wq' = wq /\ segFrames' = segFrames /\ cleared' = cleared
      /\ muxerOpen' = muxerOpen /\ waitingKey' = waitingKey
      /\ writing' = writing /\ writer' = writer
  BY DEF Camera, Call, Tick, vars, flagVars, nameVars, countVars, queueVars, writerVars, libVars
<1>2. QuietThreads
  <2>1. ASSUME NEW key, Camera(key) PROVE QuietThreads
    <3>1. /\ Venc \in Threads /\ loc \in [Threads -> LocType] /\ Goto(Venc, "enter")
          /\ loc' = [loc EXCEPT ![Venc].frame = [id |-> nframes + 1, key |-> key]]
      BY <2>1, Constants DEF TypeOK, Camera
    <3>2. \A u \in Threads \ {Venc} : loc'[u] = loc[u]
      BY <3>1
    <3> QED BY <3>1, <3>2, ThreadPasses DEF Shutting
  <2>2. ASSUME NEW t \in Ctl, NEW o, Call(t, o) PROVE QuietThreads
    <3>1. t \in Threads /\ Goto(t, "enter") /\ loc' = loc
      BY <2>2 DEF Threads, Call
    <3> QED BY <3>1, LeavesQuietly DEF Shutting
  <2>3. CASE Tick \/ UNCHANGED vars
    <3>1. pc' = pc /\ loc' = loc
      BY <2>3 DEF Tick, vars, threadVars
    <3> QED BY <3>1 DEF QuietThreads
  <2> QED BY <2>1, <2>2, <2>3
<1> QED BY <1>1, <1>2, QuietFoot

-----------------------------------------------------------------------------
(* Closing the file                                                        *)

LEMMA OpenFileType ==
  ASSUME TypeOK, NEW p \in DOMAIN disk
  PROVE  /\ disk[p].frames \in Seq(EntryType) /\ disk[p].seg \in Nat
         /\ Len(disk[p].frames) \in Nat
         /\ disk[p].frames = <<>> <=> Len(disk[p].frames) = 0
<1>1. disk[p].frames \in Seq(EntryType) /\ disk[p].seg \in Nat
  BY DEF TypeOK, DiskOK, FileType
<1> QED BY <1>1, LenProperties, EmptySeq

(* Nothing is on its way when the queue is drained.                        *)
LEMMA DrainedMeans ==
  ASSUME SerialInv, Drained
  PROVE  wq = <<>> /\ writer \notin {"write", "count"} /\ InFlight = <<>>
<1>1. wq = <<>> /\ writer \notin {"write", "count"}
  BY DEF Drained, SerialInv, QueueSound
<1> QED BY <1>1 DEF InFlight

LEMMA DrainFoot ==
  ASSUME TypeOK, FootInv, NEW t \in Threads, DrainDone(t)
  PROVE  FootInv' /\ StoreStep
<1>1. /\ disk' = disk /\ gone' = gone /\ nopened' = nopened /\ stagePath' = stagePath
      /\ mux' = mux /\ wq' = wq /\ segFrames' = segFrames /\ cleared' = cleared
      /\ muxerOpen' = muxerOpen /\ waitingKey' = waitingKey
      /\ writing' = writing /\ writer' = writer
  BY DEF DrainDone, flagVars, nameVars, countVars, queueVars, writerVars, libVars
<1>2. QuietThreads
  <2>1. /\ pc \in [Threads -> Labels] /\ pc[t] = "drain" /\ loc' = loc
        /\ pc' = [pc EXCEPT ![t] = "mark"]
    BY DEF TypeOK, DrainDone, Goto
  <2>2. pc'[t] = "mark" /\ \A u \in Threads \ {t} : pc'[u] = pc[u]
    BY <2>1
  <2>3. loc[t].roll # "no" => loc[t].frame.key
    BY <2>1 DEF FootInv, CloserSees, Shutting
  <2> QED BY <2>1, <2>2, <2>3 DEF QuietThreads
<1> QED BY <1>1, <1>2, QuietFoot

LEMMA MarkFoot ==
  ASSUME TypeOK, SerialInv, FootInv, NEW t \in Threads, CloseMark(t)
  PROVE  FootInv' /\ StoreStep
<1>0. pc \in [Threads -> Labels] /\ loc \in [Threads -> LocType]
  BY DEF TypeOK
<1>1. /\ disk' = disk /\ gone' = gone /\ nopened' = nopened /\ stagePath' = stagePath
      /\ mux' = mux /\ wq' = wq /\ segFrames' = segFrames /\ cleared' = cleared
      /\ muxerOpen' = muxerOpen /\ waitingKey' = waitingKey
      /\ writing' = writing /\ writer' = writer
  BY DEF CloseMark, nameVars, countVars, queueVars, writerVars, libVars
<1>2. /\ pc[t] = "mark" /\ pc' = [pc EXCEPT ![t] = "deinit"]
      /\ loc' = [loc EXCEPT ![t].empty = (segFrames = 0)]
  BY DEF CloseMark, Goto
<1>3. Drained /\ mux = stagePath
  <2>1. ClosedBy(t)
    BY <1>2, CloserKnows DEF Closing
  <2> QED BY <1>2, <2>1 DEF ClosedBy
<1>4. stagePath \in DOMAIN disk => (segFrames = 0 <=> disk[stagePath].frames = <<>>)
  <2> SUFFICES ASSUME stagePath \in DOMAIN disk
               PROVE  segFrames = 0 <=> disk[stagePath].frames = <<>>
    OBVIOUS
  <2>1. writer # "count" /\ segFrames \in Nat
    BY <1>3, DrainedMeans DEF TypeOK
  <2>2. Len(disk[stagePath].frames) = segFrames
    BY <1>3, <2>1 DEF FootInv, LiveContent, Counted
  <2> QED BY <2>2, OpenFileType
<1>5. /\ pc'[t] = "deinit" /\ \A u \in Threads \ {t} : pc'[u] = pc[u] /\ loc'[u] = loc[u]
      /\ loc'[t].empty = (segFrames = 0) /\ loc'[t].roll = loc[t].roll
      /\ loc'[t].frame = loc[t].frame
  <2>1. loc[t] \in LocType /\ t \in DOMAIN loc
    BY <1>0
  <2>2. loc'[t].empty = (segFrames = 0) /\ loc'[t].roll = loc[t].roll
        /\ loc'[t].frame = loc[t].frame
    BY <1>2, <2>1 DEF LocType
  <2> QED BY <1>0, <1>2, <2>2
<1>6. CloserSees'
  <2> SUFFICES ASSUME NEW u \in Threads
               PROVE  /\ stagePath' \in DOMAIN disk' =>
                           /\ pc'[u] \in {"deinit", "finish"} =>
                                (loc'[u].empty <=> disk'[stagePath'].frames = <<>>)
                           /\ pc'[u] = "finish" => disk'[stagePath'].sealed
                      /\ pc'[u] \in Shutting /\ loc'[u].roll # "no" => loc'[u].frame.key
    BY DEF CloserSees
  <2>1. CASE u = t
    <3>1. loc[t].roll # "no" => loc[t].frame.key
      BY <1>2 DEF FootInv, CloserSees, Shutting
    <3>2. stagePath' \in DOMAIN disk' => (loc'[t].empty <=> disk'[stagePath'].frames = <<>>)
      BY <1>1, <1>4, <1>5
    <3> QED BY <1>5, <2>1, <3>1, <3>2
  <2>2. CASE u # t
    <3>1. pc'[u] = pc[u] /\ loc'[u] = loc[u]
      BY <1>5, <2>2
    <3> QED BY <1>1, <3>1 DEF FootInv, CloserSees
  <2> QED BY <2>1, <2>2
<1> QED BY <1>1, <1>6, FootKept

(* A clip that has ended depends only on the frames of its file.           *)
LEMMA EndedSame ==
  ASSUME NEW d, NEW g, NEW k, NEW live, FilesAt(d, g, k, live),
         NEW d2, NEW live2, FilesAt(d2, g, k, live2), DOMAIN d2 = DOMAIN d,
         \A p \in DOMAIN d : d2[p].seg = d[p].seg,
         NEW n, \A p \in DOMAIN d : d[p].seg = n => d2[p].frames = d[p].frames
  PROVE  Ended(d2, g, n) = Ended(d, g, n)
<1>1. CASE n \in g
  BY <1>1, ClipOfFile DEF Ended
<1>2. CASE n \notin g /\ \A p \in DOMAIN d : d[p].seg # n
  <2>1. \A p \in DOMAIN d2 : d2[p].seg # n
    BY <1>2
  <2> QED BY <1>2, <2>1, ClipOfFile DEF Ended
<1>3. ASSUME NEW p \in DOMAIN d, d[p].seg = n PROVE Ended(d2, g, n) = Ended(d, g, n)
  <2>1. Ended(d, g, d[p].seg) = [phase  |-> IF d[p].frames = <<>> THEN "empty" ELSE "kept",
                                 frames |-> d[p].frames]
    BY EndedFile
  <2>2. Ended(d2, g, d2[p].seg) = [phase  |-> IF d2[p].frames = <<>> THEN "empty" ELSE "kept",
                                   frames |-> d2[p].frames]
    BY EndedFile
  <2>3. d2[p].seg = n /\ d2[p].frames = d[p].frames
    BY <1>3
  <2> QED BY <1>3, <2>1, <2>2, <2>3
<1> QED BY <1>1, <1>2, <1>3

(* The clips when the library has the file of the newest one open.         *)
LEMMA LiveClip ==
  ASSUME FilesAt(disk, gone, nopened, stagePath), mux \in DOMAIN disk,
         disk[mux].seg = nopened
  PROVE  /\ ClipOf(nopened) = [phase |-> "open", frames |-> Content]
         /\ \A n : n # nopened => ClipOf(n) = Ended(disk, gone, n)
         /\ nopened # 0
<1>1. ClipOf(nopened) = [phase |-> "open", frames |-> Content]
  <2>1. ClipOf(nopened) = ClipIn(disk, gone, mux, InFlight, wq, nopened)
    BY ClipOfIs
  <2>2. ClipIn(disk, gone, mux, InFlight, wq, disk[mux].seg) =
          [phase |-> "open", frames |-> disk[mux].frames \o InFlight \o wq]
    BY ClipOfFile
  <2> QED BY <2>1, <2>2 DEF Content
<1>2. ASSUME NEW n, n # nopened PROVE ClipOf(n) = Ended(disk, gone, n)
  <2>1. ClipOf(n) = ClipIn(disk, gone, mux, InFlight, wq, n)
    BY ClipOfIs
  <2> QED BY <1>2, <2>1, ClipOfOther
<1>3. nopened # 0
  <2>1. disk[mux].seg \in 1 .. nopened
    BY DEF FilesAt
  <2> QED BY <2>1
<1> QED BY <1>1, <1>2, <1>3

(* And when it has none of them open.                                      *)
LEMMA NoLiveClip ==
  ASSUME FilesAt(disk, gone, nopened, stagePath), mux \notin DOMAIN disk
  PROVE  \A n : ClipOf(n) = Ended(disk, gone, n)
BY ClipOfIs, ClipOfOther

LEMMA LiveClipPrimed ==
  ASSUME FilesAt(disk, gone, nopened, stagePath)', mux' \in DOMAIN disk',
         disk'[mux'].seg = nopened'
  PROVE  /\ ClipOf(nopened)' = [phase |-> "open", frames |-> Content']
         /\ \A n : n # nopened' => ClipOf(n)' = Ended(disk', gone', n)
<1>0. FilesAt(disk', gone', nopened', stagePath')
  OBVIOUS
<1>1. ClipOf(nopened)' = [phase |-> "open", frames |-> Content']
  <2>1. ClipOf(nopened)' = ClipIn(disk', gone', mux', InFlight', wq', nopened')
    BY DEF ClipOf, ClipIn
  <2>2. ClipIn(disk', gone', mux', InFlight', wq', disk'[mux'].seg) =
          [phase |-> "open", frames |-> disk'[mux'].frames \o InFlight' \o wq']
    BY <1>0, ClipOfFile
  <2> QED BY <2>1, <2>2 DEF Content
<1>2. ASSUME NEW n, n # nopened' PROVE ClipOf(n)' = Ended(disk', gone', n)
  <2>1. ClipOf(n)' = ClipIn(disk', gone', mux', InFlight', wq', n)
    BY ClipOfIs
  <2> QED BY <1>0, <1>2, <2>1, ClipOfOther
<1> QED BY <1>1, <1>2

LEMMA NoLiveClipPrimed ==
  ASSUME FilesAt(disk, gone, nopened, stagePath)', mux' \notin DOMAIN disk'
  PROVE  \A n : ClipOf(n)' = Ended(disk', gone', n)
BY ClipOfIs, ClipOfOther

(* rkmuxer_deinit: the clip is complete, or turns out empty.               *)
LEMMA DeinitFoot ==
  ASSUME TypeOK, TypeOK', SerialInv, FootInv, NEW t \in Threads, MuxDeinit(t)
  PROVE  FootInv' /\ StoreStep /\ FilesSurvive
<1>0. pc \in [Threads -> Labels] /\ NoStage \notin DOMAIN disk
  BY DEF TypeOK, FootInv, FilesAt
<1>1. /\ pc[t] = "deinit" /\ pc' = [pc EXCEPT ![t] = "finish"] /\ disk' = Sealed
      /\ mux' = NoStage /\ gone' = gone /\ nopened' = nopened /\ stagePath' = stagePath
      /\ wq' = wq /\ cleared' = cleared /\ loc' = loc
      /\ writing' = writing /\ writer' = writer
  BY DEF MuxDeinit, Goto, nameVars, queueVars, writerVars
<1>2. ClosedBy(t) /\ Drained /\ mux = stagePath /\ mux # NoStage
  <2>1. ClosedBy(t)
    BY <1>1, CloserKnows DEF Closing
  <2> QED BY <1>1, <2>1 DEF ClosedBy
<1>3. wq = <<>> /\ writer \notin {"write", "count"} /\ InFlight = <<>> /\ InFlight' = <<>>
  <2>1. wq = <<>> /\ writer \notin {"write", "count"} /\ InFlight = <<>>
    BY <1>2, DrainedMeans
  <2> QED BY <1>1, <2>1 DEF InFlight
<1>4. /\ DOMAIN disk' = DOMAIN disk
      /\ \A p \in DOMAIN disk : /\ disk'[p].seg = disk[p].seg
                                /\ disk'[p].frames = disk[p].frames
                                /\ p = mux \/ disk[p].sealed => disk'[p].sealed
  <2>1. CASE mux \in DOMAIN disk
    <3>1. disk' = [disk EXCEPT ![mux].sealed = TRUE]
      BY <1>1, <2>1 DEF Sealed
    <3>2. \A p \in DOMAIN disk : disk[p] \in FileType
      BY DEF TypeOK, DiskOK
    <3>3. DOMAIN disk' = DOMAIN disk
      BY <3>1
    <3>4. \A p \in DOMAIN disk : disk'[p] = IF p = mux THEN [disk[mux] EXCEPT !.sealed = TRUE]
                                            ELSE disk[p]
      BY <3>1
    <3>5. \A p \in DOMAIN disk : /\ disk'[p].seg = disk[p].seg
                                 /\ disk'[p].frames = disk[p].frames
      BY <3>2, <3>4 DEF FileType
    <3>6. \A p \in DOMAIN disk : p = mux \/ disk[p].sealed => disk'[p].sealed
      <4>1. disk'[mux].sealed = TRUE
        BY <2>1, <3>2, <3>4 DEF FileType
      <4>2. \A p \in DOMAIN disk : p # mux => disk'[p].sealed = disk[p].sealed
        BY <3>4
      <4> QED BY <4>1, <4>2
    <3> QED BY <3>3, <3>5, <3>6
  <2>2. CASE mux \notin DOMAIN disk
    <3>1. disk' = disk
      BY <1>1, <2>2 DEF Sealed
    <3> QED BY <2>2, <3>1
  <2> QED BY <2>1, <2>2
<1>5. FilesAt(disk, gone, nopened, stagePath)
  BY DEF FootInv
<1>6. FilesAt(disk', gone, nopened, stagePath)
  <2>1. \A p \in DOMAIN disk : PureFile(disk[p]) /\ (p # stagePath => WholeFile(disk[p]))
    BY <1>5 DEF FilesAt
  <2>2. \A p \in DOMAIN disk : PureFile(disk'[p])
    BY <1>4, <2>1 DEF PureFile
  <2>3. \A p \in DOMAIN disk : p # stagePath => WholeFile(disk'[p])
    BY <1>4, <2>1 DEF WholeFile
  <2> QED BY <1>4, <1>5, <2>2, <2>3 DEF FilesAt
<1>7. LiveIsNewest'
  <2>1. LiveIsNewest
    BY DEF FootInv
  <2> QED BY <1>1, <1>4, <2>1 DEF LiveIsNewest
<1>8. LiveContent'
  <2>1. Len(wq') = 0
    BY <1>1, <1>3, ValueTypes
  <2>2. mux' \notin DOMAIN disk'
    BY <1>0, <1>1, <1>4
  <2> QED BY <1>1, <1>3, <2>1, <2>2 DEF LiveContent
<1>9. CloserSees'
  <2>1. pc'[t] = "finish" /\ \A u \in Threads \ {t} : pc'[u] = pc[u] /\ pc[u] \notin Shutting
    <3>1. \A u \in Threads \ {t} : pc[u] \notin Closing
      BY <1>2 DEF ClosedBy
    <3> QED BY <1>0, <1>1, <3>1 DEF Closing, Shutting
  <2>2. stagePath \in DOMAIN disk =>
          /\ loc[t].empty <=> disk'[stagePath].frames = <<>>
          /\ disk'[stagePath].sealed
    <3>1. stagePath \in DOMAIN disk => (loc[t].empty <=> disk[stagePath].frames = <<>>)
      BY <1>1 DEF FootInv, CloserSees
    <3> QED BY <1>2, <1>4, <3>1
  <2>3. loc[t].roll # "no" => loc[t].frame.key
    BY <1>1 DEF FootInv, CloserSees, Shutting
  <2> SUFFICES ASSUME NEW u \in Threads
               PROVE  /\ stagePath' \in DOMAIN disk' =>
                           /\ pc'[u] \in {"deinit", "finish"} =>
                                (loc'[u].empty <=> disk'[stagePath'].frames = <<>>)
                           /\ pc'[u] = "finish" => disk'[stagePath'].sealed
                      /\ pc'[u] \in Shutting /\ loc'[u].roll # "no" => loc'[u].frame.key
    BY DEF CloserSees
  <2>4. CASE u = t
    BY <1>1, <1>4, <2>2, <2>3, <2>4
  <2>5. CASE u # t
    BY <2>1, <2>5 DEF Shutting
  <2> QED BY <2>4, <2>5
<1>10. FootInv'
  <2>1. FilesAt(disk, gone, nopened, stagePath)' /\ cleared' = 0
    BY <1>1, <1>6 DEF FootInv
  <2> QED BY <1>7, <1>8, <1>9, <2>1 DEF FootInv
<1>11. StoreStep
  <2>0. \A n : ClipOf(n)' = Ended(disk', gone, n)
    <3>1. FilesAt(disk, gone, nopened, stagePath)' /\ mux' \notin DOMAIN disk'
      BY <1>0, <1>1, <1>4, <1>6
    <3> QED BY <1>1, <3>1, NoLiveClipPrimed
  <2>1. \A n : Ended(disk', gone, n) = Ended(disk, gone, n)
    <3> SUFFICES ASSUME NEW n PROVE Ended(disk', gone, n) = Ended(disk, gone, n)
      OBVIOUS
    <3> QED BY <1>4, <1>5, <1>6, EndedSame
  <2>2. CASE mux \notin DOMAIN disk
    <3>1. \A n : ClipOf(n) = Ended(disk, gone, n)
      BY <1>5, <2>2, NoLiveClip
    <3>2. \A n \in 1 .. nopened : ClipOf(n)' = ClipOf(n)
      BY <2>0, <2>1, <3>1
    <3> QED BY <1>1, <3>2, StoreStays
  <2>3. CASE mux \in DOMAIN disk
    <3>1. disk[mux].seg = nopened
      BY <1>2, <2>3 DEF FootInv, LiveIsNewest
    <3>2. /\ ClipOf(nopened) = [phase |-> "open", frames |-> Content]
          /\ \A n : n # nopened => ClipOf(n) = Ended(disk, gone, n)
          /\ nopened # 0
      BY <1>5, <2>3, <3>1, LiveClip
    <3>3. Content = disk[mux].frames
      <4>1. disk[mux].frames \in Seq(EntryType)
        BY <2>3, OpenFileType
      <4>2. disk[mux].frames \o <<>> = disk[mux].frames
        BY <4>1, ConcatEmptySeq
      <4> QED BY <1>3, <4>2 DEF Content
    <3>4. \A n \in 1 .. nopened : n # nopened => ClipOf(n)' = ClipOf(n)
      BY <2>0, <2>1, <3>2
    <3>5. ClipOf(nopened)' =
            [phase  |-> IF disk[mux].frames = <<>> THEN "empty" ELSE "kept",
             frames |-> disk[mux].frames]
      <4>1. Ended(disk, gone, disk[mux].seg) =
              [phase  |-> IF disk[mux].frames = <<>> THEN "empty" ELSE "kept",
               frames |-> disk[mux].frames]
        BY <1>5, <2>3, EndedFile
      <4>2. ClipOf(nopened)' = ClipIn(disk', gone, NoStage, <<>>, <<>>, nopened)
        BY <1>1, <1>3 DEF ClipOf, ClipIn
      <4>3. ClipOf(nopened)' = Ended(disk', gone, nopened)
        BY <4>2 DEF Ended
      <4>4. Ended(disk', gone, nopened) = Ended(disk, gone, nopened)
        BY <2>1
      <4> QED BY <3>1, <4>1, <4>3, <4>4
    <3>6. /\ ClipOf(nopened).phase = "open" /\ ClipOf(nopened).frames = disk[mux].frames
          /\ ClipOf(nopened)'.frames = disk[mux].frames
          /\ ClipOf(nopened)'.phase = IF disk[mux].frames = <<>> THEN "empty" ELSE "kept"
      BY <3>2, <3>3, <3>5
    <3> QED BY <1>1, <3>2, <3>4, <3>6, StoreFinishes
  <2> QED BY <2>2, <2>3
<1>12. FilesSurvive
  <2>1. \A n : Ended(disk', gone, n) = Ended(disk, gone, n)
    <3> SUFFICES ASSUME NEW n PROVE Ended(disk', gone, n) = Ended(disk, gone, n)
      OBVIOUS
    <3> QED BY <1>4, <1>5, <1>6, EndedSame
  <2> QED BY <1>1, <2>1 DEF FilesSurvive, Survive
<1> QED BY <1>10, <1>11, <1>12

(* What holds when no segment is open.                                     *)
LEMMA FootAtRest ==
  ASSUME TypeOK', FilesAt(disk, gone, nopened, stagePath)', stagePath' = NoStage,
         mux' = NoStage, wq' = <<>>, writer' # "write", cleared' = 0,
         \A u \in Threads : pc'[u] \notin Shutting
  PROVE  FootInv'
<1>1. LiveIsNewest'
  BY DEF LiveIsNewest
<1>2. mux' \notin DOMAIN disk' /\ Len(wq') = 0
  BY ValueTypes DEF FilesAt
<1>3. LiveContent'
  BY <1>2 DEF LiveContent
<1>4. CloserSees'
  BY DEF CloserSees, Shutting
<1> QED BY <1>1, <1>3, <1>4 DEF FootInv

(* A closer knows enough to finish.                                        *)
LEMMA FinishSurvives ==
  ASSUME SoundStorage, TypeOK, SerialInv, FootInv, NEW t \in Threads, pc[t] = "finish",
         NEW o \in PromoteOutcomes
  PROVE  /\ FilesAt(Closed(loc[t], o).disk, Closed(loc[t], o).gone, nopened, NoStage)
         /\ Survive(disk, gone, Closed(loc[t], o).disk, Closed(loc[t], o).gone, nopened)
<1>1. loc[t] \in LocType /\ nopened \in Nat
  BY DEF TypeOK
<1>2. stagePath = loc[t].stage
  <2>1. ClosedBy(t)
    BY CloserKnows DEF Closing
  <2> QED BY <2>1 DEF ClosedBy, Shutting
<1>3. FilesAt(disk, gone, nopened, loc[t].stage)
  BY <1>2 DEF FootInv
<1>4. loc[t].stage \in DOMAIN disk =>
        /\ disk[loc[t].stage].sealed
        /\ loc[t].empty <=> disk[loc[t].stage].frames = <<>>
  BY <1>2 DEF FootInv, CloserSees
<1> QED BY <1>1, <1>3, <1>4, ClosedSurvives

LEMMA FinishFoot ==
  ASSUME SoundStorage, TypeOK, TypeOK', SerialInv, FootInv, NEW t \in Threads, CloseFinish(t)
  PROVE  FootInv' /\ StoreStep /\ FilesSurvive
<1>0. pc \in [Threads -> Labels] /\ NoStage \notin DOMAIN disk
  BY DEF TypeOK, FootInv, FilesAt
<1>1. /\ pc[t] = "finish" /\ stagePath' = NoStage /\ mux' = mux /\ nopened' = nopened
      /\ wq' = wq /\ cleared' = cleared /\ writing' = writing /\ writer' = writer
      /\ pc' = [pc EXCEPT ![t] = "stopped"] \/ pc' = [pc EXCEPT ![t] = "idle"]
  <2>1. /\ pc[t] = "finish" /\ mux' = mux /\ nopened' = nopened
        /\ UNCHANGED <<queueVars, writerVars>>
        /\ \E o \in PromoteOutcomes : stagePath' = Closed(loc[t], o).stage
    BY DEF CloseFinish
  <2>2. pc' = [pc EXCEPT ![t] = "stopped"] \/ pc' = [pc EXCEPT ![t] = "idle"]
    BY DEF CloseFinish, Goto
  <2> QED BY <2>1, <2>2, ClosedFlags DEF queueVars, writerVars
<1>2. /\ mux = NoStage /\ Drained /\ \A u \in Threads \ {t} : pc[u] \notin Closing
  <2>1. ClosedBy(t)
    BY <1>1, CloserKnows DEF Closing
  <2> QED BY <1>1, <2>1 DEF ClosedBy
<1>3. wq = <<>> /\ writer \notin {"write", "count"}
  BY <1>2, DrainedMeans
<1>4. PICK o \in PromoteOutcomes :
        disk' = Closed(loc[t], o).disk /\ gone' = Closed(loc[t], o).gone
  BY DEF CloseFinish
<1>5. FilesAt(disk', gone', nopened, NoStage) /\ Survive(disk, gone, disk', gone', nopened)
  BY <1>1, <1>4, FinishSurvives
<1>6. FilesAt(disk, gone, nopened, stagePath)'
  BY <1>1, <1>5
<1>7. \A u \in Threads : pc'[u] \notin Shutting
  BY <1>0, <1>1, <1>2 DEF Closing, Shutting
<1>8. FootInv'
  <2>1. cleared' = 0
    BY <1>1 DEF FootInv
  <2> QED BY <1>1, <1>2, <1>3, <1>6, <1>7, <2>1, FootAtRest
<1>9. StoreStep
  <2>1. \A n : ClipOf(n) = Ended(disk, gone, n)
    BY <1>0, <1>2, NoLiveClip DEF FootInv
  <2>2. mux' \notin DOMAIN disk'
    BY <1>1, <1>2, <1>5 DEF FilesAt
  <2>3. \A n : ClipOf(n)' = Ended(disk', gone', n)
    BY <1>6, <2>2, NoLiveClipPrimed
  <2>4. \A n \in 1 .. nopened :
          ClipOf(n)' = ClipOf(n) \/ Store!Destroyed(ClipOf(n), ClipOf(n)')
    BY <1>5, <2>1, <2>3 DEF Survive
  <2> QED BY <1>1, <2>4, StoreDestroys
<1>10. FilesSurvive
  BY <1>1, <1>5 DEF FilesSurvive
<1> QED BY <1>8, <1>9, <1>10

(* The writer has been joined with nothing left in the queue.              *)
LEMMA JoinedFoot ==
  ASSUME TypeOK, TypeOK', SerialInv, FootInv, NEW t \in Ctl, Joined(t)
  PROVE  FootInv' /\ StoreStep
<1>1. /\ pc[t] = "join" /\ Goto(t, "idle") /\ loc' = loc
      /\ disk' = disk /\ gone' = gone /\ nopened' = nopened /\ stagePath' = stagePath
      /\ mux' = mux /\ wq' = <<>> /\ segFrames' = segFrames /\ cleared' = cleared + Len(wq)
      /\ muxerOpen' = muxerOpen /\ waitingKey' = waitingKey
      /\ writing' = writing /\ writer' = writer
  BY DEF Joined, Leave, ClearQueue, flagVars, nameVars, countVars, writerVars, libVars
<1>2. t \in Threads
  BY DEF Threads
<1>3. wq = <<>>
  <2>1. ClosedBy(t)
    BY <1>1, <1>2, CloserKnows DEF Closing
  <2> QED BY <1>1, <2>1 DEF ClosedBy, Drained
<1>4. wq' = wq /\ cleared' = cleared
  <2>1. Len(wq) = 0 /\ cleared \in Nat
    BY <1>3, ValueTypes DEF TypeOK
  <2> QED BY <1>1, <1>3, <2>1
<1>5. QuietThreads
  BY <1>1, <1>2, LeavesQuietly DEF Shutting
<1> QED BY <1>1, <1>4, <1>5, QuietFoot

(* record_init finds no unfinished file of its own.                        *)
LEMMA InitFoot ==
  ASSUME SerialCallers, TypeOK, TypeOK', SerialInv, FootInv, NEW t \in Ctl, RecordInit(t)
  PROVE  FootInv' /\ StoreStep /\ FilesSurvive
<1>1. /\ ~inited /\ ("init" \in OverlapOps \/ ~CloseInProgress)
      /\ gone' = gone /\ nopened' = nopened /\ stagePath' = stagePath
      /\ mux' = mux /\ wq' = <<>> /\ segFrames' = segFrames /\ cleared' = cleared + Len(wq)
      /\ muxerOpen' = muxerOpen /\ waitingKey' = waitingKey /\ writing' = writing
      /\ pc' = pc /\ loc' = loc
      /\ disk' = Without(disk, {p \in DOMAIN disk : disk[p].frames = <<>> /\ ~disk[p].sealed})
  BY DEF RecordInit, ClearQueue, flagVars, nameVars, threadVars
<1>2. AtRest
  <2>1. ~CloseInProgress /\ mode = "off"
    BY <1>1 DEF SerialCallers, SerialInv
  <2>2. \A u \in Threads : ~ClosedBy(u)
    BY <2>1 DEF CloseInProgress, ClosedBy, Shutting, Closing
  <2> QED BY <2>1, <2>2 DEF SerialInv, AtWork
<1>3. wq = <<>> /\ stagePath = NoStage
  BY <1>2 DEF AtRest, Drained
<1>4. wq' = wq /\ cleared' = cleared
  <2>1. Len(wq) = 0 /\ cleared \in Nat
    BY <1>3, ValueTypes DEF TypeOK
  <2> QED BY <1>1, <1>3, <2>1
<1>5. DOMAIN disk' = DOMAIN disk /\ \A p \in DOMAIN disk : disk'[p] = disk[p]
  <2>1. \A p \in DOMAIN disk : disk[p].frames # <<>>
    BY <1>3 DEF FootInv, FilesAt, WholeFile
  <2>2. {p \in DOMAIN disk : disk[p].frames = <<>> /\ ~disk[p].sealed} = {}
    BY <2>1
  <2> QED BY <1>1, <2>2 DEF Without
<1>6. \A w \in {"write", "count"} : writer' = w <=> writer = w
  BY DEF RecordInit
<1>7. CloserSees'
  <2>1. QuietThreads
    BY <1>1 DEF QuietThreads
  <2>2. CloserSees
    BY DEF FootInv
  <2> QED BY <1>1, <1>5, <2>1, <2>2, SeesKept
<1>8. FilesSurvive
  <2>1. ASSUME NEW n PROVE Ended(disk', gone', n) = Ended(disk, gone, n)
    BY <1>1, <1>5, ClipInSame DEF Ended
  <2> QED BY <1>1, <2>1 DEF FilesSurvive, Survive
<1> QED BY <1>1, <1>4, <1>5, <1>6, <1>7, <1>8, FootKept

-----------------------------------------------------------------------------
(* Writing                                                                 *)

(* The file the library has open is the staged one, of the newest segment. *)
LEMMA LiveFile ==
  ASSUME SerialInv, FootInv
  PROVE  /\ mux # NoStage => mux = stagePath
         /\ mux \in DOMAIN disk => mux = stagePath /\ disk[mux].seg = nopened
<1>1. mux # NoStage => mux = stagePath
  BY DEF SerialInv, AtRest, AtWork, ClosedBy
<1>2. NoStage \notin DOMAIN disk
  BY DEF FootInv, FilesAt
<1> QED BY <1>1, <1>2 DEF FootInv, LiveIsNewest

LEMMA ContentType ==
  ASSUME TypeOK, mux \in DOMAIN disk
  PROVE  /\ Content \in Seq(EntryType) /\ wq \in Seq(EntryType)
         /\ disk[mux].frames \o InFlight \in Seq(EntryType)
<1> HIDE DEF EntryType
<1>1. disk[mux].frames \in Seq(EntryType) /\ InFlight \in Seq(EntryType) /\ wq \in Seq(EntryType)
  BY OpenFileType, InFlightType, TypeParts DEF TypeOK
<1>2. disk[mux].frames \o InFlight \in Seq(EntryType)
  BY <1>1, ConcatProperties
<1> QED BY <1>1, <1>2, ConcatProperties DEF Content

(* Frames added at the end, the very first one a key frame.                *)
LEMMA GrowsBy ==
  ASSUME NEW c \in Seq(EntryType), NEW e \in Seq(EntryType),
         c # <<>> => c[1].frame.key,
         c = <<>> /\ e # <<>> => e[1].frame.key
  PROVE  /\ Store!Grows(c, c \o e)
         /\ c \o e = <<>> <=> c = <<>> /\ e = <<>>
<1> HIDE DEF EntryType
<1>1. /\ Len(c) \in Nat /\ Len(e) \in Nat
      /\ Len(c \o e) = Len(c) + Len(e)
      /\ \A i \in 1 .. Len(c) + Len(e) :
           (c \o e)[i] = IF i <= Len(c) THEN c[i] ELSE e[i - Len(c)]
  BY LenProperties, ConcatProperties
<1>2. c \o e = <<>> <=> c = <<>> /\ e = <<>>
  BY ConcatEqualIffEmpty
<1>3. \A i \in 1 .. Len(c) : (c \o e)[i] = c[i]
  BY <1>1
<1>4. c \o e # <<>> => (c \o e)[1].frame.key
  <2>1. CASE c # <<>>
    <3>1. Len(c) \in Nat \ {0}
      BY <2>1, EmptySeq
    <3> QED BY <1>3, <2>1, <3>1
  <2>2. CASE c = <<>>
    <3>1. c \o e = e
      BY <2>2, ConcatEmptySeq
    <3> QED BY <2>2, <3>1
  <2> QED BY <2>1, <2>2
<1>5. Len(c) <= Len(c \o e)
  BY <1>1
<1> QED BY <1>2, <1>3, <1>4, <1>5 DEF Store!Grows

LEMMA GrowsSame ==
  ASSUME NEW c, Len(c) \in Nat, c # <<>> => c[1].frame.key
  PROVE  Store!Grows(c, c)
BY DEF Store!Grows

(* A step that lets the open clip grow, or nothing.                        *)
LEMMA LiveStep ==
  ASSUME TypeOK, TypeOK', SerialInv, FootInv,
         mux' = mux, nopened' = nopened, gone' = gone, stagePath' = stagePath,
         cleared' = cleared, DOMAIN disk' = DOMAIN disk,
         \A p \in DOMAIN disk : disk'[p].seg = disk[p].seg /\ disk'[p].sealed = disk[p].sealed,
         \A p \in DOMAIN disk : p # mux => disk'[p].frames = disk[p].frames,
         mux \in DOMAIN disk =>
           /\ PureFile(disk'[mux])
           /\ Store!Grows(Content, Content')
           /\ Len(disk'[mux].frames) = Counted'
           /\ muxerOpen' => Content' # <<>> \/ waitingKey',
         \A i \in 1 .. Len(wq') : wq'[i].seg = nopened,
         writer' = "write" => writing'.seg = nopened,
         CloserSees'
  PROVE  FootInv' /\ StoreStep
<1>1. FilesAt(disk, gone, nopened, stagePath)
  BY DEF FootInv
<1>2. FilesAt(disk', gone, nopened, stagePath)
  <2>1. \A p \in DOMAIN disk : PureFile(disk[p]) /\ (p # stagePath => WholeFile(disk[p]))
    BY <1>1 DEF FilesAt
  <2>2. \A p \in DOMAIN disk : PureFile(disk'[p])
    <3>1. \A p \in DOMAIN disk : p # mux => PureFile(disk'[p])
      BY <2>1 DEF PureFile
    <3> QED BY <3>1
  <2>3. \A p \in DOMAIN disk : p # stagePath => WholeFile(disk'[p])
    BY <2>1, LiveFile DEF WholeFile
  <2> QED BY <1>1, <2>2, <2>3 DEF FilesAt
<1>3. FilesAt(disk, gone, nopened, stagePath)'
  BY <1>2
<1>4. LiveIsNewest'
  BY DEF FootInv, LiveIsNewest
<1>5. LiveContent'
  <2>1. mux \in DOMAIN disk => (Content' # <<>> => Content'[1].frame.key)
    BY DEF Store!Grows
  <2> QED BY <2>1 DEF LiveContent
<1>6. FootInv'
  <2>1. cleared' = 0
    BY DEF FootInv
  <2> QED BY <1>3, <1>4, <1>5, <2>1 DEF FootInv
<1>7. ASSUME NEW n, mux \in DOMAIN disk => n # nopened
      PROVE  Ended(disk', gone, n) = Ended(disk, gone, n)
  <2>1. \A p \in DOMAIN disk : disk[p].seg = n => disk'[p].frames = disk[p].frames
    BY <1>7, LiveFile
  <2> QED BY <1>1, <1>2, <2>1, EndedSame
<1>8. StoreStep
  <2>1. CASE mux \notin DOMAIN disk
    <3>1. \A n : ClipOf(n) = Ended(disk, gone, n)
      BY <1>1, <2>1, NoLiveClip
    <3>2. \A n : ClipOf(n)' = Ended(disk', gone', n)
      BY <1>3, <2>1, NoLiveClipPrimed
    <3>3. \A n \in 1 .. nopened : ClipOf(n)' = ClipOf(n)
      BY <1>7, <2>1, <3>1, <3>2
    <3> QED BY <3>3, StoreStays
  <2>2. CASE mux \in DOMAIN disk
    <3>0. disk[mux].seg = nopened /\ disk'[mux'].seg = nopened'
      BY <2>2, LiveFile
    <3>1. /\ ClipOf(nopened) = [phase |-> "open", frames |-> Content]
          /\ \A n : n # nopened => ClipOf(n) = Ended(disk, gone, n)
          /\ nopened # 0
      BY <1>1, <2>2, <3>0, LiveClip
    <3>2. /\ ClipOf(nopened)' = [phase |-> "open", frames |-> Content']
          /\ \A n : n # nopened' => ClipOf(n)' = Ended(disk', gone', n)
      BY <1>3, <2>2, <3>0, LiveClipPrimed
    <3>3. \A n \in 1 .. nopened : n # nopened => ClipOf(n)' = ClipOf(n)
      BY <1>7, <3>1, <3>2
    <3>4. /\ ClipOf(nopened).phase = "open" /\ ClipOf(nopened)'.phase = "open"
          /\ Store!Grows(ClipOf(nopened).frames, ClipOf(nopened)'.frames)
      BY <2>2, <3>1, <3>2
    <3> QED BY <3>1, <3>3, <3>4, StoreRecords
  <2> QED BY <2>1, <2>2
<1> QED BY <1>6, <1>8

LEMMA LiveNow ==
  ASSUME TypeOK, FootInv, mux \in DOMAIN disk
  PROVE  /\ Content # <<>> => Content[1].frame.key
         /\ Len(disk[mux].frames) = Counted
         /\ PureFile(disk[mux])
         /\ Store!Grows(Content, Content)
<1>1. /\ Content # <<>> => Content[1].frame.key
      /\ Len(disk[mux].frames) = Counted
  BY DEF FootInv, LiveContent
<1>2. Len(Content) \in Nat
  BY ContentType, LenProperties
<1>3. PureFile(disk[mux])
  BY DEF FootInv, FilesAt
<1> QED BY <1>1, <1>2, <1>3, GrowsSame

LEMMA TakeFoot ==
  ASSUME TypeOK, TypeOK', SerialInv, FootInv, WriterTake
  PROVE  FootInv' /\ StoreStep
<1>1. /\ writer = "idle" /\ wq # <<>> /\ writing' = Head(wq) /\ wq' = Tail(wq)
      /\ writer' = "write" /\ disk' = disk /\ gone' = gone /\ nopened' = nopened
      /\ stagePath' = stagePath /\ mux' = mux /\ segFrames' = segFrames /\ cleared' = cleared
      /\ muxerOpen' = muxerOpen /\ waitingKey' = waitingKey /\ pc' = pc /\ loc' = loc
  BY DEF WriterTake, flagVars, nameVars, countVars, libVars, threadVars
<1>2. wq \in Seq(EntryType) /\ Len(wq) \in Nat \ {0}
  BY <1>1, EmptySeq DEF TypeOK
<1>3. /\ Head(wq) = wq[1] /\ Tail(wq) \in Seq(EntryType) /\ <<Head(wq)>> \in Seq(EntryType)
      /\ Len(Tail(wq)) = Len(wq) - 1
      /\ \A i \in 1 .. Len(Tail(wq)) : Tail(wq)[i] = wq[i + 1]
  BY <1>1, <1>2, HeadTailProperties
<1>4. wq = <<Head(wq)>> \o Tail(wq)
  <2>1. Len(wq) \in 1 .. Len(wq) /\ 1 \in 1 .. Len(wq)
    BY <1>2
  <2>2. SubSeq(wq, 1, Len(wq)) = <<wq[1]>> \o SubSeq(wq, 2, Len(wq))
    BY <1>2, <2>1, SubSeqRecursiveFirst
  <2>3. SubSeq(wq, 1, Len(wq)) = wq /\ Tail(wq) = SubSeq(wq, 2, Len(wq))
    BY <1>1, <1>2, SubSeqFull, TailIsSubSeq
  <2> QED BY <1>3, <2>2, <2>3
<1>5. /\ \A i \in 1 .. Len(wq') : wq'[i].seg = nopened
      /\ writer' = "write" => writing'.seg = nopened
  <2>1. \A i \in 1 .. Len(wq) : wq[i].seg = nopened
    BY DEF FootInv, LiveContent
  <2>2. 1 \in 1 .. Len(wq) /\ \A i \in 1 .. Len(Tail(wq)) : i + 1 \in 1 .. Len(wq)
    BY <1>2, <1>3
  <2> QED BY <1>1, <1>3, <2>1, <2>2
<1>6. mux \in DOMAIN disk => Content' = Content
  <2> SUFFICES ASSUME mux \in DOMAIN disk PROVE Content' = Content
    OBVIOUS
  <2> HIDE DEF EntryType
  <2>1. disk[mux].frames \in Seq(EntryType)
    BY OpenFileType
  <2>2. Content = disk[mux].frames \o <<>> \o wq /\ disk[mux].frames \o <<>> = disk[mux].frames
    BY <1>1, <2>1, ConcatEmptySeq DEF Content, InFlight
  <2>3. Content' = disk[mux].frames \o <<Head(wq)>> \o Tail(wq)
    BY <1>1 DEF Content, InFlight
  <2>4. (disk[mux].frames \o <<Head(wq)>>) \o Tail(wq)
          = disk[mux].frames \o (<<Head(wq)>> \o Tail(wq))
    BY <1>3, <2>1, ConcatAssociative
  <2> QED BY <1>4, <2>2, <2>3, <2>4
<1>7. Counted' = Counted
  BY <1>1 DEF Counted
<1>8. CloserSees'
  <2>1. QuietThreads /\ CloserSees
    BY <1>1 DEF QuietThreads, FootInv
  <2> QED BY <1>1, <2>1, SeesKept
<1>9. mux \in DOMAIN disk =>
        /\ PureFile(disk'[mux]) /\ Store!Grows(Content, Content')
        /\ Len(disk'[mux].frames) = Counted'
        /\ muxerOpen' => Content' # <<>> \/ waitingKey'
  <2> SUFFICES ASSUME mux \in DOMAIN disk
               PROVE  /\ PureFile(disk'[mux]) /\ Store!Grows(Content, Content')
                      /\ Len(disk'[mux].frames) = Counted'
                      /\ muxerOpen' => Content' # <<>> \/ waitingKey'
    OBVIOUS
  <2>1. muxerOpen => Content # <<>> \/ waitingKey
    BY DEF FootInv, LiveContent
  <2> QED BY <1>1, <1>6, <1>7, <2>1, LiveNow
<1> QED BY <1>1, <1>5, <1>8, <1>9, LiveStep

LEMMA CountFoot ==
  ASSUME TypeOK, TypeOK', SerialInv, FootInv, WriterCount
  PROVE  FootInv' /\ StoreStep
<1>1. /\ writer = "count" /\ writer' = "idle" /\ segFrames' = segFrames + 1
      /\ disk' = disk /\ gone' = gone /\ nopened' = nopened /\ wq' = wq
      /\ stagePath' = stagePath /\ mux' = mux /\ cleared' = cleared
      /\ muxerOpen' = muxerOpen /\ waitingKey' = waitingKey /\ pc' = pc /\ loc' = loc
  BY DEF WriterCount, flagVars, nameVars, queueVars, libVars, threadVars
<1>2. Content' = Content
  BY <1>1 DEF Content, InFlight
<1>3. Counted' = Counted
  BY <1>1 DEF Counted, TypeOK
<1>4. CloserSees'
  <2>1. QuietThreads /\ CloserSees
    BY <1>1 DEF QuietThreads, FootInv
  <2> QED BY <1>1, <2>1, SeesKept
<1>5. mux \in DOMAIN disk =>
        /\ PureFile(disk'[mux]) /\ Store!Grows(Content, Content')
        /\ Len(disk'[mux].frames) = Counted'
        /\ muxerOpen' => Content' # <<>> \/ waitingKey'
  <2> SUFFICES ASSUME mux \in DOMAIN disk
               PROVE  /\ PureFile(disk'[mux]) /\ Store!Grows(Content, Content')
                      /\ Len(disk'[mux].frames) = Counted'
                      /\ muxerOpen' => Content' # <<>> \/ waitingKey'
    OBVIOUS
  <2>1. muxerOpen => Content # <<>> \/ waitingKey
    BY DEF FootInv, LiveContent
  <2> QED BY <1>1, <1>2, <1>3, <2>1, LiveNow
<1>6. \A i \in 1 .. Len(wq') : wq'[i].seg = nopened
  BY <1>1 DEF FootInv, LiveContent
<1> QED BY <1>1, <1>4, <1>5, <1>6, LiveStep

LEMMA ExitFoot ==
  ASSUME TypeOK, FootInv, WriterExit
  PROVE  FootInv' /\ StoreStep
<1>1. /\ writer = "idle" /\ writer' = "off" /\ segFrames' = segFrames
      /\ disk' = disk /\ gone' = gone /\ nopened' = nopened /\ wq' = wq
      /\ stagePath' = stagePath /\ mux' = mux /\ cleared' = cleared /\ writing' = writing
      /\ muxerOpen' = muxerOpen /\ waitingKey' = waitingKey /\ pc' = pc /\ loc' = loc
  BY DEF WriterExit, flagVars, nameVars, countVars, queueVars, libVars, threadVars
<1>2. CloserSees'
  <2>1. QuietThreads /\ CloserSees
    BY <1>1 DEF QuietThreads, FootInv
  <2> QED BY <1>1, <2>1, SeesKept
<1> QED BY <1>1, <1>2, FootKept

(* rkmuxer_write_video_frame: the frame is no longer on its way.           *)
LEMMA WriteFoot ==
  ASSUME TypeOK, TypeOK', SerialInv, FootInv, WriterWrite
  PROVE  FootInv' /\ StoreStep
<1>1. /\ writer = "write" /\ writer' = "count" /\ segFrames' = segFrames
      /\ gone' = gone /\ nopened' = nopened /\ wq' = wq /\ writing' = writing
      /\ stagePath' = stagePath /\ mux' = mux /\ cleared' = cleared
      /\ muxerOpen' = muxerOpen /\ waitingKey' = waitingKey /\ pc' = pc /\ loc' = loc
      /\ disk' = IF mux \in DOMAIN disk
                 THEN [disk EXCEPT ![mux].frames = Append(@, writing)] ELSE disk
  BY DEF WriterWrite, flagVars, nameVars, countVars, queueVars, threadVars
<1>2. writing \in EntryType /\ wq \in Seq(EntryType) /\ writing.seg = nopened
  BY <1>1 DEF TypeOK, FootInv, LiveContent
<1>3. /\ DOMAIN disk' = DOMAIN disk
      /\ \A p \in DOMAIN disk : p # mux => disk'[p] = disk[p]
      /\ \A p \in DOMAIN disk : disk'[p].seg = disk[p].seg /\ disk'[p].sealed = disk[p].sealed
      /\ mux \in DOMAIN disk => disk'[mux].frames = Append(disk[mux].frames, writing)
  <2>1. CASE mux \notin DOMAIN disk
    BY <1>1, <2>1
  <2>2. CASE mux \in DOMAIN disk
    <3>1. disk[mux] \in FileType
      BY <2>2 DEF TypeOK, DiskOK
    <3>2. /\ DOMAIN disk' = DOMAIN disk
          /\ \A p \in DOMAIN disk : p # mux => disk'[p] = disk[p]
          /\ disk'[mux] = [disk[mux] EXCEPT !.frames = Append(disk[mux].frames, writing)]
      BY <1>1, <2>2
    <3>3. /\ disk'[mux].seg = disk[mux].seg /\ disk'[mux].sealed = disk[mux].sealed
          /\ disk'[mux].frames = Append(disk[mux].frames, writing)
      BY <3>1, <3>2 DEF FileType
    <3> QED BY <3>2, <3>3
  <2> QED BY <2>1, <2>2
<1>4. CloserSees'
  <2>1. \A t \in Threads : pc[t] \notin {"deinit", "finish"}
    <3> SUFFICES ASSUME NEW t \in Threads, pc[t] \in {"deinit", "finish"} PROVE FALSE
      OBVIOUS
    <3>1. ClosedBy(t)
      BY CloserKnows DEF Closing
    <3>2. Drained
      BY <3>1 DEF ClosedBy
    <3> QED BY <1>1, <3>2, DrainedMeans
  <2>2. \A t \in Threads : pc[t] \in Shutting /\ loc[t].roll # "no" => loc[t].frame.key
    BY DEF FootInv, CloserSees
  <2> QED BY <1>1, <2>1, <2>2 DEF CloserSees
<1>5. mux \in DOMAIN disk =>
        /\ PureFile(disk'[mux]) /\ Store!Grows(Content, Content')
        /\ Len(disk'[mux].frames) = Counted'
        /\ muxerOpen' => Content' # <<>> \/ waitingKey'
  <2> SUFFICES ASSUME mux \in DOMAIN disk
               PROVE  /\ PureFile(disk'[mux]) /\ Store!Grows(Content, Content')
                      /\ Len(disk'[mux].frames) = Counted'
                      /\ muxerOpen' => Content' # <<>> \/ waitingKey'
    OBVIOUS
  <2> DEFINE f == disk[mux].frames
             f2 == Append(f, writing)
  <2>1. f \in Seq(EntryType) /\ Len(f) \in Nat
    BY OpenFileType
  <2>2. /\ f2 \in Seq(EntryType) /\ f2 # <<>> /\ Len(f2) = Len(f) + 1
        /\ (\A i \in 1 .. Len(f) : f2[i] = f[i]) /\ f2[Len(f) + 1] = writing
        /\ f2 = f \o <<writing>>
    <3> HIDE DEF EntryType, f
    <3> QED BY <1>2, <2>1, AppendProperties, AppendIsConcat
  <2>3. disk'[mux].frames = f2 /\ disk'[mux].seg = nopened /\ disk[mux].seg = nopened
    BY <1>3, LiveFile
  <2> HIDE DEF f2, f
  <2>4. Content' = f2 \o <<>> \o wq /\ f2 \o <<>> = f2
    <3>1. f2 \o <<>> = f2
      BY <2>2, ConcatEmptySeq
    <3>2. InFlight' = <<>>
      BY <1>1 DEF InFlight
    <3> QED BY <1>1, <2>3, <3>1, <3>2 DEF Content
  <2>5. Content = f \o <<writing>> \o wq
    BY <1>1 DEF Content, InFlight, f
  <2>6. Content' = Content
    BY <2>2, <2>4, <2>5
  <2>7. f2[1].frame.key
    <3> HIDE DEF EntryType
    <3>1. /\ Len(f2) \in Nat /\ Len(wq) \in Nat
          /\ \A i \in 1 .. Len(f2) + Len(wq) :
               (f2 \o wq)[i] = IF i <= Len(f2) THEN f2[i] ELSE wq[i - Len(f2)]
          /\ Len(f2 \o wq) = Len(f2) + Len(wq)
      BY <1>2, <2>2, LenProperties, ConcatProperties
    <3>2. Len(f2) >= 1
      BY <2>1, <2>2
    <3>3. 1 \in 1 .. Len(f2) + Len(wq) /\ 1 <= Len(f2)
      BY <3>1, <3>2
    <3>4. (f2 \o wq)[1] = f2[1]
      BY <3>1, <3>3
    <3>5. f2 \o wq = Content
      BY <2>4, <2>6
    <3>6. Content # <<>>
      BY <1>2, <2>2, <3>5, ConcatEqualIffEmpty
    <3> QED BY <3>4, <3>5, <3>6, LiveNow
  <2>8. \A i \in 1 .. Len(f2) : f2[i].seg = nopened
    <3>1. \A i \in 1 .. Len(f) : f[i].seg = nopened
      BY <2>3 DEF FootInv, FilesAt, PureFile, f
    <3>2. \A i \in 1 .. Len(f2) : i \in 1 .. Len(f) \/ i = Len(f) + 1
      BY <2>1, <2>2
    <3> QED BY <1>2, <2>2, <3>1, <3>2
  <2>9. PureFile(disk'[mux])
    BY <2>3, <2>7, <2>8 DEF PureFile
  <2>10. Len(disk'[mux].frames) = Counted'
    <3>1. Len(f) = segFrames + 0 /\ segFrames \in Nat
      BY <1>1, LiveNow DEF Counted, TypeOK, f
    <3>2. Counted' = segFrames + 1
      BY <1>1 DEF Counted
    <3> QED BY <2>2, <2>3, <3>1, <3>2
  <2>11. muxerOpen' => Content' # <<>> \/ waitingKey'
    BY <1>1, <2>6 DEF FootInv, LiveContent
  <2> QED BY <2>6, <2>9, <2>10, <2>11, LiveNow
<1>6. \A i \in 1 .. Len(wq') : wq'[i].seg = nopened
  BY <1>1 DEF FootInv, LiveContent
<1> QED BY <1>1, <1>3, <1>4, <1>5, <1>6, LiveStep

LEMMA WriterFoot ==
  ASSUME TypeOK, TypeOK', SerialInv, FootInv, Writer
  PROVE  FootInv' /\ StoreStep
BY TakeFoot, WriteFoot, CountFoot, ExitFoot DEF Writer

(* The entries that are made of frames.                                    *)
LEMMA EntriesOf ==
  ASSUME NEW seg \in Nat, NEW fs \in Seq(FrameType)
  PROVE  LET e == [i \in 1 .. Len(fs) |-> [seg |-> seg, frame |-> fs[i]]]
         IN  /\ e \in Seq(EntryType) /\ Len(e) = Len(fs) /\ Len(fs) \in Nat
             /\ \A i \in 1 .. Len(fs) : e[i].seg = seg /\ e[i].frame = fs[i]
             /\ e = <<>> <=> fs = <<>>
<1> DEFINE e == [i \in 1 .. Len(fs) |-> [seg |-> seg, frame |-> fs[i]]]
<1>1. Len(fs) \in Nat /\ (fs = <<>> <=> Len(fs) = 0)
  BY LenProperties, EmptySeq
<1>2. \A i \in 1 .. Len(fs) : [seg |-> seg, frame |-> fs[i]] \in EntryType
  BY ElementOfSeq DEF EntryType
<1>3. e \in Seq(EntryType) /\ Len(e) = Len(fs)
  BY <1>1, <1>2
<1>4. \A i \in 1 .. Len(fs) : e[i].seg = seg /\ e[i].frame = fs[i]
  OBVIOUS
<1> HIDE DEF e
<1>5. e = <<>> <=> Len(e) = 0
  <2> HIDE DEF EntryType
  <2> QED BY <1>3, EmptySeq
<1>6. e = <<>> <=> fs = <<>>
  BY <1>1, <1>3, <1>5
<1> QED BY <1>1, <1>3, <1>4, <1>6 DEF e

(* write_frame_locked: the open clip grows by what is accepted.            *)
LEMMA PacketWriteFoot ==
  ASSUME TypeOK, TypeOK', SerialInv, FootInv, PacketWrite
  PROVE  FootInv' /\ StoreStep
<1>0. QueueT /\ Frame \in FrameType /\ waitingKey \in BOOLEAN /\ nopened \in Nat
  BY Constants, TypeParts DEF TypeOK, Frame, LocType
<1>1. /\ muxerOpen /\ PacketReturns /\ muxerOpen' = muxerOpen /\ segFrames' = segFrames
      /\ disk' = disk /\ gone' = gone /\ nopened' = nopened /\ stagePath' = stagePath
      /\ mux' = mux /\ writing' = writing /\ writer' = writer
  BY DEF PacketWrite, flagVars, nameVars, countVars, writerVars, libVars
<1>2. QuietThreads
  BY <1>1, ReturnsQuietly
<1>3. CASE UNCHANGED queueVars
  <2>1. wq' = wq /\ cleared' = cleared /\ waitingKey' = waitingKey
    BY <1>3 DEF queueVars
  <2> QED BY <1>1, <1>2, <2>1, QuietFoot
<1>4. CASE \E fs \in OfferLive(Frame, waitingKey) : Enqueue(nopened, fs, waitingKey)
  <2>1. PICK fs \in OfferLive(Frame, waitingKey) : Enqueue(nopened, fs, waitingKey)
    BY <1>4
  <2>2. /\ fs \in Seq(FrameType) /\ \A i \in 1 .. Len(fs) : fs[i] = Frame
        /\ fs # <<>> => (waitingKey => Frame.key)
    BY <1>0, <2>1, LiveIsOne
  <2> DEFINE e == [i \in 1 .. Len(fs) |-> [seg |-> nopened, frame |-> fs[i]]]
  <2>3. wq' = wq \o e /\ cleared' = cleared /\ waitingKey' = (waitingKey /\ fs = <<>>)
    BY <2>1 DEF Enqueue
  <2>4. /\ e \in Seq(EntryType) /\ Len(e) = Len(fs) /\ Len(fs) \in Nat
        /\ \A i \in 1 .. Len(fs) : e[i].seg = nopened /\ e[i].frame = fs[i]
        /\ e = <<>> <=> fs = <<>>
    BY <1>0, <2>2, EntriesOf
  <2> HIDE DEF e
  <2>5. wq \in Seq(EntryType)
    BY DEF TypeOK
  <2>6. \A i \in 1 .. Len(wq') : wq'[i].seg = nopened
    <3> HIDE DEF EntryType
    <3>1. /\ Len(wq) \in Nat /\ Len(e) \in Nat /\ Len(wq') = Len(wq) + Len(e)
          /\ \A i \in 1 .. Len(wq) + Len(e) :
               wq'[i] = IF i <= Len(wq) THEN wq[i] ELSE e[i - Len(wq)]
      <4>1. wq \in Seq(EntryType) /\ e \in Seq(EntryType)
        BY <2>4, <2>5
      <4>2. /\ Len(wq) \in Nat /\ Len(e) \in Nat /\ Len(wq \o e) = Len(wq) + Len(e)
            /\ \A i \in 1 .. Len(wq) + Len(e) :
                 (wq \o e)[i] = IF i <= Len(wq) THEN wq[i] ELSE e[i - Len(wq)]
        BY ONLY <4>1, LenProperties, ConcatProperties
      <4>3. wq' = wq \o e
        BY <2>3
      <4> QED BY ONLY <4>2, <4>3
    <3>2. \A i \in 1 .. Len(wq) : wq[i].seg = nopened
      BY DEF FootInv, LiveContent
    <3> SUFFICES ASSUME NEW i \in 1 .. Len(wq) + Len(e) PROVE wq'[i].seg = nopened
      BY <3>1
    <3>3. CASE i <= Len(wq)
      BY <3>1, <3>2, <3>3
    <3>4. CASE ~(i <= Len(wq))
      <4>1. i - Len(wq) \in 1 .. Len(fs)
        BY <2>4, <3>1, <3>4
      <4> QED BY <2>4, <3>1, <3>4, <4>1
    <3> QED BY <3>3, <3>4
  <2>7. writer' = "write" => writing'.seg = nopened
    BY <1>1 DEF FootInv, LiveContent
  <2>8. CloserSees'
    <3>1. CloserSees
      BY DEF FootInv
    <3> QED BY <1>1, <1>2, <3>1, SeesKept
  <2>9. mux \in DOMAIN disk =>
          /\ PureFile(disk'[mux]) /\ Store!Grows(Content, Content')
          /\ Len(disk'[mux].frames) = Counted'
          /\ muxerOpen' => Content' # <<>> \/ waitingKey'
    <3> SUFFICES ASSUME mux \in DOMAIN disk
                 PROVE  /\ PureFile(disk'[mux]) /\ Store!Grows(Content, Content')
                        /\ Len(disk'[mux].frames) = Counted'
                        /\ muxerOpen' => Content' # <<>> \/ waitingKey'
      OBVIOUS
    <3>1. /\ Content \in Seq(EntryType)
          /\ disk[mux].frames \o InFlight \in Seq(EntryType)
      BY ContentType
    <3>2. Content' = Content \o e
      <4>1. InFlight' = InFlight
        BY <1>1 DEF InFlight
      <4>2. Content' = (disk[mux].frames \o InFlight) \o (wq \o e)
        BY <1>1, <2>3, <4>1 DEF Content
      <4>3. ((disk[mux].frames \o InFlight) \o wq) \o e
              = (disk[mux].frames \o InFlight) \o (wq \o e)
        <5> DEFINE before == disk[mux].frames \o InFlight
        <5>1. before \in Seq(EntryType) /\ e \in Seq(EntryType) /\ wq \in Seq(EntryType)
          BY <2>4, <2>5, <3>1
        <5> HIDE DEF EntryType, before
        <5>2. (before \o wq) \o e = before \o (wq \o e)
          BY ONLY <5>1, ConcatAssociative
        <5> QED BY <5>2 DEF before
      <4> QED BY <4>2, <4>3 DEF Content
    <3>3. Content = <<>> => waitingKey
      BY <1>1 DEF FootInv, LiveContent
    <3>4. Content = <<>> /\ e # <<>> => e[1].frame.key
      <4> SUFFICES ASSUME Content = <<>>, e # <<>> PROVE e[1].frame.key
        OBVIOUS
      <4>1. fs # <<>> /\ Frame.key
        BY <2>2, <2>4, <3>3
      <4>2. Len(fs) \in Nat \ {0}
        BY <2>2, <4>1, EmptySeq
      <4>3. 1 \in 1 .. Len(fs)
        BY <4>2
      <4> QED BY <2>2, <2>4, <4>1, <4>3
    <3>5. Content # <<>> => Content[1].frame.key
      BY LiveNow
    <3>6. Store!Grows(Content, Content \o e) /\ (Content \o e = <<>> <=> Content = <<>> /\ e = <<>>)
      BY <2>4, <3>1, <3>4, <3>5, GrowsBy
    <3>7. muxerOpen' => Content' # <<>> \/ waitingKey'
      BY <2>3, <2>4, <3>2, <3>3, <3>6
    <3>8. Counted' = Counted
      BY <1>1 DEF Counted
    <3> QED BY <1>1, <3>2, <3>6, <3>7, <3>8, LiveNow
  <2> QED BY <1>1, <2>3, <2>6, <2>7, <2>8, <2>9, LiveStep
<1> QED BY <1>3, <1>4 DEF PacketWrite

-----------------------------------------------------------------------------
(* Opening                                                                 *)

(* The files when no segment is open are whole, and no clip is open.       *)
LEMMA RestClips ==
  ASSUME SerialInv, FootInv, mux = NoStage
  PROVE  /\ FilesAt(disk, gone, nopened, stagePath)
         /\ \A n : ClipOf(n) = Ended(disk, gone, n) /\ ClipOf(n).phase # "open"
<1>1. FilesAt(disk, gone, nopened, stagePath) /\ mux \notin DOMAIN disk
  BY DEF FootInv, FilesAt
<1>2. \A n : ClipOf(n) = Ended(disk, gone, n)
  BY <1>1, NoLiveClip
<1>3. \A n : Ended(disk, gone, n).phase # "open"
  BY <1>1, EndedNotOpen
<1> QED BY <1>1, <1>2, <1>3

(* open_segment_locked, from files s that a close or nothing has left: a   *)
(* new clip that starts with a key frame, or waits for one.                *)
LEMMA OpensFoot ==
  ASSUME TypeOK, TypeOK', SerialInv, FootInv, mux = NoStage, Drained,
         NEW o, NEW s, s.stage = NoStage, FilesAt(s.disk, s.gone, nopened, NoStage),
         Survive(disk, gone, s.disk, s.gone, nopened),
         InitMuxer(o, FreshStage, now, s), writer' = writer,
         NEW fs \in Seq(FrameType), NEW waiting \in BOOLEAN,
         fs # <<>> => fs[1].key, fs # <<>> \/ waiting,
         IF o = "ok" THEN Enqueue(nopened + 1, fs, waiting) ELSE UNCHANGED queueVars,
         \A u \in Threads : pc'[u] \notin Shutting
  PROVE  FootInv' /\ StoreStep /\ FilesSurvive
<1>0. /\ nopened \in Nat /\ cleared = 0 /\ wq = <<>> /\ writer \notin {"write", "count"}
      /\ InFlight' = <<>>
  BY DrainedMeans DEF TypeOK, FootInv, InFlight
<1>1. CASE o # "ok"
  <2>1. /\ disk' = s.disk /\ gone' = s.gone /\ nopened' = nopened /\ mux' = NoStage
        /\ stagePath' = NoStage /\ wq' = <<>> /\ cleared' = 0
    BY <1>0, <1>1 DEF InitMuxer, queueVars
  <2>2. FilesAt(disk, gone, nopened, stagePath)'
    BY <2>1
  <2>3. FootInv'
    BY <1>0, <2>1, <2>2, FootAtRest
  <2>4. mux' \notin DOMAIN disk'
    BY <2>1 DEF FilesAt
  <2>5. \A n : ClipOf(n)' = Ended(disk', gone', n)
    BY <2>2, <2>4, NoLiveClipPrimed
  <2>6. \A n : ClipOf(n) = Ended(disk, gone, n)
    BY RestClips
  <2>7. \A n \in 1 .. nopened :
          ClipOf(n)' = ClipOf(n) \/ Store!Destroyed(ClipOf(n), ClipOf(n)')
    BY <2>1, <2>5, <2>6 DEF Survive
  <2>8. FilesSurvive
    BY <2>1 DEF FilesSurvive
  <2> QED BY <2>1, <2>3, <2>7, <2>8, StoreDestroys
<1>2. CASE o = "ok"
  <2>1. PICK k, name : k \in Nat /\ k = nopened + 1 /\ name = FreshStage
    BY <1>0
  <2> DEFINE file == [seg |-> nopened + 1, frames |-> <<>>, sealed |-> FALSE]
             e    == [i \in 1 .. Len(fs) |-> [seg |-> k, frame |-> fs[i]]]
  <2>2. PICK S : /\ disk' = Without(Put(s.disk, name, file), S)
                 /\ gone' = s.gone \cup SegsOf(s.disk, {name})
                              \cup SegsOf(Put(s.disk, name, file), S)
    BY <1>2, <2>1 DEF InitMuxer
  <2>3. /\ stagePath' = name /\ mux' = name /\ muxerOpen' /\ segFrames' = 0 /\ nopened' = k
    BY <1>2, <2>1 DEF InitMuxer
  <2>4. /\ wq' = e /\ cleared' = 0 /\ waitingKey' = (waiting /\ fs = <<>>)
    <3>1. wq' = <<>> \o e /\ cleared' = 0 /\ waitingKey' = (waiting /\ fs = <<>>)
      BY <1>0, <1>2, <2>1 DEF Enqueue
    <3>2. e \in Seq(EntryType)
      BY <2>1, EntriesOf
    <3> HIDE DEF e
    <3>3. <<>> \o e = e
      BY <3>2, ConcatEmptySeq
    <3> QED BY <3>1, <3>3
  <2>5. /\ e \in Seq(EntryType) /\ Len(e) = Len(fs) /\ Len(fs) \in Nat
        /\ \A i \in 1 .. Len(fs) : e[i].seg = k /\ e[i].frame = fs[i]
        /\ e = <<>> <=> fs = <<>>
    BY <2>1, EntriesOf
  <2>6. file.seg = nopened + 1 /\ file.frames = <<>> /\ name # NoStage
    BY <2>1, FreshStageIsNew
  <2> HIDE DEF e, file
  <2>7. /\ FilesAt(disk', gone', nopened + 1, name)
        /\ Survive(s.disk, s.gone, disk', gone', nopened)
        /\ name \in DOMAIN disk' => disk'[name] = file
        /\ name \notin DOMAIN disk' => nopened + 1 \in gone'
    <3>1. /\ disk' = NewDisk(s.disk, name, file, S)
          /\ gone' = NewGone(s.disk, s.gone, name, file, S)
      BY <2>2 DEF NewDisk, NewGone
    <3>2. LET d2 == NewDisk(s.disk, name, file, S)
              g2 == NewGone(s.disk, s.gone, name, file, S)
          IN  /\ FilesAt(d2, g2, nopened + 1, name)
              /\ Survive(s.disk, s.gone, d2, g2, nopened)
              /\ name \in DOMAIN d2 => d2[name] = file
              /\ name \notin DOMAIN d2 => nopened + 1 \in g2
      BY <1>0, <2>6, OpenedSurvives
    <3> QED BY <3>1, <3>2
  <2>8. FilesAt(disk, gone, nopened, stagePath)'
    BY <2>1, <2>3, <2>7
  <2>9. LiveIsNewest'
    BY <2>1, <2>3, <2>6, <2>7 DEF LiveIsNewest
  <2>10. name \in DOMAIN disk' => Content' = e /\ disk'[name].frames = <<>>
    <3> SUFFICES ASSUME name \in DOMAIN disk' PROVE Content' = e /\ disk'[name].frames = <<>>
      OBVIOUS
    <3>1. disk'[name].frames = <<>>
      BY <2>6, <2>7
    <3>2. Content' = <<>> \o <<>> \o e
      BY <1>0, <2>3, <2>4, <3>1 DEF Content
    <3>3. <<>> \o <<>> = <<>> /\ <<>> \o e = e
      <4>1. <<>> \in Seq(EntryType) /\ e \in Seq(EntryType)
        BY <2>5, ValueTypes
      <4> QED BY <4>1, ConcatEmptySeq
    <3> QED BY <3>1, <3>2, <3>3
  <2>11. e # <<>> => e[1].frame.key
    <3> SUFFICES ASSUME e # <<>> PROVE e[1].frame.key
      OBVIOUS
    <3>1. Len(fs) \in Nat \ {0}
      BY <2>5, EmptySeq
    <3>2. 1 \in 1 .. Len(fs)
      BY <3>1
    <3> QED BY <2>5, <3>2
  <2>12. LiveContent'
    <3>1. \A i \in 1 .. Len(wq') : wq'[i].seg = nopened'
      BY <2>3, <2>4, <2>5
    <3>2. writer' # "write" /\ Counted' = 0
      BY <1>0, <2>3 DEF Counted
    <3>3. ASSUME mux' \in DOMAIN disk'
          PROVE  /\ Len(disk'[mux'].frames) = Counted'
                 /\ Content' # <<>> => Content'[1].frame.key
                 /\ muxerOpen' => Content' # <<>> \/ waitingKey'
      <4>1. Content' = e /\ disk'[mux'].frames = <<>>
        BY <2>3, <2>10, <3>3
      <4>2. Len(disk'[mux'].frames) = Counted'
        BY <3>2, <4>1, ValueTypes
      <4>3. Content' # <<>> \/ waitingKey'
        BY <2>4, <2>5, <4>1
      <4> QED BY <2>11, <4>1, <4>2, <4>3
    <3> QED BY <3>1, <3>2, <3>3 DEF LiveContent
  <2>13. CloserSees'
    BY DEF CloserSees, Shutting
  <2>14. FootInv'
    BY <2>4, <2>8, <2>9, <2>12, <2>13 DEF FootInv
  <2>15. Survive(disk, gone, disk', gone', nopened)
    BY <2>7, SurviveTwice
  <2>16. \A n \in 1 .. nopened : ClipOf(n)' = Ended(disk', gone', n)
    <3>1. \A n \in 1 .. nopened : n # nopened'
      BY <1>0, <2>1, <2>3
    <3>2. CASE name \in DOMAIN disk'
      <4>1. disk'[mux'].seg = nopened'
        BY <2>1, <2>3, <2>6, <2>7, <3>2
      <4> QED BY <2>3, <2>8, <3>1, <3>2, <4>1, LiveClipPrimed
    <3>3. CASE name \notin DOMAIN disk'
      BY <2>3, <2>8, <3>3, NoLiveClipPrimed
    <3> QED BY <3>2, <3>3
  <2>17. \A n \in 1 .. nopened :
           /\ ClipOf(n).phase # "open"
           /\ ClipOf(n)' = ClipOf(n) \/ Store!Destroyed(ClipOf(n), ClipOf(n)')
    <3>1. \A n : ClipOf(n) = Ended(disk, gone, n) /\ ClipOf(n).phase # "open"
      BY RestClips
    <3> QED BY <2>15, <2>16, <3>1 DEF Survive
  <2>18. \/ ClipOf(k)'.phase = "open" /\ Store!Grows(<<>>, ClipOf(k)'.frames)
         \/ ClipOf(k)'.phase = "gone"
    <3>1. CASE name \in DOMAIN disk'
      <4>1. disk'[mux'].seg = nopened'
        BY <2>1, <2>3, <2>6, <2>7, <3>1
      <4>2. ClipOf(nopened)' = [phase |-> "open", frames |-> Content']
        BY <2>3, <2>8, <3>1, <4>1, LiveClipPrimed
      <4>3. ClipOf(k)' = [phase |-> "open", frames |-> e]
        BY <2>3, <2>10, <3>1, <4>2
      <4>4. Store!Grows(<<>>, e)
        <5>1. Len(e) \in Nat /\ Len(<<>>) = 0
          BY <2>5, ValueTypes
        <5> QED BY <2>11, <5>1 DEF Store!Grows
      <4> QED BY <4>3, <4>4
    <3>2. CASE name \notin DOMAIN disk'
      <4>1. ClipOf(k)' = Ended(disk', gone', k)
        BY <2>3, <2>8, <3>2, NoLiveClipPrimed
      <4>2. FilesAt(disk', gone', k, name) /\ k \in gone'
        BY <2>1, <2>7, <3>2
      <4>3. Ended(disk', gone', k) = [phase |-> "gone", frames |-> <<>>]
        BY <4>2, ClipOfFile DEF Ended
      <4> QED BY <4>1, <4>3
    <3> QED BY <3>1, <3>2
  <2>19. StoreStep
    BY <2>1, <2>3, <2>17, <2>18, StoreOpens
  <2>20. Ended(disk', gone', nopened + 1).frames = <<>>
    <3>1. FilesAt(disk', gone', nopened + 1, name)
      BY <2>7
    <3>2. CASE name \in DOMAIN disk'
      <4>1. disk'[name].seg = nopened + 1 /\ disk'[name].frames = <<>>
        BY <2>6, <2>7, <3>2
      <4>2. Ended(disk', gone', disk'[name].seg) =
              [phase  |-> IF disk'[name].frames = <<>> THEN "empty" ELSE "kept",
               frames |-> disk'[name].frames]
        BY <3>1, <3>2, EndedFile
      <4> QED BY <4>1, <4>2
    <3>3. CASE name \notin DOMAIN disk'
      <4>1. Ended(disk', gone', nopened + 1) = [phase |-> "gone", frames |-> <<>>]
        BY <2>7, <3>1, <3>3, ClipOfFile DEF Ended
      <4> QED BY <4>1
    <3> QED BY <3>2, <3>3
  <2>21. FilesSurvive
    BY <2>1, <2>3, <2>15, <2>20 DEF FilesSurvive
  <2> QED BY <2>14, <2>19, <2>21
<1> QED BY <1>1, <1>2

LEMMA NothingClosed ==
  ASSUME FootInv, mux = NoStage, stagePath = NoStage
  PROVE  /\ Unclosed.stage = NoStage
         /\ FilesAt(Unclosed.disk, Unclosed.gone, nopened, NoStage)
         /\ Survive(disk, gone, Unclosed.disk, Unclosed.gone, nopened)
<1>1. FilesAt(disk, gone, nopened, NoStage)
  BY DEF FootInv
<1> QED BY <1>1 DEF Unclosed, Survive

LEMMA PacketOpenFoot ==
  ASSUME TypeOK, TypeOK', SerialInv, FootInv, PacketOpen
  PROVE  FootInv' /\ StoreStep /\ FilesSurvive
<1>0. /\ pc \in [Threads -> Labels] /\ Venc \in Threads /\ QueueT /\ Frame \in FrameType
  BY Constants, TypeParts DEF TypeOK, Frame, LocType
<1>1. /\ AtPacket /\ mode = "continuous" /\ ~muxerOpen /\ PacketReturns /\ writer' = writer
  BY DEF PacketOpen, writerVars
<1>2. AtRest
  BY <1>1, PacketState DEF AtWork
<1>3. mux = NoStage /\ stagePath = NoStage /\ Drained
  BY <1>2 DEF AtRest
<1>4. PICK o \in OpenOutcomes :
        /\ InitMuxer(o, FreshStage, now, Unclosed)
        /\ IF o = "ok" THEN \E fs \in OfferLive(Frame, TRUE) : Enqueue(nopened + 1, fs, TRUE)
           ELSE UNCHANGED queueVars
  BY DEF PacketOpen
<1>5. \A u \in Threads : pc'[u] \notin Shutting
  BY <1>0, <1>1, <1>2 DEF AtRest, CloseInProgress, PacketReturns, Goto, Closing, Shutting
<1>6. PICK fs \in Seq(FrameType) :
        /\ fs # <<>> => fs[1].key
        /\ IF o = "ok" THEN Enqueue(nopened + 1, fs, TRUE) ELSE UNCHANGED queueVars
  <2>1. CASE o = "ok"
    <3>1. PICK fs \in OfferLive(Frame, TRUE) : Enqueue(nopened + 1, fs, TRUE)
      BY <1>4, <2>1
    <3>2. /\ fs \in Seq(FrameType) /\ \A i \in 1 .. Len(fs) : fs[i] = Frame
          /\ fs # <<>> => Frame.key
      BY <1>0, <3>1, LiveIsOne
    <3>3. fs # <<>> => 1 \in 1 .. Len(fs)
      BY <3>2, EmptySeq
    <3> QED BY <2>1, <3>1, <3>2, <3>3
  <2>2. CASE o # "ok"
    BY <1>4, <2>2, ValueTypes
  <2> QED BY <2>1, <2>2
<1> QED BY <1>1, <1>3, <1>4, <1>5, <1>6, NothingClosed, OpensFoot

LEMMA EventOpensFoot ==
  ASSUME SerialCallers, TypeOK, TypeOK', SerialInv, FootInv, NEW t \in Ctl, EventOpens(t)
  PROVE  FootInv' /\ StoreStep /\ FilesSurvive
<1>0. /\ pc \in [Threads -> Labels] /\ t \in Threads /\ QueueT /\ now \in Nat
      /\ ring \in Seq([frame : FrameType, wall : Nat])
  BY TypeParts DEF TypeOK, Threads, RingType
<1>1. /\ MayEnter(t) /\ op[t] \in {"motionEvent", "faceEvent"} /\ ~muxerOpen
      /\ Goto(t, "idle") /\ writer' = writer
  BY DEF EventOpens, Leave, writerVars
<1>2. ~CloseInProgress
  BY <1>1, EntersAlone
<1>3. AtRest
  <2>1. \A u \in Threads : ~ClosedBy(u)
    BY <1>2 DEF CloseInProgress, ClosedBy, Shutting, Closing
  <2> QED BY <1>1, <2>1 DEF SerialInv, AtWork
<1>4. mux = NoStage /\ stagePath = NoStage /\ Drained
  BY <1>3 DEF AtRest
<1>5. PICK o \in OpenOutcomes :
        /\ InitMuxer(o, FreshStage, now, Unclosed)
        /\ IF o = "ok"
           THEN /\ \E fs \in Offer(FlushFrames(ring, now), TRUE) :
                     Enqueue(nopened + 1, fs, TRUE)
                /\ ring' = <<>>
           ELSE UNCHANGED <<queueVars, ring>>
  BY DEF EventOpens
<1>6. \A u \in Threads : pc'[u] \notin Shutting
  BY <1>0, <1>1, <1>2 DEF CloseInProgress, Goto, Closing, Shutting
<1>7. PICK fs \in Seq(FrameType) :
        /\ fs # <<>> => fs[1].key
        /\ IF o = "ok" THEN Enqueue(nopened + 1, fs, TRUE) ELSE UNCHANGED queueVars
  <2>1. CASE o = "ok"
    <3> DEFINE flush == FlushFrames(ring, now)
    <3>1. PICK fs \in Offer(flush, TRUE) : Enqueue(nopened + 1, fs, TRUE)
      BY <1>5, <2>1
    <3>2. flush \in Seq(FrameType)
      BY <1>0, FlushTypes
    <3> HIDE DEF flush
    <3>3. /\ fs \in Seq(FrameType) /\ \A i \in 1 .. Len(fs) : fs[i] = flush[i]
          /\ fs # <<>> => flush[1].key
      BY <1>0, <3>1, <3>2, OfferIsPrefix
    <3>4. fs # <<>> => 1 \in 1 .. Len(fs)
      BY <3>3, EmptySeq
    <3> QED BY <2>1, <3>1, <3>3, <3>4
  <2>2. CASE o # "ok"
    BY <1>5, <2>2, ValueTypes
  <2> QED BY <2>1, <2>2
<1> QED BY <1>1, <1>4, <1>5, <1>6, <1>7, NothingClosed, OpensFoot

(* A key frame offered to an empty queue is accepted.                      *)
LEMMA KeyAccepted ==
  ASSUME ~AllocFails, wq = <<>>, NEW f \in FrameType, f.key, NEW waiting \in BOOLEAN
  PROVE  OfferLive(f, waiting) = {<<f>>}
<1>1. WQ_CAP \in Nat \ {0} /\ Len(wq) = 0 /\ Len(<<f>>) = 1 /\ <<f>>[1] = f /\ <<f>> # <<>>
  BY Constants, ValueTypes
<1>2. Len(<<f>>) <= WQ_CAP - Len(wq)
  BY <1>1
<1>3. Admitted(<<f>>, waiting) = SubSeq(<<f>>, 1, 1)
  BY <1>1, <1>2 DEF Admitted
<1>4. SubSeq(<<f>>, 1, 1) = <<f>>
  <2>1. <<f>> \in Seq(FrameType)
    OBVIOUS
  <2> QED BY <1>1, <2>1, SubSeqFull
<1> QED BY <1>3, <1>4 DEF OfferLive, Offer

LEMMA ReopenFoot ==
  ASSUME SoundStorage, TypeOK, TypeOK', SerialInv, FootInv, NEW t \in Threads, CloseReopen(t)
  PROVE  FootInv' /\ StoreStep /\ FilesSurvive
<1>0. pc \in [Threads -> Labels] /\ loc[t] \in LocType /\ loc[t].frame \in FrameType
  BY DEF TypeOK, LocType
<1>1. PICK p \in PromoteOutcomes, o \in OpenOutcomes :
        /\ InitMuxer(o, FreshStage, now, Closed(loc[t], p))
        /\ WriteAfterRoll(o, loc[t])
  BY DEF CloseReopen
<1>2. /\ pc[t] = "finish" /\ loc[t].roll # "no" /\ pc' = [pc EXCEPT ![t] = "idle"]
      /\ writer' = writer
  BY DEF CloseReopen, Goto, writerVars
<1>3. /\ mux = NoStage /\ Drained /\ \A u \in Threads : pc[u] \in Closing => u = t
  <2>1. ClosedBy(t)
    BY <1>2, CloserKnows DEF Closing
  <2> QED BY <1>2, <2>1 DEF ClosedBy
<1>4. \A u \in Threads : pc'[u] \notin Shutting
  BY <1>0, <1>2, <1>3 DEF Closing, Shutting
<1>5. /\ FilesAt(Closed(loc[t], p).disk, Closed(loc[t], p).gone, nopened, NoStage)
      /\ Survive(disk, gone, Closed(loc[t], p).disk, Closed(loc[t], p).gone, nopened)
      /\ Closed(loc[t], p).stage = NoStage
  BY <1>2, FinishSurvives, ClosedFlags
<1>6. PICK fs \in Seq(FrameType), waiting \in BOOLEAN :
        /\ fs # <<>> => fs[1].key
        /\ fs # <<>> \/ waiting
        /\ IF o = "ok" THEN Enqueue(nopened + 1, fs, waiting) ELSE UNCHANGED queueVars
  <2>1. CASE o = "ok"
    <3> DEFINE w == (loc[t].roll = "continuous")
    <3>1. PICK fs \in OfferLive(loc[t].frame, w) : Enqueue(nopened + 1, fs, w)
      BY <1>1, <2>1 DEF WriteAfterRoll
    <3>2. loc[t].frame.key
      BY <1>2 DEF FootInv, CloserSees, Shutting
    <3>3. w \in BOOLEAN /\ wq = <<>> /\ ~AllocFails
      BY <1>3, DrainedMeans DEF SoundStorage
    <3> HIDE DEF w
    <3>4. fs = <<loc[t].frame>>
      BY <1>0, <3>1, <3>2, <3>3, KeyAccepted
    <3>5. fs \in Seq(FrameType) /\ fs # <<>> /\ fs[1].key
      BY <1>0, <3>2, <3>4
    <3> QED BY <2>1, <3>1, <3>3, <3>5
  <2>2. CASE o # "ok"
    <3>1. UNCHANGED queueVars
      BY <1>1, <2>2 DEF WriteAfterRoll
    <3> QED BY <2>2, <3>1, ValueTypes
  <2> QED BY <2>1, <2>2
<1> QED BY <1>1, <1>2, <1>3, <1>4, <1>5, <1>6, OpensFoot

-----------------------------------------------------------------------------
(* Every step is one of the store's                                        *)

LEMMA CloseFoot ==
  ASSUME SoundStorage, SerialCallers, TypeOK, TypeOK', SerialInv, FootInv,
         NEW t \in Threads, Close(t)
  PROVE  FootInv' /\ StoreStep
<1> QED BY CloseIsOrderly, DrainFoot, MarkFoot, DeinitFoot, FinishFoot, ReopenFoot DEF Close

LEMMA OperationFoot ==
  ASSUME SerialCallers, TypeOK, TypeOK', SerialInv, FootInv, NEW t \in Ctl, Operation(t)
  PROVE  FootInv' /\ StoreStep
<1>1. CASE \/ Start(t) \/ SetRunDeadline(t) \/ EventExtends(t) \/ Extend(t) \/ StopWriter(t)
  BY <1>1, SettingFoot
<1>2. CASE Stop(t) \/ Arm(t) \/ Poll(t)
  BY <1>2, ClosingFoot
<1>3. CASE Joined(t)
  BY <1>3, JoinedFoot
<1>4. CASE EventOpens(t)
  BY <1>4, EventOpensFoot
<1> QED BY <1>1, <1>2, <1>3, <1>4 DEF Operation

LEMMA NextFoot ==
  ASSUME SoundStorage, SerialCallers
  PROVE  TypeOK /\ TypeOK' /\ SerialInv /\ FootInv /\ [Next]_vars => FootInv' /\ StoreStep
<1> SUFFICES ASSUME TypeOK, TypeOK', SerialInv, FootInv, [Next]_vars
             PROVE  FootInv' /\ StoreStep
  OBVIOUS
<1>1. CASE OnPacket
  BY <1>1, PacketPassesFoot, PacketOpenFoot, PacketWriteFoot DEF OnPacket
<1>2. ASSUME NEW t \in Threads, Close(t) PROVE FootInv' /\ StoreStep
  BY <1>2, CloseFoot
<1>3. ASSUME NEW t \in Ctl, RecordInit(t) PROVE FootInv' /\ StoreStep
  BY <1>3, InitFoot
<1>4. ASSUME NEW t \in Ctl, Operation(t) PROVE FootInv' /\ StoreStep
  BY <1>4, OperationFoot
<1>5. CASE Writer
  BY <1>5, WriterFoot
<1>6. CASE \/ \E key \in BOOLEAN : Camera(key)
           \/ \E t \in Ctl, o \in Ops \ {"init"} : Call(t, o)
           \/ Tick \/ UNCHANGED vars
  BY <1>6, OutsideFoot
<1> QED BY <1>1, <1>2, <1>3, <1>4, <1>5, <1>6 DEF Next

LEMMA InitFootInv == Init => FootInv
<1> SUFFICES ASSUME Init PROVE FootInv
  OBVIOUS
<1>1. /\ DOMAIN disk = {} /\ gone = {} /\ nopened = 0 /\ stagePath = NoStage /\ mux = NoStage
      /\ wq = <<>> /\ Len(wq) = 0 /\ writer = "off" /\ cleared = 0
      /\ \A t \in Threads : pc[t] = "idle"
  BY ValueTypes DEF Init
<1>2. FilesAt(disk, gone, nopened, stagePath)
  BY <1>1 DEF FilesAt
<1>3. LiveIsNewest
  BY <1>1 DEF LiveIsNewest
<1>4. LiveContent
  BY <1>1 DEF LiveContent
<1>5. CloserSees
  BY <1>1 DEF CloserSees, Shutting
<1> QED BY <1>1, <1>2, <1>3, <1>4, <1>5 DEF FootInv

LEMMA SpecFoot ==
  ASSUME SoundStorage, SerialCallers
  PROVE  Spec => [](TypeOK /\ QueueConserved /\ SerialInv /\ FootInv)
<1>1. Init => FootInv
  BY InitFootInv
<1>2. TypeOK /\ TypeOK' /\ SerialInv /\ FootInv /\ [Next]_vars => FootInv'
  BY NextFoot
<1> QED BY <1>1, <1>2, SpecSerial, PTL DEF Spec

(* If also frames are copied and files promoted soundly, what carries a    *)
(* final name is always a whole clip: completed by the library, not empty, *)
(* starting with a key frame and of one segment, whatever opens, closes    *)
(* and recycles files and in whichever order.                              *)
THEOREM ClipsAlwaysWhole ==
  ASSUME SoundStorage, SerialCallers
  PROVE  Spec => []ClipsWhole
<1>1. TypeOK /\ FootInv => ClipsWhole
  <2> SUFFICES ASSUME TypeOK, FootInv, NEW p \in DOMAIN disk, IsClip(p)
               PROVE  /\ disk[p].sealed
                      /\ disk[p].frames # <<>>
                      /\ disk[p].frames[1].frame.key
                      /\ \A i \in 1 .. Len(disk[p].frames) :
                           disk[p].frames[i].seg = disk[p].seg
    BY DEF ClipsWhole
  <2>1. p # stagePath
    <3>1. stagePath \in StageType
      BY DEF TypeOK
    <3>2. "kind" \notin DOMAIN stagePath
      BY <3>1 DEF StageType
    <3> QED BY <3>2 DEF IsClip
  <2>2. PureFile(disk[p]) /\ WholeFile(disk[p])
    BY <2>1 DEF FootInv, FilesAt
  <2> QED BY <2>2 DEF PureFile, WholeFile
<1> QED BY <1>1, SpecFoot, PTL

(* Under the same conditions the recorder implements the store of clips:   *)
(* each step of each thread opens a clip, lets the open one grow at its    *)
(* end, finishes it with what it has got, destroys clips, or does nothing  *)
(* that the store can see.                                                 *)
THEOREM RecorderImplementsStore ==
  ASSUME SoundStorage, SerialCallers
  PROVE  Spec => ImplementsStore
<1>1. Init => Store!Init
  <2> SUFFICES ASSUME Init PROVE Clips = <<>>
    BY DEF Store!Init, Clips
  <2>1. 1 .. nopened = {}
    BY DEF Init
  <2> QED BY <2>1 DEF Clips
<1>2. TypeOK /\ TypeOK' /\ SerialInv /\ FootInv /\ [Next]_vars => [Store!Next]_Clips
  BY NextFoot DEF StoreStep
<1> QED BY <1>1, <1>2, SpecFoot, PTL DEF Spec, ImplementsStore, Store!Spec, Clips

-----------------------------------------------------------------------------
(* Footage                                                                 *)

(* What has been written comes segment by segment, and what has been       *)
(* written for a segment is what its file has.                             *)
Footage ==
  /\ \A i \in 1 .. Len(written) : written[i].seg \in 1 .. nopened
  /\ \A i, j \in 1 .. Len(written) : i <= j => written[i].seg <= written[j].seg
  /\ \A n \in 1 .. nopened :
       LET c == Ended(disk, gone, n)
       IN  c.phase = "gone" \/ Accepted(written, n, c.frames)

(* No entry of q is of segment n.                                          *)
LEMMA NoneAccepted ==
  ASSUME NEW q \in Seq(EntryType), NEW n, \A i \in 1 .. Len(q) : q[i].seg # n
  PROVE  Accepted(q, n, <<>>)
<1>1. Len(q) \in Nat /\ Len(<<>>) = 0
  BY ValueTypes, LenProperties
<1>2. 0 \in 0 .. Len(q) - Len(<<>>)
  BY <1>1
<1>3. \A i \in 1 .. Len(<<>>) : FALSE
  BY <1>1
<1>4. \A i : i \notin 0 + 1 .. 0 + Len(<<>>)
  BY <1>1
<1> QED BY <1>2, <1>3, <1>4 DEF Accepted

(* Entries of other segments change nothing for this one.                  *)
LEMMA AcceptedOthers ==
  ASSUME NEW q \in Seq(EntryType), NEW t \in Seq(EntryType), NEW n,
         NEW fs, Len(fs) \in Nat, Accepted(q, n, fs),
         \A i \in 1 .. Len(t) : t[i].seg # n
  PROVE  Accepted(q \o t, n, fs)
<1> HIDE DEF EntryType
<1>1. /\ Len(q) \in Nat /\ Len(t) \in Nat /\ Len(q \o t) = Len(q) + Len(t)
      /\ \A i \in 1 .. Len(q) + Len(t) :
           (q \o t)[i] = IF i <= Len(q) THEN q[i] ELSE t[i - Len(q)]
  BY LenProperties, ConcatProperties
<1> DEFINE qt == q \o t
<1>2. PICK k \in 0 .. Len(q) - Len(fs) :
        /\ \A i \in 1 .. Len(fs) : fs[i] = q[k + i]
        /\ \A i \in 1 .. Len(q) : q[i].seg = n <=> i \in k + 1 .. k + Len(fs)
  BY DEF Accepted
<1>3. /\ Len(qt) = Len(q) + Len(t)
      /\ \A i \in 1 .. Len(q) : qt[i] = q[i]
      /\ \A i \in 1 .. Len(qt) : i \notin 1 .. Len(q) =>
           qt[i] = t[i - Len(q)] /\ i - Len(q) \in 1 .. Len(t)
  BY <1>1
<1> HIDE DEF qt
<1>4. k \in 0 .. Len(qt) - Len(fs)
  BY <1>1, <1>2, <1>3
<1>5. \A i \in 1 .. Len(fs) : fs[i] = qt[k + i]
  <2> SUFFICES ASSUME NEW i \in 1 .. Len(fs) PROVE fs[i] = qt[k + i]
    OBVIOUS
  <2>1. k + i \in 1 .. Len(q)
    BY <1>1, <1>2
  <2> QED BY <1>2, <1>3, <2>1
<1>6. \A i \in 1 .. Len(qt) : qt[i].seg = n <=> i \in k + 1 .. k + Len(fs)
  <2> SUFFICES ASSUME NEW i \in 1 .. Len(qt)
               PROVE  qt[i].seg = n <=> i \in k + 1 .. k + Len(fs)
    OBVIOUS
  <2>1. CASE i \in 1 .. Len(q)
    BY <1>2, <1>3, <2>1
  <2>2. CASE i \notin 1 .. Len(q)
    <3>1. qt[i].seg # n
      BY <1>3, <2>2
    <3>2. i \notin k + 1 .. k + Len(fs)
      BY <1>1, <1>2, <1>3, <2>2
    <3> QED BY <3>1, <3>2
  <2> QED BY <2>1, <2>2
<1>7. Accepted(qt, n, fs)
  BY <1>4, <1>5, <1>6 DEF Accepted
<1> QED BY <1>7 DEF qt

(* Entries of the newest segment continue what it has.                     *)
LEMMA AcceptedMore ==
  ASSUME NEW q \in Seq(EntryType), NEW t \in Seq(EntryType), NEW fs \in Seq(EntryType),
         NEW n \in Nat, Accepted(q, n, fs),
         \A i \in 1 .. Len(q) : q[i].seg \in 1 .. n,
         \A i, j \in 1 .. Len(q) : i <= j => q[i].seg <= q[j].seg,
         \A i \in 1 .. Len(t) : t[i].seg = n
  PROVE  Accepted(q \o t, n, fs \o t)
<1> DEFINE qt == q \o t
           ft == fs \o t
<1>0. /\ Len(q) \in Nat /\ Len(t) \in Nat /\ Len(fs) \in Nat
      /\ Len(qt) = Len(q) + Len(t) /\ Len(ft) = Len(fs) + Len(t)
      /\ \A i \in 1 .. Len(q) + Len(t) : qt[i] = IF i <= Len(q) THEN q[i] ELSE t[i - Len(q)]
      /\ \A i \in 1 .. Len(fs) + Len(t) :
           ft[i] = IF i <= Len(fs) THEN fs[i] ELSE t[i - Len(fs)]
  <2> HIDE DEF EntryType
  <2> QED BY LenProperties, ConcatProperties
<1>1. /\ \A i \in 1 .. Len(q) : qt[i] = q[i]
      /\ \A i \in 1 .. Len(t) : qt[Len(q) + i] = t[i]
      /\ \A i \in 1 .. Len(fs) : ft[i] = fs[i]
      /\ \A i \in 1 .. Len(t) : ft[Len(fs) + i] = t[i]
  <2>1. \A i \in 1 .. Len(t) : /\ Len(q) + i \in 1 .. Len(q) + Len(t)
                               /\ ~(Len(q) + i <= Len(q)) /\ (Len(q) + i) - Len(q) = i
                               /\ Len(fs) + i \in 1 .. Len(fs) + Len(t)
                               /\ ~(Len(fs) + i <= Len(fs)) /\ (Len(fs) + i) - Len(fs) = i
    BY <1>0
  <2>2. /\ \A i \in 1 .. Len(q) : i \in 1 .. Len(q) + Len(t) /\ i <= Len(q)
        /\ \A i \in 1 .. Len(fs) : i \in 1 .. Len(fs) + Len(t) /\ i <= Len(fs)
    BY <1>0
  <2> HIDE DEF qt, ft
  <2> QED BY <1>0, <2>1, <2>2
<1> HIDE DEF qt, ft
<1>2. PICK k0 \in 0 .. Len(q) - Len(fs) :
        /\ \A i \in 1 .. Len(fs) : fs[i] = q[k0 + i]
        /\ \A i \in 1 .. Len(q) : q[i].seg = n <=> i \in k0 + 1 .. k0 + Len(fs)
  BY DEF Accepted
<1> DEFINE k == Len(q) - Len(fs)
<1>3. /\ k \in Nat /\ k + Len(fs) = Len(q) /\ k \in 0 .. Len(qt) - Len(ft)
      /\ k + Len(ft) = Len(qt)
  BY <1>0, <1>2
<1>4. Len(fs) = 0 \/ k = k0
  <2> SUFFICES ASSUME Len(fs) # 0, k0 + Len(fs) # Len(q) PROVE FALSE
    BY <1>0, <1>2
  <2>1. k0 + Len(fs) \in 1 .. Len(q) /\ k0 + Len(fs) \in k0 + 1 .. k0 + Len(fs)
    BY <1>0, <1>2
  <2>2. Len(q) \in 1 .. Len(q) /\ k0 + Len(fs) <= Len(q) /\ Len(q) \notin k0 + 1 .. k0 + Len(fs)
    BY <1>0, <1>2
  <2>3. q[k0 + Len(fs)].seg = n
    BY <1>2, <2>1
  <2>4. q[Len(q)].seg # n /\ q[Len(q)].seg \in 1 .. n
    BY <1>2, <2>2
  <2>5. n <= q[Len(q)].seg
    BY <2>1, <2>2, <2>3
  <2> QED BY <2>4, <2>5
<1>5. /\ \A i \in 1 .. Len(fs) : fs[i] = q[k + i]
      /\ \A i \in 1 .. Len(q) : q[i].seg = n <=> i \in k + 1 .. Len(q)
  <2>1. CASE k = k0
    BY <1>2, <1>3, <2>1
  <2>2. CASE Len(fs) = 0
    <3>1. /\ \A i \in 1 .. Len(q) : i \notin k0 + 1 .. k0 + Len(fs)
          /\ \A i \in 1 .. Len(q) : i \notin k + 1 .. Len(q)
      BY <1>0, <1>2, <2>2
    <3> QED BY <1>2, <2>2, <3>1
  <2> QED BY <1>4, <2>1, <2>2
<1> HIDE DEF k
<1>6. \A i \in 1 .. Len(ft) : ft[i] = qt[k + i]
  <2> SUFFICES ASSUME NEW i \in 1 .. Len(ft) PROVE ft[i] = qt[k + i]
    OBVIOUS
  <2>1. CASE i \in 1 .. Len(fs)
    <3>1. k + i \in 1 .. Len(q)
      BY <1>0, <1>3, <2>1
    <3> QED BY <1>1, <1>5, <2>1, <3>1
  <2>2. CASE i \notin 1 .. Len(fs)
    <3>1. PICK j \in 1 .. Len(t) : i = Len(fs) + j /\ k + i = Len(q) + j
      <4>1. /\ i \in 1 .. Len(fs) + Len(t) /\ i \notin 1 .. Len(fs)
            /\ Len(fs) \in Nat /\ Len(t) \in Nat /\ Len(q) \in Nat /\ k \in Nat
            /\ k + Len(fs) = Len(q)
        BY <1>0, <1>3, <2>2
      <4>2. i - Len(fs) \in 1 .. Len(t) /\ i = Len(fs) + (i - Len(fs))
        BY ONLY <4>1
      <4>3. k + i = Len(q) + (i - Len(fs))
        BY ONLY <4>1
      <4> QED BY <4>2, <4>3
    <3> QED BY <1>1, <3>1
  <2> QED BY <2>1, <2>2
<1>7. \A i \in 1 .. Len(qt) : qt[i].seg = n <=> i \in k + 1 .. k + Len(ft)
  <2> SUFFICES ASSUME NEW i \in 1 .. Len(qt)
               PROVE  qt[i].seg = n <=> i \in k + 1 .. k + Len(ft)
    OBVIOUS
  <2>1. CASE i \in 1 .. Len(q)
    <3>1. i \in k + 1 .. k + Len(ft) <=> i \in k + 1 .. Len(q)
      BY <1>0, <1>3, <2>1
    <3> QED BY <1>1, <1>5, <2>1, <3>1
  <2>2. CASE i \notin 1 .. Len(q)
    <3>1. PICK j \in 1 .. Len(t) : i = Len(q) + j
      <4>1. i - Len(q) \in 1 .. Len(t) /\ i = Len(q) + (i - Len(q))
        BY <1>0, <2>2
      <4> QED BY <4>1
    <3>2. qt[i].seg = n
      BY <1>1, <3>1
    <3>3. i \in k + 1 .. k + Len(ft)
      BY <1>0, <1>3, <2>2
    <3> QED BY <3>2, <3>3
  <2> QED BY <2>1, <2>2
<1>8. Accepted(qt, n, ft)
  BY <1>3, <1>6, <1>7 DEF Accepted
<1> QED BY <1>8 DEF qt, ft

(* A step of anyone but the writer writes nothing.                         *)
LEMMA FootageStays ==
  ASSUME TypeOK, Footage, FilesSurvive, written' = written
  PROVE  Footage'
<1>0. nopened \in Nat /\ written \in Seq(EntryType)
  BY DEF TypeOK
<1>1. /\ \A n \in 1 .. nopened : n \in 1 .. nopened'
      /\ \A n \in 1 .. nopened' : n \in 1 .. nopened \/ (nopened' # nopened /\ n = nopened + 1)
  <2>1. nopened' = nopened \/ nopened' = nopened + 1
    BY DEF FilesSurvive
  <2>2. /\ \A n \in 1 .. nopened : n \in 1 .. nopened + 1
        /\ \A n \in 1 .. nopened + 1 : n \in 1 .. nopened \/ n = nopened + 1
        /\ nopened # nopened + 1
    BY <1>0
  <2>3. CASE nopened' = nopened + 1
    BY <2>2, <2>3
  <2> QED BY <2>1, <2>3
<1>2. /\ \A i \in 1 .. Len(written) : written[i].seg \in 1 .. nopened
      /\ \A i, j \in 1 .. Len(written) : i <= j => written[i].seg <= written[j].seg
  BY DEF Footage
<1>3. ASSUME NEW n \in 1 .. nopened'
      PROVE  \/ Ended(disk', gone', n).phase = "gone"
             \/ Accepted(written, n, Ended(disk', gone', n).frames)
  <2>1. CASE n \in 1 .. nopened
    <3>1. \/ Ended(disk', gone', n) = Ended(disk, gone, n)
          \/ Store!Destroyed(Ended(disk, gone, n), Ended(disk', gone', n))
      BY <2>1 DEF FilesSurvive, Survive
    <3>2. Store!Destroyed(Ended(disk, gone, n), Ended(disk', gone', n))
            => Ended(disk', gone', n).phase = "gone"
      BY DEF Store!Destroyed
    <3>3. \/ Ended(disk, gone, n).phase = "gone"
          \/ Accepted(written, n, Ended(disk, gone, n).frames)
      BY <2>1 DEF Footage
    <3> QED BY <3>1, <3>2, <3>3
  <2>2. CASE nopened' # nopened /\ n = nopened + 1
    <3>1. Ended(disk', gone', n).frames = <<>>
      BY <2>2 DEF FilesSurvive
    <3>2. Accepted(written, n, <<>>)
      <4>1. n \notin 1 .. nopened
        BY <1>0, <2>2
      <4>2. \A i \in 1 .. Len(written) : written[i].seg # n
        BY <1>2, <4>1
      <4> QED BY <1>0, <4>2, NoneAccepted
    <3> QED BY <3>1, <3>2
  <2> QED BY <1>1, <2>1, <2>2
<1>4. \A i \in 1 .. Len(written) : written[i].seg \in 1 .. nopened'
  BY <1>1, <1>2
<1>5. (\A n \in 1 .. nopened :
         LET c == Ended(disk, gone, n)
         IN  c.phase = "gone" \/ Accepted(written, n, c.frames))'
  BY <1>3
<1> QED BY <1>2, <1>4, <1>5 DEF Footage

(* Files that are left alone survive.                                      *)
LEMMA SameFilesSurvive ==
  ASSUME disk' = disk, gone' = gone, nopened' = nopened
  PROVE  FilesSurvive
BY DEF FilesSurvive, Survive

(* There is a newest segment for what the writer writes.                   *)
LEMMA SomeSegment ==
  ASSUME TypeOK, SerialInv, FootInv, mux # NoStage
  PROVE  /\ nopened \in 1 .. nopened
         /\ IF mux \in DOMAIN disk THEN disk[mux].seg = nopened ELSE nopened \in gone
<1>1. mux = stagePath
  BY LiveFile
<1>2. IF mux \in DOMAIN disk THEN disk[mux].seg = nopened ELSE nopened \in gone
  BY <1>1 DEF FootInv, LiveIsNewest
<1>3. nopened \in 1 .. nopened
  BY <1>2 DEF FootInv, FilesAt
<1> QED BY <1>2, <1>3

(* What a clip has is a sequence.                                          *)
LEMMA EndedLen ==
  ASSUME TypeOK, NEW k, NEW live, FilesAt(disk, gone, k, live), NEW n
  PROVE  Len(Ended(disk, gone, n).frames) \in Nat
<1>1. CASE n \in gone \/ \A p \in DOMAIN disk : disk[p].seg # n
  <2>1. Ended(disk, gone, n).frames = <<>>
    BY <1>1, ClipOfFile DEF Ended
  <2> QED BY <2>1, ValueTypes
<1>2. ASSUME NEW p \in DOMAIN disk, disk[p].seg = n
      PROVE  Len(Ended(disk, gone, n).frames) \in Nat
  <2>1. Ended(disk, gone, disk[p].seg) =
          [phase  |-> IF disk[p].frames = <<>> THEN "empty" ELSE "kept",
           frames |-> disk[p].frames]
    BY EndedFile
  <2>2. Ended(disk, gone, n).frames = disk[p].frames
    BY <1>2, <2>1
  <2> QED BY <2>2, OpenFileType
<1> QED BY <1>1, <1>2

(* The writer adds a frame to the newest segment's file.                   *)
LEMMA WriteFootage ==
  ASSUME TypeOK, TypeOK', SerialInv, FootInv, FootInv', Footage, WriterWrite
  PROVE  Footage'
<1>1. /\ writer = "write" /\ written' = Append(written, writing)
      /\ gone' = gone /\ nopened' = nopened
      /\ disk' = IF mux \in DOMAIN disk
                 THEN [disk EXCEPT ![mux].frames = Append(@, writing)] ELSE disk
  BY DEF WriterWrite
<1>2. /\ writing \in EntryType /\ written \in Seq(EntryType) /\ nopened \in Nat
      /\ writing.seg = nopened
  BY <1>1 DEF TypeOK, FootInv, LiveContent
<1>3. mux # NoStage
  BY <1>1, SerialAgrees DEF MuxAgrees
<1>4. /\ nopened \in 1 .. nopened
      /\ IF mux \in DOMAIN disk THEN disk[mux].seg = nopened ELSE nopened \in gone
  BY <1>3, SomeSegment
<1>5. /\ FilesAt(disk, gone, nopened, stagePath)
      /\ FilesAt(disk', gone, nopened, stagePath')
  <2>1. FilesAt(disk', gone', nopened', stagePath')
    BY DEF FootInv
  <2> QED BY <1>1, <2>1 DEF FootInv
<1>6. /\ DOMAIN disk' = DOMAIN disk
      /\ \A p \in DOMAIN disk : p # mux => disk'[p] = disk[p]
      /\ \A p \in DOMAIN disk : disk'[p].seg = disk[p].seg
      /\ mux \in DOMAIN disk => disk'[mux].frames = Append(disk[mux].frames, writing)
  <2>1. CASE mux \notin DOMAIN disk
    BY <1>1, <2>1
  <2>2. CASE mux \in DOMAIN disk
    <3>1. disk[mux] \in FileType
      BY <2>2 DEF TypeOK, DiskOK
    <3>2. /\ DOMAIN disk' = DOMAIN disk
          /\ \A p \in DOMAIN disk : p # mux => disk'[p] = disk[p]
          /\ disk'[mux] = [disk[mux] EXCEPT !.frames = Append(disk[mux].frames, writing)]
      BY <1>1, <2>2
    <3>3. /\ disk'[mux].seg = disk[mux].seg
          /\ disk'[mux].frames = Append(disk[mux].frames, writing)
      BY <3>1, <3>2 DEF FileType
    <3> QED BY <3>2, <3>3
  <2> QED BY <2>1, <2>2
<1>7. /\ written' = written \o <<writing>> /\ <<writing>> \in Seq(EntryType)
      /\ \A i \in 1 .. Len(<<writing>>) : <<writing>>[i] = writing
      /\ Len(written) \in Nat /\ Len(written') = Len(written) + 1
      /\ \A i \in 1 .. Len(written) : written'[i] = written[i]
      /\ written'[Len(written) + 1] = writing
      /\ \A i \in 1 .. Len(written') : i \in 1 .. Len(written) \/ i = Len(written) + 1
  <2>1. /\ Append(written, writing) = written \o <<writing>>
        /\ Len(Append(written, writing)) = Len(written) + 1
        /\ \A i \in 1 .. Len(written) : Append(written, writing)[i] = written[i]
        /\ Append(written, writing)[Len(written) + 1] = writing
        /\ Len(written) \in Nat
    <3> HIDE DEF EntryType
    <3> QED BY <1>2, AppendProperties, AppendIsConcat, LenProperties
  <2>2. <<writing>> \in Seq(EntryType) /\ Len(<<writing>>) = 1 /\ <<writing>>[1] = writing
    <3> HIDE DEF EntryType
    <3> QED BY <1>2
  <2>3. \A i \in 1 .. Len(<<writing>>) : i = 1
    BY <2>2
  <2>4. \A i \in 1 .. Len(written) + 1 : i \in 1 .. Len(written) \/ i = Len(written) + 1
    BY <2>1
  <2> QED BY <1>1, <2>1, <2>2, <2>3, <2>4
<1>8. /\ \A i \in 1 .. Len(written) : written[i].seg \in 1 .. nopened
      /\ \A i, j \in 1 .. Len(written) : i <= j => written[i].seg <= written[j].seg
      /\ \A n \in 1 .. nopened :
           \/ Ended(disk, gone, n).phase = "gone"
           \/ Accepted(written, n, Ended(disk, gone, n).frames)
  BY DEF Footage
<1>9. \A i \in 1 .. Len(written') : written'[i].seg \in 1 .. nopened
  BY <1>2, <1>4, <1>7, <1>8
<1>10. \A i, j \in 1 .. Len(written') : i <= j => written'[i].seg <= written'[j].seg
  <2> SUFFICES ASSUME NEW i \in 1 .. Len(written'), NEW j \in 1 .. Len(written'), i <= j
               PROVE  written'[i].seg <= written'[j].seg
    OBVIOUS
  <2>1. CASE j = Len(written) + 1
    <3>1. written'[j].seg = nopened /\ written'[i].seg \in 1 .. nopened
      BY <1>2, <1>7, <1>9, <2>1
    <3> QED BY <1>2, <3>1
  <2>2. CASE j \in 1 .. Len(written)
    <3>1. i \in 1 .. Len(written)
      BY <1>7, <2>2
    <3> QED BY <1>7, <1>8, <2>2, <3>1
  <2> QED BY <1>7, <2>1, <2>2
<1>11. ASSUME NEW n \in 1 .. nopened
       PROVE  \/ Ended(disk', gone, n).phase = "gone"
              \/ Accepted(written \o <<writing>>, n, Ended(disk', gone, n).frames)
  <2>1. CASE n # nopened
    <3>1. Ended(disk', gone, n) = Ended(disk, gone, n)
      <4>1. \A p \in DOMAIN disk : disk[p].seg = n => disk'[p].frames = disk[p].frames
        <5> SUFFICES ASSUME NEW p \in DOMAIN disk, disk[p].seg = n
                     PROVE  disk'[p].frames = disk[p].frames
          OBVIOUS
        <5>1. p # mux
          BY <1>4, <2>1
        <5> QED BY <1>6, <5>1
      <4> QED BY <1>5, <1>6, <4>1, EndedSame
    <3>2. ASSUME Ended(disk, gone, n).phase # "gone"
          PROVE  Accepted(written \o <<writing>>, n, Ended(disk, gone, n).frames)
      <4> DEFINE fs == Ended(disk, gone, n).frames
      <4>1. Accepted(written, n, fs)
        BY <1>8, <3>2
      <4>2. Len(fs) \in Nat
        BY <1>5, EndedLen
      <4>3. \A i \in 1 .. Len(<<writing>>) : <<writing>>[i].seg # n
        BY <1>2, <1>7, <2>1
      <4> HIDE DEF fs
      <4>4. Accepted(written \o <<writing>>, n, fs)
        BY <1>2, <1>7, <4>1, <4>2, <4>3, AcceptedOthers
      <4> QED BY <4>4 DEF fs
    <3> QED BY <3>1, <3>2
  <2>2. CASE n = nopened /\ mux \notin DOMAIN disk
    <3>1. Ended(disk', gone, n) = [phase |-> "gone", frames |-> <<>>]
      BY <1>4, <1>5, <2>2, ClipOfFile DEF Ended
    <3> QED BY <3>1
  <2>3. CASE n = nopened /\ mux \in DOMAIN disk
    <3> DEFINE f == disk[mux].frames
    <3>1. f \in Seq(EntryType)
      BY <2>3, OpenFileType
    <3>2. Ended(disk, gone, n) = [phase |-> IF f = <<>> THEN "empty" ELSE "kept", frames |-> f]
      <4>1. Ended(disk, gone, disk[mux].seg) =
              [phase |-> IF f = <<>> THEN "empty" ELSE "kept", frames |-> f]
        BY <1>5, <2>3, EndedFile
      <4> QED BY <1>4, <2>3, <4>1
    <3>3. Ended(disk', gone, n).frames = disk'[mux].frames
      <4>1. Ended(disk', gone, disk'[mux].seg) =
              [phase  |-> IF disk'[mux].frames = <<>> THEN "empty" ELSE "kept",
               frames |-> disk'[mux].frames]
        BY <1>5, <1>6, <2>3, EndedFile
      <4>2. disk'[mux].seg = n
        BY <1>4, <1>6, <2>3
      <4> QED BY <4>1, <4>2
    <3>4. disk'[mux].frames = f \o <<writing>>
      <4> HIDE DEF EntryType, f
      <4>1. Append(f, writing) = f \o <<writing>>
        BY <1>2, <3>1, AppendIsConcat
      <4> QED BY <1>6, <2>3, <4>1 DEF f
    <3> HIDE DEF f
    <3>5. Accepted(written, n, f)
      BY <1>8, <3>2
    <3>6. \A i \in 1 .. Len(<<writing>>) : <<writing>>[i].seg = n
      BY <1>2, <1>7, <2>3
    <3>7. \A i \in 1 .. Len(written) : written[i].seg \in 1 .. n
      BY <1>8, <2>3
    <3>8. Accepted(written \o <<writing>>, n, f \o <<writing>>)
      <4>1. /\ written \in Seq(EntryType) /\ <<writing>> \in Seq(EntryType)
            /\ f \in Seq(EntryType) /\ n \in Nat
        BY <1>2, <1>7, <2>3, <3>1
      <4>2. \A i, j \in 1 .. Len(written) : i <= j => written[i].seg <= written[j].seg
        BY <1>8
      <4> DEFINE one == <<writing>>
      <4>3. one \in Seq(EntryType) /\ \A i \in 1 .. Len(one) : one[i].seg = n
        BY <3>6, <4>1
      <4> HIDE DEF one, EntryType
      <4>4. Accepted(written \o one, n, f \o one)
        BY ONLY <3>5, <3>7, <4>1, <4>2, <4>3, AcceptedMore
      <4> QED BY <4>4 DEF one
    <3> QED BY <3>3, <3>4, <3>8
  <2> QED BY <2>1, <2>2, <2>3
<1>12. (\A n \in 1 .. nopened :
          LET c == Ended(disk, gone, n)
          IN  c.phase = "gone" \/ Accepted(written, n, c.frames))'
  BY <1>1, <1>7, <1>11
<1>13. \A i \in 1 .. Len(written') : written'[i].seg \in 1 .. nopened'
  BY <1>1, <1>9
<1> QED BY <1>10, <1>12, <1>13 DEF Footage

LEMMA PacketFootage ==
  ASSUME TypeOK, TypeOK', SerialInv, FootInv, Footage, OnPacket
  PROVE  Footage'
<1>1. written' = written
  BY DEF OnPacket, PacketIgnored, PacketRunOver, PacketOpen, PacketRoll, PacketWrite,
     PacketQuiet, PacketBuffered, writerVars
<1>2. CASE PacketOpen
  BY <1>1, <1>2, PacketOpenFoot, FootageStays
<1>3. CASE ~PacketOpen
  <2>1. disk' = disk /\ gone' = gone /\ nopened' = nopened
    BY <1>3 DEF OnPacket, PacketIgnored, PacketRunOver, PacketRoll, PacketWrite,
       PacketQuiet, PacketBuffered, BeginClose, libVars
  <2> QED BY <1>1, <2>1, SameFilesSurvive, FootageStays
<1> QED BY <1>2, <1>3

LEMMA CloseFootage ==
  ASSUME SoundStorage, SerialCallers, TypeOK, TypeOK', SerialInv, FootInv, Footage,
         NEW t \in Threads, Close(t)
  PROVE  Footage'
<1>1. DrainDone(t) \/ CloseMark(t) \/ MuxDeinit(t) \/ CloseFinish(t) \/ CloseReopen(t)
  BY CloseIsOrderly DEF Close
<1>2. written' = written
  BY <1>1 DEF DrainDone, CloseMark, MuxDeinit, CloseFinish, CloseReopen, writerVars
<1>3. CASE DrainDone(t) \/ CloseMark(t)
  <2>1. disk' = disk /\ gone' = gone /\ nopened' = nopened
    BY <1>3 DEF DrainDone, CloseMark, libVars
  <2> QED BY <1>2, <2>1, SameFilesSurvive, FootageStays
<1>4. CASE MuxDeinit(t) \/ CloseFinish(t) \/ CloseReopen(t)
  <2>1. FilesSurvive
    BY <1>4, DeinitFoot, FinishFoot, ReopenFoot
  <2> QED BY <1>2, <2>1, FootageStays
<1> QED BY <1>1, <1>3, <1>4

LEMMA CallFootage ==
  ASSUME SerialCallers, TypeOK, TypeOK', SerialInv, FootInv, Footage,
         NEW t \in Ctl, RecordInit(t) \/ Operation(t)
  PROVE  Footage'
<1>1. CASE EventOpens(t)
  <2>1. written' = written
    BY <1>1 DEF EventOpens, writerVars
  <2> QED BY <1>1, <2>1, EventOpensFoot, FootageStays
<1>2. CASE RecordInit(t)
  <2>1. written' = written
    BY <1>2 DEF RecordInit
  <2> QED BY <1>2, <2>1, InitFoot, FootageStays
<1>3. CASE \/ Start(t) \/ SetRunDeadline(t) \/ Stop(t) \/ StopWriter(t)
           \/ Joined(t) \/ Arm(t) \/ EventExtends(t) \/ Poll(t) \/ Extend(t)
  <2>1. written' = written /\ disk' = disk /\ gone' = gone /\ nopened' = nopened
    <3>1. CASE Start(t) \/ SetRunDeadline(t) \/ EventExtends(t) \/ Extend(t) \/ StopWriter(t)
      BY <3>1 DEF Start, SetRunDeadline, EventExtends, Extend, StopWriter, libVars, writerVars
    <3>2. CASE Joined(t) \/ Stop(t) \/ Arm(t) \/ Poll(t)
      BY <3>2 DEF Joined, Stop, Arm, Poll, BeginClose, libVars, writerVars
    <3> QED BY <1>3, <3>1, <3>2
  <2> QED BY <2>1, SameFilesSurvive, FootageStays
<1> QED BY <1>1, <1>2, <1>3 DEF Operation

LEMMA NextFootage ==
  ASSUME SoundStorage, SerialCallers
  PROVE  /\ TypeOK /\ TypeOK' /\ SerialInv /\ FootInv /\ FootInv' /\ Footage /\ [Next]_vars
         => Footage'
<1> SUFFICES ASSUME TypeOK, TypeOK', SerialInv, FootInv, FootInv', Footage, [Next]_vars
             PROVE  Footage'
  OBVIOUS
<1>1. CASE OnPacket
  BY <1>1, PacketFootage
<1>2. ASSUME NEW t \in Threads, Close(t) PROVE Footage'
  BY <1>2, CloseFootage
<1>3. ASSUME NEW t \in Ctl, RecordInit(t) \/ Operation(t) PROVE Footage'
  BY <1>3, CallFootage
<1>4. CASE Writer
  <2>1. CASE WriterWrite
    BY <2>1, WriteFootage
  <2>2. CASE WriterTake \/ WriterCount \/ WriterExit
    <3>1. written' = written /\ disk' = disk /\ gone' = gone /\ nopened' = nopened
      BY <2>2 DEF WriterTake, WriterCount, WriterExit, libVars
    <3> QED BY <3>1, SameFilesSurvive, FootageStays
  <2> QED BY <1>4, <2>1, <2>2 DEF Writer
<1>5. CASE \/ \E key \in BOOLEAN : Camera(key)
           \/ \E t \in Ctl, o \in Ops \ {"init"} : Call(t, o)
           \/ Tick \/ UNCHANGED vars
  <2>1. written' = written /\ disk' = disk /\ gone' = gone /\ nopened' = nopened
    BY <1>5 DEF Camera, Call, Tick, vars, libVars, writerVars
  <2> QED BY <2>1, SameFilesSurvive, FootageStays
<1> QED BY <1>1, <1>2, <1>3, <1>4, <1>5 DEF Next

LEMMA SpecFootage ==
  ASSUME SoundStorage, SerialCallers
  PROVE  Spec => [](TypeOK /\ QueueConserved /\ SerialInv /\ FootInv /\ Footage)
<1>1. Init => Footage
  <2> SUFFICES ASSUME Init PROVE Footage
    OBVIOUS
  <2>1. Len(written) = 0 /\ nopened = 0
    BY ValueTypes DEF Init
  <2>2. 1 .. Len(written) = {} /\ 1 .. nopened = {}
    BY <2>1
  <2> QED BY <2>2 DEF Footage
<1>2. TypeOK /\ TypeOK' /\ SerialInv /\ FootInv /\ FootInv' /\ Footage /\ [Next]_vars
        => Footage'
  BY NextFootage
<1> QED BY <1>1, <1>2, SpecFoot, PTL DEF Spec

(* What is on its way to a file is of the newest segment, and the newest   *)
(* segment's file is the open one.                                         *)
LEMMA OnItsWay ==
  ASSUME TypeOK, SerialInv, FootInv
  PROVE  LET way == InFlight \o wq
         IN  /\ way \in Seq(EntryType)
             /\ \A i \in 1 .. Len(way) : way[i].seg = nopened
             /\ way # <<>> => mux # NoStage
<1> DEFINE way == InFlight \o wq
<1>0. InFlight \in Seq(EntryType) /\ wq \in Seq(EntryType)
  BY InFlightType, TypeParts DEF TypeOK
<1>1. /\ Len(InFlight) \in Nat /\ Len(wq) \in Nat /\ Len(way) = Len(InFlight) + Len(wq)
      /\ way \in Seq(EntryType)
      /\ \A i \in 1 .. Len(InFlight) + Len(wq) :
           way[i] = IF i <= Len(InFlight) THEN InFlight[i] ELSE wq[i - Len(InFlight)]
  <2> HIDE DEF EntryType, InFlight
  <2> QED BY <1>0, LenProperties, ConcatProperties
<1> SUFFICES /\ way \in Seq(EntryType)
             /\ \A i \in 1 .. Len(way) : way[i].seg = nopened
             /\ way # <<>> => mux # NoStage
  OBVIOUS
<1> HIDE DEF way
<1>2. \A i \in 1 .. Len(InFlight) : InFlight[i].seg = nopened
  <2>1. CASE writer = "write"
    <3>1. InFlight = <<writing>> /\ writing.seg = nopened
      BY <2>1 DEF InFlight, FootInv, LiveContent
    <3>2. Len(<<writing>>) = 1 /\ <<writing>>[1] = writing
      OBVIOUS
    <3>3. \A i \in 1 .. Len(InFlight) : i = 1
      BY <3>1, <3>2
    <3> QED BY <3>1, <3>2, <3>3
  <2>2. CASE writer # "write"
    <3>1. Len(InFlight) = 0
      BY <2>2, ValueTypes DEF InFlight
    <3>2. 1 .. Len(InFlight) = {}
      BY <3>1
    <3> QED BY <3>2
  <2> QED BY <2>1, <2>2
<1>3. \A i \in 1 .. Len(wq) : wq[i].seg = nopened
  BY DEF FootInv, LiveContent
<1>4. ASSUME NEW i \in 1 .. Len(way) PROVE way[i].seg = nopened
  <2>1. CASE i <= Len(InFlight)
    <3>1. i \in 1 .. Len(InFlight) /\ way[i] = InFlight[i]
      BY <1>1, <1>4, <2>1
    <3> QED BY <1>2, <3>1
  <2>2. CASE ~(i <= Len(InFlight))
    <3>1. i - Len(InFlight) \in 1 .. Len(wq) /\ way[i] = wq[i - Len(InFlight)]
      BY <1>1, <1>4, <2>2
    <3> QED BY <1>3, <3>1
  <2> QED BY <2>1, <2>2
<1>5. ASSUME mux = NoStage PROVE way = <<>>
  <2>1. wq = <<>> /\ writer # "write"
    BY <1>5, SerialAgrees DEF MuxAgrees
  <2>2. InFlight = <<>>
    BY <2>1 DEF InFlight
  <2> QED BY <2>1, <2>2, ConcatEmptySeq, ValueTypes DEF way
<1> QED BY <1>1, <1>4, <1>5

(* Under the same conditions no footage disappears: what has been accepted *)
(* for a segment is in its file or on its way to it, in order and without  *)
(* frames of another, until the file as a whole is recycled or replaced.   *)
THEOREM FootageAlwaysKept ==
  ASSUME SoundStorage, SerialCallers
  PROVE  Spec => []FootageKept
<1>1. TypeOK /\ QueueConserved /\ SerialInv /\ FootInv /\ Footage => FootageKept
  <2> SUFFICES ASSUME TypeOK, QueueConserved, SerialInv, FootInv, Footage
               PROVE  FootageKept
    OBVIOUS
  <2> DEFINE way == InFlight \o wq
  <2>0. /\ written \in Seq(EntryType) /\ nopened \in Nat
        /\ FilesAt(disk, gone, nopened, stagePath)
    BY DEF TypeOK, FootInv
  <2>1. /\ way \in Seq(EntryType)
        /\ \A i \in 1 .. Len(way) : way[i].seg = nopened
        /\ way # <<>> => mux # NoStage
    BY OnItsWay
  <2>2. queued = written \o way
    <3>1. InFlight \in Seq(EntryType) /\ wq \in Seq(EntryType)
      BY InFlightType, TypeParts DEF TypeOK
    <3> HIDE DEF EntryType, InFlight
    <3>2. (written \o InFlight) \o wq = written \o (InFlight \o wq)
      BY <2>0, <3>1, ConcatAssociative
    <3> QED BY <3>2 DEF QueueConserved
  <2>3. mux # NoStage => IF mux \in DOMAIN disk THEN disk[mux].seg = nopened
                                                ELSE nopened \in gone
    BY SomeSegment
  <2> HIDE DEF way
  (* a segment whose file is not the open one has nothing on its way *)
  <2>4. ASSUME NEW n, n \notin gone, mux \in DOMAIN disk => disk[mux].seg # n
        PROVE  \A i \in 1 .. Len(way) : way[i].seg # n
    <3>1. CASE mux = NoStage
      <4>1. Len(way) = 0
        BY <2>1, <3>1, ValueTypes
      <4>2. 1 .. Len(way) = {}
        BY <4>1
      <4> QED BY <4>2
    <3>2. CASE mux # NoStage
      <4>1. n # nopened
        BY <2>3, <2>4, <3>2
      <4> QED BY <2>1, <4>1
    <3> QED BY <3>1, <3>2
  <2>5. ASSUME NEW p \in DOMAIN disk
        PROVE  Accepted(queued, disk[p].seg,
                        disk[p].frames \o (IF p = mux THEN InFlight \o wq ELSE <<>>))
    <3> DEFINE n == disk[p].seg
               f == disk[p].frames
    <3>1. n \in 1 .. nopened /\ n \notin gone /\ f \in Seq(EntryType) /\ Len(f) \in Nat
      BY <2>0, OpenFileType DEF FilesAt
    <3>2. Accepted(written, n, f)
      <4>1. Ended(disk, gone, n) = [phase  |-> IF f = <<>> THEN "empty" ELSE "kept",
                                    frames |-> f]
        BY <2>0, EndedFile
      <4>2. \/ Ended(disk, gone, n).phase = "gone"
            \/ Accepted(written, n, Ended(disk, gone, n).frames)
        BY <3>1 DEF Footage
      <4> HIDE DEF f, n
      <4> QED BY <4>1, <4>2
    <3>3. CASE p = mux
      <4>1. n = nopened
        BY <2>3, <2>0, <3>3 DEF FilesAt
      <4>2. /\ \A i \in 1 .. Len(written) : written[i].seg \in 1 .. n
            /\ \A i, j \in 1 .. Len(written) : i <= j => written[i].seg <= written[j].seg
            /\ \A i \in 1 .. Len(way) : way[i].seg = n
        BY <2>1, <4>1 DEF Footage
      <4>3. n \in Nat
        BY <3>1
      <4> HIDE DEF f, n, EntryType
      <4>4. Accepted(written \o way, n, f \o way)
        BY ONLY <2>0, <2>1, <3>1, <3>2, <4>2, <4>3, AcceptedMore
      <4> QED BY <2>2, <3>3, <4>4 DEF way, f, n
    <3>4. CASE p # mux
      <4>1. mux \in DOMAIN disk => disk[mux].seg # n
        BY <2>0, <3>4 DEF FilesAt
      <4>2. \A i \in 1 .. Len(way) : way[i].seg # n
        BY <2>4, <3>1, <4>1
      <4>3. f \o <<>> = f
        BY <3>1, ConcatEmptySeq
      <4> HIDE DEF f, n, EntryType
      <4>4. Accepted(written \o way, n, f)
        BY ONLY <2>0, <2>1, <3>1, <3>2, <4>2, AcceptedOthers
      <4> QED BY <2>2, <3>4, <4>3, <4>4 DEF f, n
    <3> QED BY <3>3, <3>4
  <2>6. ASSUME NEW n \in 1 .. nopened, n \notin gone, \A p \in DOMAIN disk : disk[p].seg # n
        PROVE  Accepted(queued, n, <<>>)
    <3>1. Ended(disk, gone, n) = [phase |-> "empty", frames |-> <<>>]
      BY <2>0, <2>6, ClipOfFile DEF Ended
    <3>2. Accepted(written, n, <<>>)
      BY <3>1 DEF Footage
    <3>3. \A i \in 1 .. Len(way) : way[i].seg # n
      BY <2>4, <2>6
    <3>4. Len(<<>>) \in Nat
      BY ValueTypes
    <3> QED BY <2>0, <2>1, <2>2, <3>2, <3>3, <3>4, AcceptedOthers
  <2>7. cleared = 0
    BY DEF FootInv
  <2> QED BY <2>5, <2>6, <2>7 DEF FootageKept
<1> QED BY <1>1, SpecFootage, PTL
=============================================================================
