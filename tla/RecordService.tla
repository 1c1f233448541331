--------------------------- MODULE RecordService ---------------------------
(***************************************************************************)
(* record_service.c: the recorder shared by the encoder's thread, by the   *)
(* control threads (detection, face capture, web, AOV, main) and by its    *)
(* own mux writer thread.                                                  *)
(*                                                                         *)
(* One mutex protects g_rec, so every critical section is one atomic step. *)
(* What makes the recorder hard is that close_segment_locked and           *)
(* open_segment_locked give the mutex up to drain the queue and to shut    *)
(* the library's muxer down: a thread that closes goes through             *)
(*                                                                         *)
(*      drain -> mark -> deinit -> finish                                  *)
(*                                                                         *)
(* and any other thread may enter the recorder between two of these steps. *)
(* OverlapOps names the calls that may do so; with OverlapOps = Ops the    *)
(* specification is the code as it stands, and a smaller set states what   *)
(* the callers would have to guarantee.                                    *)
(*                                                                         *)
(* Abstracted: the bytes of a frame (a frame is its capture number and     *)
(* whether it is an IDR frame), the frame-rate pacing (a live frame that   *)
(* is not an IDR frame may be dropped at any time), the free-space figure  *)
(* (opening a segment may recycle any number of the oldest files), and the *)
(* events published on the bus.                                            *)
(***************************************************************************)
EXTENDS PrerecordRing, FiniteSets

CONSTANTS
  Venc,            (* the media thread that calls on_packet                *)
  Ctl,             (* the threads that call the recorder's operations      *)
  OverlapOps,      (* operations that may enter while a close is under way *)
  WQ_CAP,          (* entries of the mux queue                             *)
  SegmentSec, QuietSec, RunSec, ExtendSec,   (* durations, in seconds      *)
  InitOutcomes,    (* how record_init may end                              *)
  OpenOutcomes,    (* how open_segment_locked may end                      *)
  PromoteOutcomes, (* how promote_stage_to_final may end                   *)
  DrainGivesUp,    (* may mux_wait_idle_unlocked reach its 60 s limit?     *)
  AllocFails,      (* may the copy of a frame fail to be allocated?        *)
  RecycleReach,    (* "never", "clips" or "all": what recycling may delete *)
  MaxNow, MaxFrames, MaxCalls                (* bounds of the model        *)

Threads == {Venc} \cup Ctl
Ops == {"init", "start", "runFor", "stop", "deinit", "arm", "motionEvent",
        "faceEvent", "poll", "extend"}
Sources == {"motion", "face"}
Modes == {"off", "continuous", "motion"}

ASSUME RecordAssumption ==
  /\ Venc \notin Ctl
  /\ OverlapOps \subseteq Ops
  /\ {WQ_CAP, SegmentSec, QuietSec, RunSec, ExtendSec} \subseteq Nat \ {0}
  /\ InitOutcomes \subseteq {"ok", "nowriter", "nolistener"}
  /\ OpenOutcomes \subseteq {"ok", "dir", "stage", "init"}
  /\ PromoteOutcomes \subseteq {"moved", "kept", "partial"}
  /\ DrainGivesUp \in BOOLEAN
  /\ AllocFails \in BOOLEAN
  /\ RecycleReach \in {"never", "clips", "all"}
  /\ {MaxNow, MaxFrames, MaxCalls} \subseteq Nat

VARIABLES
  now, nframes, ncalls,                  \* clock and bounds
  inited, listener,                      \* life cycle
  mode, runDeadline, quietDeadline,      \* deadlines: 0 is "none"
  muxerOpen, muxClosing, segActive,
  segSrc, pendingSrc, curPath, stagePath,
  segments, frames, segFrames,
  waitingKey, wq, ring,
  writerRun, writer, writing,            \* the mux writer thread
  segStart,                              \* second the open segment began
  mux,                                   \* file the library's muxer has open
  disk,                                  \* files under records/
  pc, op, loc,                           \* the threads inside the recorder
  nopened, queued, written, cleared, gone   \* history

clockVars   == <<now, nframes, ncalls>>
lifeVars    == <<inited, listener>>
modeVars    == <<mode, runDeadline, quietDeadline>>
flagVars    == <<muxerOpen, muxClosing, segActive>>
nameVars    == <<segSrc, pendingSrc, curPath, stagePath>>
countVars   == <<segments, frames, segFrames>>
queueVars   == <<waitingKey, wq, queued, cleared>>
writerVars  == <<writerRun, writer, writing, written>>
libVars     == <<mux, segStart, disk, nopened, gone>>
threadVars  == <<pc, op, loc>>
vars == <<clockVars, lifeVars, modeVars, flagVars, nameVars, countVars,
          queueVars, ring, writerVars, libVars, threadVars>>

-----------------------------------------------------------------------------
(* Values                                                                  *)

NoFrame == [id |-> 0, key |-> FALSE]
NoEntry == [seg |-> 0, frame |-> NoFrame]

(* Two kinds of paths: records/.stage/ipc_rec_<n>_<sec>.mp4 and the final  *)
(* name, which carries the kind, the sources and the second of opening.    *)
StageName(n, sec) == [n |-> n, sec |-> sec]
ClipName(kind, src, sec) == [kind |-> kind, src |-> src, sec |-> sec]
NoStage == StageName(0, 0)
NoClip == ClipName("normal", {}, 0)
IsClip(p) == "kind" \in DOMAIN p

NoLoc == [frame |-> NoFrame, stage |-> NoStage, clip |-> NoClip,
          empty |-> FALSE, roll |-> "no"]

(* File systems as functions from the paths that exist to their files.     *)
Put(d, p, f) == [q \in DOMAIN d \cup {p} |-> IF q = p THEN f ELSE d[q]]
Without(d, S) == [q \in DOMAIN d \ S |-> d[q]]

Init ==
  /\ now = 1 /\ nframes = 0 /\ ncalls = 0
  /\ inited = FALSE /\ listener = FALSE
  /\ mode = "off" /\ runDeadline = 0 /\ quietDeadline = 0
  /\ muxerOpen = FALSE /\ muxClosing = FALSE /\ segActive = FALSE
  /\ segSrc = {} /\ pendingSrc = {} /\ curPath = NoClip /\ stagePath = NoStage
  /\ segments = 0 /\ frames = 0 /\ segFrames = 0
  /\ waitingKey = FALSE /\ wq = <<>> /\ ring = <<>> /\ queued = <<>> /\ cleared = 0
  /\ writerRun = FALSE /\ writer = "off" /\ writing = NoEntry /\ written = <<>>
  /\ mux = NoStage /\ segStart = 0 /\ disk = <<>> /\ nopened = 0 /\ gone = {}
  /\ pc = [t \in Threads |-> "idle"]
  /\ op = [t \in Threads |-> "none"]
  /\ loc = [t \in Threads |-> NoLoc]

(* mux_wait_idle_unlocked's test. *)
Drained == wq = <<>> /\ writing = NoEntry

Closing == {"drain", "mark", "deinit", "finish", "overDrain", "overInit",
            "stopped", "join"}
CloseInProgress == \E t \in Threads : pc[t] \in Closing

(* Who may take the mutex for the operation it has called.                 *)
MayEnter(t) ==
  /\ pc[t] = "enter"
  /\ \/ op[t] \in OverlapOps
     \/ ~CloseInProgress /\ (inited \/ op[t] \in {"stop", "deinit"})

Goto(t, label) == pc' = [pc EXCEPT ![t] = label]

-----------------------------------------------------------------------------
(* The mux queue                                                           *)

(* The frame the writer has popped and not yet handed to the library.      *)
InFlight == IF writer = "write" THEN <<writing>> ELSE <<>>

(* wq_clear_locked.                                                        *)
ClearQueue ==
  /\ wq' = <<>>
  /\ cleared' = cleared + Len(wq)
  /\ queued' = written \o InFlight

(* Admitted with a defect: one entry past the end of the queue.            *)
AdmittedPastEnd(fs, waiting) ==
  IF fs = <<>> \/ (waiting /\ ~fs[1].key) THEN <<>>
  ELSE SubSeq(fs, 1, IF Len(fs) <= WQ_CAP + 1 - Len(wq) THEN Len(fs)
                                                        ELSE WQ_CAP + 1 - Len(wq))

(* Admitted with a defect: waiting_key is ignored.                         *)
AdmittedAnyFrame(fs, waiting) ==
  SubSeq(fs, 1, IF Len(fs) <= WQ_CAP - Len(wq) THEN Len(fs) ELSE WQ_CAP - Len(wq))

(* write_frame_locked for a run of frames offered in one critical section: *)
(* nothing before the first key frame of a segment, nothing that does not  *)
(* fit, and nothing at all when the copy cannot be allocated.              *)
Admitted(fs, waiting) ==
  IF fs = <<>> \/ (waiting /\ ~fs[1].key) THEN <<>>
  ELSE SubSeq(fs, 1, IF Len(fs) <= WQ_CAP - Len(wq) THEN Len(fs)
                                                    ELSE WQ_CAP - Len(wq))

Offer(fs, waiting) ==
  {Admitted(fs, waiting)} \cup (IF AllocFails THEN {<<>>} ELSE {})

(* A live frame that is no key frame may also be ahead of the pace.        *)
OfferLive(f, waiting) ==
  Offer(<<f>>, waiting) \cup (IF f.key THEN {} ELSE {<<>>})

Enqueue(seg, fs, waiting) ==
  LET entries == [i \in 1 .. Len(fs) |-> [seg |-> seg, frame |-> fs[i]]]
  IN  /\ wq' = wq \o entries
      /\ queued' = queued \o entries
      /\ UNCHANGED cleared
      /\ waitingKey' = (waiting /\ fs = <<>>)

-----------------------------------------------------------------------------
(* Opening a segment                                                       *)

Kind(m) == IF m = "motion" THEN "event" ELSE "normal"

(* The final name; an event clip carries the sources known at opening.     *)
NewClip(m, pending) ==
  IF Kind(m) = "normal" THEN ClipName("normal", {}, now)
  ELSE ClipName("event", IF pending = {} THEN {"motion"} ELSE pending, now)

(* storage_recycle_oldest deletes the oldest files, .stage/ included; how  *)
(* far it gets depends on the space they free.                             *)
OldestFiles(d) ==
  {S \in SUBSET DOMAIN d :
     \A p \in S, q \in DOMAIN d : d[q].seg < d[p].seg => q \in S}
RecycleChoices(d, live) ==
  {S \in OldestFiles(d) :
     \/ S = {}
     \/ RecycleReach = "clips" /\ live \notin S
     \/ RecycleReach = "all"}

SegsOf(d, S) == {d[p].seg : p \in S \cap DOMAIN d}

(* The part of the state that a close hands to the open that follows it    *)
(* under the same lock: files, destroyed segments, stage_path, seg_active. *)
Unclosed == [disk |-> disk, gone |-> gone, stage |-> stagePath,
             active |-> segActive]

(* open_segment_locked names the segment before it knows whether it can    *)
(* open it.  Outcomes: "dir" and "stage" when a directory cannot be made,  *)
(* "init" when rkmuxer_init fails, "ok".                                   *)
NameSegment(m, pending, o) ==
  /\ curPath' = IF o = "dir" THEN curPath ELSE NewClip(m, pending)
  /\ segSrc' = IF o = "dir" \/ Kind(m) = "normal" THEN segSrc
               ELSE NewClip(m, pending).src

FreshStage == StageName(segments + 1, now)

(* Its second half, starting from s, for a staged file of the given name;  *)
(* sec is the time it looked at the clock.                                 *)
InitMuxer(o, name, sec, s) ==
  /\ stagePath' = CASE o = "ok" -> name [] o = "init" -> NoStage [] OTHER -> s.stage
  /\ muxerOpen' = (o = "ok")
  /\ segActive' = (s.active \/ o = "ok")
  /\ \/ /\ o = "ok"
        /\ segFrames' = 0
        /\ segments' = segments + 1
        /\ nopened' = nopened + 1
        /\ mux' = name
        /\ segStart' = sec
        /\ LET file == [seg |-> nopened + 1, frames |-> <<>>, sealed |-> FALSE]
               d == Put(s.disk, name, file)
           IN  \E S \in RecycleChoices(d, name) :
                 /\ disk' = Without(d, S)
                 /\ gone' = s.gone \cup SegsOf(s.disk, {name}) \cup SegsOf(d, S)
     \/ /\ o # "ok"
        /\ disk' = s.disk
        /\ gone' = s.gone
        /\ UNCHANGED <<segFrames, segments, nopened, mux, segStart>>

-----------------------------------------------------------------------------
(* Closing a segment                                                       *)

NothingToClose == ~muxerOpen /\ stagePath = NoStage

(* BeginClose with defects: the muxer still counts as open, or seg_active  *)
(* is cleared before the file is closed.                                   *)
BeginCloseKeepsOpen(t, roll) ==
  /\ Goto(t, "drain")
  /\ loc' = [loc EXCEPT ![t].stage = stagePath, ![t].clip = curPath,
                        ![t].roll = roll]
  /\ UNCHANGED <<flagVars, nameVars, segments, segFrames, queueVars, libVars, op>>

BeginCloseInactive(t, roll) ==
  /\ muxerOpen' = FALSE
  /\ segActive' = FALSE
  /\ Goto(t, "drain")
  /\ loc' = [loc EXCEPT ![t].stage = stagePath, ![t].clip = curPath,
                        ![t].roll = roll]
  /\ UNCHANGED <<muxClosing, nameVars, segments, segFrames, queueVars, libVars, op>>

(* close_segment_locked up to the point where it gives the mutex up.  An   *)
(* event clip is renamed after the sources that fired while it was open.   *)
BeginClose(t, roll) ==
  LET clip == IF curPath.kind = "event" THEN [curPath EXCEPT !.src = segSrc]
                                        ELSE curPath
  IN  /\ muxerOpen' = FALSE
      /\ curPath' = clip
      /\ Goto(t, "drain")
      /\ loc' = [loc EXCEPT ![t].stage = stagePath, ![t].clip = clip,
                            ![t].roll = roll]
      /\ UNCHANGED <<muxClosing, segActive, segSrc, pendingSrc, stagePath,
                     segments, segFrames, queueVars, libVars, op>>

(* DrainDone with a defect: the frame the writer holds is not waited for.  *)
DrainDoneQueueOnly(t) ==
  /\ pc[t] = "drain"
  /\ wq = <<>> \/ DrainGivesUp
  /\ Goto(t, "mark")
  /\ UNCHANGED <<clockVars, lifeVars, modeVars, flagVars, nameVars, countVars,
                 queueVars, ring, writerVars, libVars, op, loc>>

(* mux_wait_idle_unlocked returns.                                         *)
DrainDone(t) ==
  /\ pc[t] = "drain"
  /\ Drained \/ DrainGivesUp
  /\ Goto(t, "mark")
  /\ UNCHANGED <<clockVars, lifeVars, modeVars, flagVars, nameVars, countVars,
                 queueVars, ring, writerVars, libVars, op, loc>>

(* CloseMark with a defect: a segment of one frame counts as empty.        *)
CloseMarkOneIsNone(t) ==
  /\ pc[t] = "mark"
  /\ muxClosing' = TRUE
  /\ loc' = [loc EXCEPT ![t].empty = (segFrames <= 1)]
  /\ Goto(t, "deinit")
  /\ UNCHANGED <<clockVars, lifeVars, modeVars, muxerOpen, segActive, nameVars,
                 countVars, queueVars, ring, writerVars, libVars, op>>

(* The short critical section between the drain and the deinit.            *)
CloseMark(t) ==
  /\ pc[t] = "mark"
  /\ muxClosing' = TRUE
  /\ loc' = [loc EXCEPT ![t].empty = (segFrames = 0)]
  /\ Goto(t, "deinit")
  /\ UNCHANGED <<clockVars, lifeVars, modeVars, muxerOpen, segActive, nameVars,
                 countVars, queueVars, ring, writerVars, libVars, op>>

(* rkmuxer_deinit completes the file the library has open, whichever that  *)
(* is, and closes it.                                                      *)
Sealed == IF mux \in DOMAIN disk THEN [disk EXCEPT ![mux].sealed = TRUE]
                                 ELSE disk

MuxDeinit(t) ==
  /\ pc[t] = "deinit"
  /\ disk' = Sealed
  /\ mux' = NoStage
  /\ Goto(t, "finish")
  /\ UNCHANGED <<clockVars, lifeVars, modeVars, flagVars, nameVars, countVars,
                 queueVars, ring, writerVars, segStart, nopened, gone, op, loc>>

(* Closed with a defect: the staged file goes even if promoting it failed. *)
ClosedDropsStage(l, o) ==
  LET promotes == ~l.empty /\ l.stage \in DOMAIN disk /\ o # "kept"
  IN  [disk   |-> IF promotes
                  THEN Put(Without(disk, {l.stage}), l.clip, disk[l.stage])
                  ELSE Without(disk, {l.stage}),
       gone   |-> IF promotes THEN gone \cup SegsOf(disk, {l.clip}) ELSE gone,
       stage  |-> NoStage,
       active |-> FALSE]

(* The last critical section of close_segment_locked.  An empty staged     *)
(* file is deleted; any other one moves to its final name or, when         *)
(* promotion fails, stays staged; a copy that breaks off leaves a useless  *)
(* file under the final name as well.                                      *)
Closed(l, o) ==
  LET promotes == ~l.empty /\ l.stage \in DOMAIN disk /\ o # "kept"
      broken   == [disk[l.stage] EXCEPT !.frames = <<>>, !.sealed = FALSE]
  IN  [disk   |-> CASE l.empty -> Without(disk, {l.stage})
                    [] ~l.empty /\ ~promotes -> disk
                    [] promotes /\ o = "moved" ->
                         Put(Without(disk, {l.stage}), l.clip, disk[l.stage])
                    [] promotes /\ o = "partial" -> Put(disk, l.clip, broken),
       gone   |-> IF promotes THEN gone \cup SegsOf(disk, {l.clip}) ELSE gone,
       stage  |-> NoStage,
       active |-> FALSE]

(* A close that is not part of a rollover returns to its caller.           *)
CloseFinish(t) ==
  /\ pc[t] = "finish"
  /\ loc[t].roll = "no"
  /\ \E o \in PromoteOutcomes :
       LET s == Closed(loc[t], o)
       IN  /\ disk' = s.disk
           /\ gone' = s.gone
           /\ stagePath' = s.stage
           /\ segActive' = s.active
  /\ muxClosing' = FALSE
  /\ loc' = [loc EXCEPT ![t] = NoLoc]
  /\ IF op[t] = "deinit" THEN Goto(t, "stopped") /\ UNCHANGED op
     ELSE Goto(t, "idle") /\ op' = [op EXCEPT ![t] = "none"]
  /\ UNCHANGED <<clockVars, lifeVars, modeVars, muxerOpen, segSrc, pendingSrc,
                 curPath, countVars, queueVars, ring, writerVars, mux, segStart,
                 nopened>>

(* The end of a rollover: the frame that caused it is written to the new   *)
(* segment.  In motion mode waiting_key has been cleared by then.          *)
WriteAfterRoll(o, l) ==
  LET waiting == (l.roll = "continuous")
  IN  IF o = "ok"
      THEN \E fs \in OfferLive(l.frame, waiting) : Enqueue(nopened + 1, fs, waiting)
      ELSE UNCHANGED queueVars

(* A rollover opens the next segment under the lock that finished the      *)
(* close, whatever the mode has become meanwhile.                          *)
CloseReopen(t) ==
  /\ pc[t] = "finish"
  /\ loc[t].roll # "no"
  /\ ~muxerOpen
  /\ muxClosing' = FALSE
  /\ \E p \in PromoteOutcomes, o \in OpenOutcomes :
       /\ NameSegment(mode, pendingSrc, o)
       /\ InitMuxer(o, FreshStage, now, Closed(loc[t], p))
       /\ WriteAfterRoll(o, loc[t])
  /\ loc' = [loc EXCEPT ![t] = NoLoc]
  /\ Goto(t, "idle")
  /\ UNCHANGED <<clockVars, lifeVars, modeVars, pendingSrc, frames, ring,
                 writerVars, op>>

(* The same when another thread has opened a segment in the meantime:      *)
(* open_segment_locked names its own segment first and then gives the      *)
(* mutex up to close the other one.                                        *)
CloseReopenBusy(t) ==
  /\ pc[t] = "finish"
  /\ loc[t].roll # "no"
  /\ muxerOpen
  /\ \E p \in PromoteOutcomes, o \in OpenOutcomes :
       LET s == Closed(loc[t], p)
           names == o \in {"ok", "init"}
       IN  /\ disk' = s.disk
           /\ gone' = s.gone
           /\ segActive' = s.active
           /\ stagePath' = IF names THEN FreshStage ELSE s.stage
           /\ NameSegment(mode, pendingSrc, o)
           /\ muxClosing' = names
           /\ Goto(t, IF names THEN "overDrain" ELSE "idle")
           /\ loc' = [loc EXCEPT ![t] = IF names THEN [@ EXCEPT !.stage = FreshStage]
                                                 ELSE NoLoc]
  /\ UNCHANGED <<clockVars, lifeVars, modeVars, muxerOpen, pendingSrc, countVars,
                 queueVars, ring, writerVars, mux, segStart, nopened, op>>

OverDrainDone(t) ==
  /\ pc[t] = "overDrain"
  /\ Drained \/ DrainGivesUp
  /\ Goto(t, "overInit")
  /\ UNCHANGED <<clockVars, lifeVars, modeVars, flagVars, nameVars, countVars,
                 queueVars, ring, writerVars, libVars, op, loc>>

(* The other segment's muxer is shut down; the file that is unlinked is    *)
(* the one stage_path names by now, and so is the one that is created.     *)
OverInit(t) ==
  LET s == [disk |-> Without(Sealed, {stagePath}), gone |-> gone,
            stage |-> stagePath, active |-> segActive]
  IN  /\ pc[t] = "overInit"
      /\ muxClosing' = FALSE
      /\ \E o \in IF stagePath = NoStage THEN {"init"}
                  ELSE OpenOutcomes \cap {"ok", "init"} :
           /\ IF o = "ok" THEN InitMuxer(o, stagePath, loc[t].stage.sec, s)
              ELSE /\ mux' = NoStage
                   /\ disk' = s.disk
                   /\ muxerOpen' = FALSE
                   /\ stagePath' = NoStage
                   /\ UNCHANGED <<segActive, segFrames, segments, segStart, nopened, gone>>
           /\ WriteAfterRoll(o, loc[t])
      /\ loc' = [loc EXCEPT ![t] = NoLoc]
      /\ Goto(t, "idle")
      /\ UNCHANGED <<clockVars, lifeVars, modeVars, segSrc, pendingSrc, curPath,
                     frames, ring, writerVars, op>>

-----------------------------------------------------------------------------
(* on_packet: the encoder's thread                                         *)

(* The media thread copies its listeners and then calls them.              *)
Camera(key) ==
  /\ listener
  /\ pc[Venc] = "idle"
  /\ nframes < MaxFrames
  /\ nframes' = nframes + 1
  /\ loc' = [loc EXCEPT ![Venc].frame = [id |-> nframes + 1, key |-> key]]
  /\ Goto(Venc, "enter")
  /\ UNCHANGED <<now, ncalls, lifeVars, modeVars, flagVars, nameVars, countVars,
                 queueVars, ring, writerVars, libVars, op>>

AtPacket == pc[Venc] = "enter"
Frame == loc[Venc].frame
Buffer ==
  ring' \in {Pushed(ring, Frame, now)} \cup (IF AllocFails THEN {Popped(ring)} ELSE {})
PacketReturns == Goto(Venc, "idle") /\ loc' = [loc EXCEPT ![Venc] = NoLoc]

RunOver == runDeadline > 0 /\ now >= runDeadline
QuietDue == quietDeadline > 0 /\ now >= quietDeadline
RollDue == frames > 0 /\ now - segStart >= SegmentSec /\ Frame.key

PacketIgnored ==
  /\ AtPacket
  /\ mode = "off"
  /\ PacketReturns
  /\ UNCHANGED <<clockVars, lifeVars, modeVars, flagVars, nameVars, countVars,
                 queueVars, ring, writerVars, libVars, op>>

(* PacketRunOver with a defect: the segment is left open.                  *)
PacketRunOverStaysOpen ==
  /\ AtPacket
  /\ mode = "continuous" /\ RunOver
  /\ Buffer
  /\ mode' = "off"
  /\ PacketReturns
  /\ UNCHANGED <<clockVars, lifeVars, runDeadline, quietDeadline, flagVars,
                 nameVars, countVars, queueVars, writerVars, libVars, op>>

(* The run of record_run_for is over: the encoder's thread stops it.       *)
PacketRunOver ==
  /\ AtPacket
  /\ mode = "continuous" /\ RunOver
  /\ Buffer
  /\ mode' = "off"
  /\ IF NothingToClose
     THEN /\ PacketReturns
          /\ UNCHANGED <<flagVars, nameVars, segments, segFrames, queueVars,
                         libVars, op>>
     ELSE BeginClose(Venc, "no")
  /\ UNCHANGED <<clockVars, lifeVars, runDeadline, quietDeadline, frames,
                 writerVars>>

(* Continuous recording opens its first segment at the first packet.       *)
PacketOpen ==
  /\ AtPacket
  /\ mode = "continuous" /\ ~RunOver
  /\ ~muxerOpen
  /\ Buffer
  /\ \E o \in OpenOutcomes :
       /\ NameSegment(mode, pendingSrc, o)
       /\ InitMuxer(o, FreshStage, now, Unclosed)
       /\ muxClosing' = IF o \in {"ok", "init"} THEN FALSE ELSE muxClosing
       /\ IF o = "ok"
          THEN \E fs \in OfferLive(Frame, TRUE) : Enqueue(nopened + 1, fs, TRUE)
          ELSE UNCHANGED queueVars
  /\ PacketReturns
  /\ UNCHANGED <<clockVars, lifeVars, modeVars, pendingSrc, frames, writerVars, op>>

(* No reason to close what is open.                                        *)
Recording ==
  \/ mode = "continuous" /\ ~RunOver
  \/ mode = "motion" /\ ~QuietDue

(* A segment that is long enough ends at a key frame.                      *)
PacketRoll ==
  /\ AtPacket
  /\ Recording /\ muxerOpen /\ RollDue
  /\ Buffer
  /\ BeginClose(Venc, mode)
  /\ UNCHANGED <<clockVars, lifeVars, modeVars, frames, writerVars>>

PacketWrite ==
  /\ AtPacket
  /\ Recording /\ muxerOpen /\ ~RollDue
  /\ Buffer
  /\ IF muxClosing THEN UNCHANGED queueVars
     ELSE \E fs \in OfferLive(Frame, waitingKey) : Enqueue(nopened, fs, waitingKey)
  /\ PacketReturns
  /\ UNCHANGED <<clockVars, lifeVars, modeVars, flagVars, nameVars, countVars,
                 writerVars, libVars, op>>

(* Motion mode: the event has been quiet for long enough.                  *)
PacketQuiet ==
  /\ AtPacket
  /\ mode = "motion" /\ muxerOpen /\ QuietDue
  /\ Buffer
  /\ BeginClose(Venc, "no")
  /\ UNCHANGED <<clockVars, lifeVars, modeVars, frames, writerVars>>

(* Motion mode with no event: the packet only enters the ring.             *)
PacketBuffered ==
  /\ AtPacket
  /\ mode = "motion" /\ ~muxerOpen
  /\ Buffer
  /\ PacketReturns
  /\ UNCHANGED <<clockVars, lifeVars, modeVars, flagVars, nameVars, countVars,
                 queueVars, writerVars, libVars, op>>

-----------------------------------------------------------------------------
(* The operations                                                          *)

(* A thread calls an operation: the checks made before the mutex is taken. *)
(* Face capture also looks at the mode first.                              *)
Call(t, o) ==
  /\ pc[t] = "idle"
  /\ ncalls < MaxCalls
  /\ o \notin {"stop", "deinit"} => inited
  /\ o = "faceEvent" => mode # "continuous"
  /\ o \in OverlapOps \/ ~CloseInProgress
  /\ ncalls' = ncalls + 1
  /\ op' = [op EXCEPT ![t] = o]
  /\ Goto(t, "enter")
  /\ UNCHANGED <<now, nframes, lifeVars, modeVars, flagVars, nameVars, countVars,
                 queueVars, ring, writerVars, libVars, loc>>

Leave(t) ==
  /\ Goto(t, "idle")
  /\ op' = [op EXCEPT ![t] = "none"]
  /\ UNCHANGED loc

(* record_init, called on a recorder that is not initialised: bad files    *)
(* are deleted (an unfinished empty one counts), counters and buffers      *)
(* cleared, the writer started and the packet listener added.              *)
RecordInit(t) ==
  /\ pc[t] = "idle"
  /\ ~inited
  /\ "init" \in OverlapOps \/ ~CloseInProgress
  /\ mode' = "off"
  /\ segments' = 0 /\ frames' = 0
  /\ ring' = <<>> /\ ClearQueue
  /\ disk' = Without(disk, {p \in DOMAIN disk : disk[p].frames = <<>>
                                                 /\ ~disk[p].sealed})
  /\ \E o \in InitOutcomes :
       /\ inited' = (o # "nowriter")
       /\ writerRun' = (o = "ok")
       /\ writer' = IF o = "ok" /\ writer = "off" THEN "idle" ELSE writer
       /\ listener' = (o = "ok" \/ listener)
  /\ UNCHANGED <<clockVars, runDeadline, quietDeadline, flagVars, nameVars,
                 segFrames, waitingKey, writing, written, mux, segStart, nopened, gone,
                 threadVars>>

(* record_start; record_run_for then sets its deadline in a second         *)
(* critical section.                                                       *)
Start(t) ==
  /\ MayEnter(t)
  /\ op[t] \in {"start", "runFor"}
  /\ mode' = "continuous"
  /\ runDeadline' = 0 /\ quietDeadline' = 0
  /\ waitingKey' = TRUE
  /\ segments' = 0 /\ frames' = 0
  /\ IF op[t] = "start" THEN Leave(t)
     ELSE Goto(t, "deadline") /\ UNCHANGED <<op, loc>>
  /\ UNCHANGED <<clockVars, lifeVars, flagVars, nameVars, segFrames, wq, queued,
                 cleared, ring, writerVars, libVars>>

SetRunDeadline(t) ==
  /\ pc[t] = "deadline"
  /\ runDeadline' = now + RunSec
  /\ Leave(t)
  /\ UNCHANGED <<clockVars, lifeVars, mode, quietDeadline, flagVars, nameVars,
                 countVars, queueVars, ring, writerVars, libVars>>

(* record_stop, and record_deinit up to the return of its record_stop.     *)
Stop(t) ==
  /\ MayEnter(t)
  /\ op[t] \in {"stop", "deinit"}
  /\ mode' = "off"
  /\ IF NothingToClose
     THEN /\ IF op[t] = "stop" THEN Leave(t)
             ELSE Goto(t, "stopped") /\ UNCHANGED <<op, loc>>
          /\ UNCHANGED <<flagVars, nameVars, segments, segFrames, queueVars, libVars>>
     ELSE BeginClose(t, "no")
  /\ UNCHANGED <<clockVars, lifeVars, runDeadline, quietDeadline, frames, ring,
                 writerVars>>

(* StopWriter with a defect: the writer is not told.                       *)
StopWriterSilently(t) ==
  /\ pc[t] = "stopped"
  /\ listener' = FALSE
  /\ Goto(t, "join")
  /\ UNCHANGED <<clockVars, inited, modeVars, flagVars, nameVars, countVars,
                 queueVars, ring, writerVars, libVars, op, loc>>

(* record_deinit, once stopped: no more packets, and the writer may exit;  *)
(* a writer that was never started counts as joined.                       *)
StopWriter(t) ==
  /\ pc[t] = "stopped"
  /\ listener' = FALSE
  /\ writerRun' = FALSE
  /\ Goto(t, "join")
  /\ UNCHANGED <<clockVars, inited, modeVars, flagVars, nameVars, countVars,
                 queueVars, ring, writer, writing, written, libVars, op, loc>>

(* The writer has been joined: what is left in the queue is dropped.       *)
Joined(t) ==
  /\ pc[t] = "join"
  /\ writer = "off"
  /\ ring' = <<>> /\ ClearQueue
  /\ inited' = FALSE
  /\ Leave(t)
  /\ UNCHANGED <<clockVars, listener, modeVars, flagVars, nameVars, countVars,
                 waitingKey, writerVars, libVars>>

Arm(t) ==
  /\ MayEnter(t)
  /\ op[t] = "arm"
  /\ mode' = "motion"
  /\ runDeadline' = 0 /\ quietDeadline' = 0
  /\ IF NothingToClose
     THEN /\ Leave(t)
          /\ UNCHANGED <<flagVars, nameVars, segments, segFrames, queueVars, libVars>>
     ELSE BeginClose(t, "no")
  /\ UNCHANGED <<clockVars, lifeVars, frames, ring, writerVars>>

EventSrc(o) == IF o = "faceEvent" THEN {"face"} ELSE {"motion"}

(* EventExtends with a defect: it writes the pre-record ring once more.    *)
EventExtendsAndFlushes(t) ==
  /\ MayEnter(t)
  /\ op[t] \in {"motionEvent", "faceEvent"}
  /\ muxerOpen
  /\ mode' = "motion"
  /\ quietDeadline' = now + QuietSec
  /\ segSrc' = segSrc \cup EventSrc(op[t])
  /\ pendingSrc' = segSrc'
  /\ \E fs \in Offer(FlushFrames(ring, now), waitingKey) : Enqueue(nopened, fs, waitingKey)
  /\ Leave(t)
  /\ UNCHANGED <<clockVars, lifeVars, runDeadline, flagVars, curPath, stagePath,
                 countVars, ring, writerVars, libVars>>

(* record_on_event while a segment is open prolongs the event.             *)
EventExtends(t) ==
  /\ MayEnter(t)
  /\ op[t] \in {"motionEvent", "faceEvent"}
  /\ muxerOpen
  /\ mode' = "motion"
  /\ quietDeadline' = now + QuietSec
  /\ segSrc' = segSrc \cup EventSrc(op[t])
  /\ pendingSrc' = segSrc'
  /\ Leave(t)
  /\ UNCHANGED <<clockVars, lifeVars, runDeadline, flagVars, curPath, stagePath,
                 countVars, queueVars, ring, writerVars, libVars>>

(* Otherwise it opens a clip and fills it from the pre-record ring.        *)
EventOpens(t) ==
  /\ MayEnter(t)
  /\ op[t] \in {"motionEvent", "faceEvent"}
  /\ ~muxerOpen
  /\ mode' = "motion"
  /\ quietDeadline' = now + QuietSec
  /\ pendingSrc' = EventSrc(op[t])
  /\ \E o \in OpenOutcomes :
       /\ NameSegment("motion", pendingSrc', o)
       /\ InitMuxer(o, FreshStage, now, Unclosed)
       /\ muxClosing' = IF o \in {"ok", "init"} THEN FALSE ELSE muxClosing
       /\ IF o = "ok"
          THEN /\ \E fs \in Offer(FlushFrames(ring, now), TRUE) :
                    Enqueue(nopened + 1, fs, TRUE)
               /\ ring' = <<>>
          ELSE UNCHANGED <<queueVars, ring>>
  /\ Leave(t)
  /\ UNCHANGED <<clockVars, lifeVars, runDeadline, frames, writerVars>>

(* record_poll_quiet_timeout                                               *)
Poll(t) ==
  /\ MayEnter(t)
  /\ op[t] = "poll"
  /\ IF mode = "motion" /\ muxerOpen /\ QuietDue
     THEN BeginClose(t, "no")
     ELSE /\ Leave(t)
          /\ UNCHANGED <<flagVars, nameVars, segments, segFrames, queueVars, libVars>>
  /\ UNCHANGED <<clockVars, lifeVars, modeVars, frames, ring, writerVars>>

(* record_extend_recording                                                 *)
Extend(t) ==
  /\ MayEnter(t)
  /\ op[t] = "extend"
  /\ quietDeadline' = now + ExtendSec
  /\ Leave(t)
  /\ UNCHANGED <<clockVars, lifeVars, mode, runDeadline, flagVars, nameVars,
                 countVars, queueVars, ring, writerVars, libVars>>

-----------------------------------------------------------------------------
(* mux_writer_thread                                                       *)

(* WriterTake with a defect: the entry stays in the queue.                 *)
WriterTakeCopies ==
  /\ writer = "idle"
  /\ wq # <<>>
  /\ writing' = Head(wq)
  /\ writer' = "write"
  /\ UNCHANGED <<clockVars, lifeVars, modeVars, flagVars, nameVars, countVars,
                 queueVars, ring, writerRun, written, libVars, threadVars>>

WriterTake ==
  /\ writer = "idle"
  /\ wq # <<>>
  /\ writing' = Head(wq)
  /\ wq' = Tail(wq)
  /\ writer' = "write"
  /\ UNCHANGED <<clockVars, lifeVars, modeVars, flagVars, nameVars, countVars,
                 waitingKey, queued, cleared, ring, writerRun, written, libVars,
                 threadVars>>

(* rkmuxer_write_video_frame, outside the mutex: the frame goes to the     *)
(* file the library has open, and nowhere if it has none.                  *)
WriterWrite ==
  /\ writer = "write"
  /\ disk' = IF mux \in DOMAIN disk
             THEN [disk EXCEPT ![mux].frames = Append(@, writing)] ELSE disk
  /\ written' = Append(written, writing)
  /\ writer' = "count"
  /\ UNCHANGED <<clockVars, lifeVars, modeVars, flagVars, nameVars, countVars,
                 queueVars, ring, writerRun, writing, mux, segStart, nopened, gone,
                 threadVars>>

WriterCount ==
  /\ writer = "count"
  /\ writing' = NoEntry
  /\ frames' = frames + 1
  /\ segFrames' = segFrames + 1
  /\ writer' = "idle"
  /\ UNCHANGED <<clockVars, lifeVars, modeVars, flagVars, nameVars, segments,
                 queueVars, ring, writerRun, written, libVars, threadVars>>

WriterExit ==
  /\ writer = "idle"
  /\ wq = <<>> /\ ~writerRun
  /\ writer' = "off"
  /\ UNCHANGED <<clockVars, lifeVars, modeVars, flagVars, nameVars, countVars,
                 queueVars, ring, writerRun, writing, written, libVars, threadVars>>

Tick ==
  /\ now < MaxNow
  /\ now' = now + 1
  /\ UNCHANGED <<nframes, ncalls, lifeVars, modeVars, flagVars, nameVars,
                 countVars, queueVars, ring, writerVars, libVars, threadVars>>

-----------------------------------------------------------------------------
OnPacket == \/ PacketIgnored \/ PacketRunOver \/ PacketOpen \/ PacketRoll
            \/ PacketWrite \/ PacketQuiet \/ PacketBuffered
Close(t) == \/ DrainDone(t) \/ CloseMark(t) \/ MuxDeinit(t) \/ CloseFinish(t)
            \/ CloseReopen(t) \/ CloseReopenBusy(t)
            \/ OverDrainDone(t) \/ OverInit(t)
Operation(t) == \/ Start(t) \/ SetRunDeadline(t) \/ Stop(t) \/ StopWriter(t)
                \/ Joined(t) \/ Arm(t) \/ EventExtends(t) \/ EventOpens(t)
                \/ Poll(t) \/ Extend(t)
Writer == WriterTake \/ WriterWrite \/ WriterCount \/ WriterExit

Next ==
  \/ \E key \in BOOLEAN : Camera(key)
  \/ OnPacket
  \/ \E t \in Threads : Close(t)
  \/ \E t \in Ctl : RecordInit(t) \/ Operation(t)
  \/ \E t \in Ctl, o \in Ops \ {"init"} : Call(t, o)
  \/ Writer
  \/ Tick

(* Threads that are inside the recorder, and the writer, keep running;     *)
(* nothing makes a caller call or the camera deliver.                      *)
Fairness ==
  /\ WF_vars(OnPacket)
  /\ WF_vars(Writer)
  /\ \A t \in Threads : WF_vars(Close(t))
  /\ \A t \in Ctl : WF_vars(Operation(t))

Spec == Init /\ [][Next]_vars
FairSpec == Spec /\ Fairness

-----------------------------------------------------------------------------
(* Types                                                                   *)

FrameType == [id : Nat, key : BOOLEAN]
EntryType == [seg : Nat, frame : FrameType]
RingType  == [frame : FrameType, wall : Nat]
StageType == [n : Nat, sec : Nat]
ClipType  == [kind : {"normal", "event"}, src : SUBSET Sources, sec : Nat]
FileType  == [seg : Nat, frames : Seq(EntryType), sealed : BOOLEAN]
LocType   == [frame : FrameType, stage : StageType, clip : ClipType,
              empty : BOOLEAN, roll : {"no", "continuous", "motion"}]
Labels == {"idle", "enter", "deadline"} \cup Closing

DiskOK(d) == /\ DOMAIN d \subseteq StageType \cup ClipType
             /\ \A p \in DOMAIN d : d[p] \in FileType

(* Every variable keeps its type; the two arrays of record_service.c are   *)
(* never written past their end.                                           *)
TypeOK ==
  /\ now \in Nat /\ nframes \in Nat /\ ncalls \in Nat
  /\ inited \in BOOLEAN /\ listener \in BOOLEAN
  /\ mode \in Modes /\ runDeadline \in Nat /\ quietDeadline \in Nat
  /\ muxerOpen \in BOOLEAN /\ muxClosing \in BOOLEAN /\ segActive \in BOOLEAN
  /\ segSrc \in SUBSET Sources /\ pendingSrc \in SUBSET Sources
  /\ curPath \in ClipType /\ stagePath \in StageType
  /\ segments \in Nat /\ frames \in Nat /\ segFrames \in Nat
  /\ waitingKey \in BOOLEAN
  /\ wq \in Seq(EntryType) /\ Len(wq) <= WQ_CAP
  /\ ring \in Seq(RingType) /\ Len(ring) <= RING_CAP
  /\ writerRun \in BOOLEAN /\ writer \in {"off", "idle", "write", "count"}
  /\ writing \in EntryType
  /\ mux \in StageType
  /\ DiskOK(disk)
  /\ pc \in [Threads -> Labels]
  /\ op \in [Threads -> Ops \cup {"none"}]
  /\ loc \in [Threads -> LocType]
  /\ segStart \in Nat /\ nopened \in Nat /\ cleared \in Nat /\ gone \in SUBSET Nat
  /\ queued \in Seq(EntryType) /\ written \in Seq(EntryType)

-----------------------------------------------------------------------------
(* Properties                                                              *)

(* Of the entries q those of segment n are fs, one after the other.        *)
Accepted(q, n, fs) ==
  \E k \in 0 .. Len(q) - Len(fs) :
    /\ \A i \in 1 .. Len(fs) : fs[i] = q[k + i]
    /\ \A i \in 1 .. Len(q) : q[i].seg = n <=> i \in k + 1 .. k + Len(fs)

(* The queue between the encoder's thread and the writer loses nothing,    *)
(* repeats nothing and reorders nothing: what has been accepted is what    *)
(* the library got, then what the writer holds, then what is queued,       *)
(* whichever threads open and close segments meanwhile.                    *)
QueueConserved == queued = written \o InFlight \o wq

(* A segment never holds a frame twice nor out of capture order, although  *)
(* its start comes from the pre-record ring, filled by the same callbacks. *)
CaptureOrder ==
  \A i, j \in 1 .. Len(queued) :
    i < j /\ queued[i].seg = queued[j].seg
      => queued[i].frame.id < queued[j].frame.id

(* The recorder and the library agree: while g_rec says a muxer is open    *)
(* it is open on the file g_rec thinks it is, and a frame that is queued   *)
(* or being written always finds a muxer.                                  *)
MuxAgrees ==
  /\ muxerOpen => mux = stagePath /\ mux # NoStage
  /\ wq # <<>> \/ writer = "write" => mux # NoStage

(* No footage disappears: every frame accepted for a segment is in that    *)
(* segment's file, or still on its way to it, until recycling or a clip    *)
(* of the same name destroys the file; and the file has no other frames.   *)
FootageKept ==
  /\ cleared = 0
  /\ \A p \in DOMAIN disk :
       Accepted(queued, disk[p].seg,
                disk[p].frames \o (IF p = mux THEN InFlight \o wq ELSE <<>>))
  /\ \A n \in 1 .. nopened :
       \/ n \in gone \/ Accepted(queued, n, <<>>)
       \/ \E p \in DOMAIN disk : disk[p].seg = n

(* What carries a final name is a whole clip: completed by the library,    *)
(* not empty, starting with a key frame, of one segment only.              *)
ClipsWhole ==
  \A p \in DOMAIN disk : IsClip(p) =>
    /\ disk[p].sealed
    /\ disk[p].frames # <<>>
    /\ disk[p].frames[1].frame.key
    /\ \A i \in 1 .. Len(disk[p].frames) : disk[p].frames[i].seg = disk[p].seg

(* Once a stop has run its course nothing records: no muxer, no staged     *)
(* path, nothing left to write.                                            *)
StoppedMeansClosed ==
  mode = "off" /\ ~CloseInProgress =>
    ~muxerOpen /\ mux = NoStage /\ stagePath = NoStage /\ Drained

(* record_is_running                                                       *)
IsRunning ==
  \/ mode = "continuous"
  \/ mode = "motion" /\ (muxerOpen \/ segActive \/ ~Drained)

(* An event recording that is reported finished has left the card alone:   *)
(* the AOV loop unmounts it as soon as record_is_running says no.          *)
FinishedMeansOnDisk ==
  mode = "motion" /\ ~IsRunning => mux = NoStage /\ stagePath = NoStage

(* "Stop enqueue from VENC callback, drain writer, then deinit muxer":     *)
(* the library's muxer is shut down only when no frame is on its way.      *)
DeinitAfterDrain ==
  [][mux # NoStage /\ mux' = NoStage => Drained]_vars

(* Every operation that has entered the recorder returns: the drain needs  *)
(* no time limit, and joining the writer terminates.                       *)
EveryCallReturns ==
  \A t \in Threads : pc[t] \in Closing ~> pc[t] = "idle"

(* The recorder as a store of clips: clip n is the n-th segment opened.    *)
ClipOf(n) ==
  LET files == {p \in DOMAIN disk : disk[p].seg = n}
      file  == disk[CHOOSE p \in files : TRUE]
  IN  IF n \in gone THEN [phase |-> "gone", frames |-> <<>>]
      ELSE IF files = {} THEN [phase |-> "empty", frames |-> <<>>]
      ELSE IF mux \in files
           THEN [phase |-> "open", frames |-> file.frames \o InFlight \o wq]
      ELSE [phase  |-> IF file.frames = <<>> THEN "empty" ELSE "kept",
            frames |-> file.frames]

Store == INSTANCE ClipStore WITH clips <- [n \in 1 .. nopened |-> ClipOf(n)]

(* The recorder implements the store: no step of any thread changes a clip *)
(* that has ended, loses or reorders what an open one has got, or keeps    *)
(* two clips open at once.                                                 *)
ImplementsStore == Store!Spec
=============================================================================
