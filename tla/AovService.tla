----------------------------- MODULE AovService -----------------------------
(***************************************************************************)
(* aov_service.c: the "always on video" cycle of the command-line modes    *)
(* (ipc_app --aov loop | loop --media | probe | enter | leave), with the   *)
(* parts of storage_service.c and network_service.c that take the SD card  *)
(* and the Ethernet PHY down before the board sleeps and bring them back.  *)
(*                                                                         *)
(* One thread runs the cycle; what is hard is that every step can fail and *)
(* has its own undo code, that the hardware's state outlives the process   *)
(* while the flags that describe it do not, and that the watchdog kills    *)
(* the process at any point (ipc_watchdog.sh: killall -9 ipc_app).  Each   *)
(* action is the code between two points where a kill makes a difference.  *)
(*                                                                         *)
(* Abstracted: the recorder is only initialised or not, its mode, and      *)
(* whether a segment is open (RecordService has the rest); AIQ pause and   *)
(* resume, which no step depends on; the statistics of aov_get_status; a   *)
(* command whose media pipeline or recorder does not start exits having    *)
(* done nothing, and is left out.                                          *)
(***************************************************************************)
EXTENDS Integers

CONSTANTS
  LoopN,            (* N of "--aov loop N"                                 *)
  MaxCyclesBeforeReinit,  (* aov.max_cycles_before_reinit                  *)
  MaxProcesses      (* bound of the model: processes started               *)

ASSUME AovAssumption ==
  /\ LoopN \in Nat \ {0}
  /\ MaxCyclesBeforeReinit \in Nat
  /\ MaxProcesses \in Nat

VARIABLES
  mounted, sdBound,         \* the card: mounted; its controller has a driver
  gmacBound, wakeOn,        \* the Ethernet MAC: has a driver; may wake the board
  cmd, pc, left, nproc,     \* the running process: command, position, cycles left
  downEth, allowMem,        \* its aov.down_eth and aov.allow_mem_suspend
  inAov, state, reason,     \* g_st.in_aov, g_st.state, wake reason
  suspendActive, sdKnown,   \* g_suspend_active; the driver path is known
  gmacUnbound, wakeWas,     \* g_gmac_unbound, g_gmac_wake_was_enabled
  mediaUp, rec, eventStream, needReinit, sinceReinit,
  hurdles, orphaned         \* history: what the last aov_leave failed at; was
                            \* a process gone with the card's driver unbound?

cardVars    == <<mounted, sdBound, suspendActive, sdKnown>>
netVars     == <<gmacBound, wakeOn, gmacUnbound, wakeWas>>
aovVars     == <<inAov, state, reason>>
mediaVars   == <<mediaUp, rec, eventStream, needReinit, sinceReinit>>
loopVars    == <<cmd, left, nproc, downEth, allowMem>>
historyVars == <<hurdles, orphaned>>
vars == <<cardVars, netVars, aovVars, mediaVars, loopVars, historyVars, pc>>

Commands == {"loop", "loopMedia", "probe", "enter", "leave"}
States == {"idle", "prepare_sleep", "sleeping", "post_wake", "lapse_1fps",
           "full_record", "fault"}

loopBound == cmd = "loopMedia"      \* g_media_loop_bound

-----------------------------------------------------------------------------
(* The recorder                                                            *)

Recorder == [inited : BOOLEAN, mode : {"off", "motion"}, open : BOOLEAN]
Off == [inited |-> FALSE, mode |-> "off", open |-> FALSE]
Armed(r) == IF r.inited THEN [r EXCEPT !.mode = "motion", !.open = FALSE] ELSE r
Stopped(r) == [r EXCEPT !.mode = "off", !.open = FALSE]
Running(r) == r.mode = "motion" /\ r.open

(* record_on_motion opens a segment, or fails at it.                       *)
OnMotion(r) ==
  IF r.inited THEN {[r EXCEPT !.mode = "motion", !.open = b] : b \in BOOLEAN}
              ELSE {r}

(* web_preview_force_stop ends in record_deinit; no preview runs here.     *)
ForceStopped(r) == Off

(* aov_finish_event_recording: polls until the quiet time has closed the   *)
(* segment, or stops the recorder after a time limit.                      *)
EventFinished(r) ==
  IF Running(r) THEN {[r EXCEPT !.open = FALSE], Stopped(r)} ELSE {r}
StateAfterEvent(r, s) == IF Running(r) THEN "lapse_1fps" ELSE s

-----------------------------------------------------------------------------
(* The card and the network                                                *)

(* CardSuspended with a defect: an unmount that fails counts as done.      *)
CardSuspendedAnyway(known, unmounts, unbinds) ==
  IF suspendActive THEN UNCHANGED cardVars
  ELSE /\ sdKnown' = (mounted /\ known)
       /\ mounted' = (mounted /\ ~unmounts)
       /\ sdBound' = IF mounted /\ known /\ unbinds THEN FALSE ELSE sdBound
       /\ suspendActive' = TRUE

(* storage_prepare_suspend when it succeeds: the card is unmounted, lazily *)
(* if need be, and its driver unbound if its path could be found.          *)
CardSuspended(known, unmounts, unbinds) ==
  IF suspendActive THEN UNCHANGED cardVars
  ELSE /\ mounted => unmounts
       /\ sdKnown' = (mounted /\ known)
       /\ mounted' = FALSE
       /\ sdBound' = IF mounted /\ known /\ unbinds THEN FALSE ELSE sdBound
       /\ suspendActive' = TRUE

(* CardResumed with a defect: the driver is not bound again.               *)
CardResumedUnbound(binds, mounts) ==
  IF ~suspendActive /\ mounted THEN UNCHANGED cardVars
  ELSE /\ mounted' = (mounts /\ sdBound)
       /\ suspendActive' = (suspendActive /\ ~mounted')
       /\ UNCHANGED <<sdKnown, sdBound>>

(* storage_resume_from_suspend: bind the driver if its path is known, then *)
(* try to mount; the flag stays when no attempt succeeds.                  *)
CardResumed(binds, mounts) ==
  IF ~suspendActive /\ mounted THEN UNCHANGED cardVars
  ELSE /\ sdBound' = (sdBound \/ (sdKnown /\ binds))
       /\ mounted' = (mounts /\ sdBound')
       /\ suspendActive' = (suspendActive /\ ~mounted')
       /\ UNCHANGED sdKnown

(* network_prepare_aov_suspend forgets what an earlier call had saved.     *)
NetworkSuspended(unbinds) ==
  /\ wakeWas' = wakeOn
  /\ wakeOn' = FALSE
  /\ gmacUnbound' = (gmacBound /\ unbinds)
  /\ gmacBound' = (gmacBound /\ ~unbinds)

(* NetworkRestored with a defect: it believes the process's own flag.      *)
NetworkRestoredByFlag(binds) ==
  IF gmacUnbound /\ ~binds THEN UNCHANGED netVars
  ELSE /\ gmacBound' = (gmacBound \/ gmacUnbound)
       /\ gmacUnbound' = FALSE
       /\ wakeOn' = (wakeOn \/ wakeWas)
       /\ wakeWas' = FALSE

(* network_restore_after_aov also binds when it finds neither interface    *)
(* nor driver.                                                             *)
NeedBind == gmacUnbound \/ ~gmacBound
NetworkRestored(binds) ==
  IF NeedBind /\ ~binds THEN UNCHANGED netVars
  ELSE /\ gmacBound' = TRUE
       /\ gmacUnbound' = FALSE
       /\ wakeOn' = (wakeOn \/ wakeWas)
       /\ wakeWas' = FALSE

RestoreIfDown == IF downEth THEN \E binds \in BOOLEAN : NetworkRestored(binds)
                            ELSE UNCHANGED netVars

-----------------------------------------------------------------------------
(* A process                                                               *)

Init ==
  /\ mounted = TRUE /\ sdBound = TRUE /\ gmacBound = TRUE /\ wakeOn \in BOOLEAN
  /\ cmd = "leave" /\ pc = "none" /\ left = 0 /\ nproc = 0
  /\ downEth = TRUE /\ allowMem = FALSE
  /\ inAov = FALSE /\ state = "idle" /\ reason = "timer"
  /\ suspendActive = FALSE /\ sdKnown = FALSE
  /\ gmacUnbound = FALSE /\ wakeWas = FALSE
  /\ mediaUp = FALSE /\ rec = Off /\ eventStream = FALSE
  /\ needReinit = FALSE /\ sinceReinit = 0
  /\ hurdles = {} /\ orphaned = FALSE

(* run_aov_cli: with --media the pipeline and the armed recorder run first.*)
(* The configuration may have changed since the last process.              *)
StartProcess(c) ==
  /\ pc = "none" /\ nproc < MaxProcesses
  /\ nproc' = nproc + 1
  /\ cmd' = c
  /\ downEth' \in BOOLEAN /\ allowMem' \in BOOLEAN
  /\ left' = IF c \in {"loop", "loopMedia"} THEN LoopN ELSE 0
  /\ inAov' = FALSE /\ state' = "idle" /\ reason' = "timer"
  /\ suspendActive' = FALSE /\ sdKnown' = FALSE
  /\ gmacUnbound' = FALSE /\ wakeWas' = FALSE
  /\ mediaUp' = (c = "loopMedia")
  /\ rec' = IF c = "loopMedia" THEN Armed([Off EXCEPT !.inited = TRUE]) ELSE Off
  /\ eventStream' = FALSE /\ needReinit' = FALSE /\ sinceReinit' = 0
  /\ hurdles' = {}
  /\ pc' = IF c = "leave" THEN "leave" ELSE "enter"
  /\ UNCHANGED <<mounted, sdBound, gmacBound, wakeOn, orphaned>>

(* The watchdog or the operator kills the process.                         *)
Kill ==
  /\ pc # "none"
  /\ pc' = "none"
  /\ orphaned' = (orphaned \/ ~sdBound)
  /\ UNCHANGED <<cardVars, netVars, aovVars, mediaVars, loopVars, hurdles>>

(* A power cut: the boot scripts bind and mount everything again.          *)
Reboot ==
  /\ pc' = "none"
  /\ mounted' = TRUE /\ sdBound' = TRUE /\ gmacBound' = TRUE
  /\ wakeOn' \in BOOLEAN
  /\ orphaned' = FALSE
  /\ UNCHANGED <<suspendActive, sdKnown, gmacUnbound, wakeWas, aovVars,
                 mediaVars, loopVars, hurdles>>

(* aov_enter.                                                              *)
Enter ==
  /\ pc = "enter"
  /\ rec' = ForceStopped(rec)
  /\ inAov' = TRUE /\ state' = "idle"
  /\ pc' = IF cmd = "enter" THEN "exit" ELSE "prepare"
  /\ UNCHANGED <<cardVars, netVars, reason, mediaUp, eventStream, needReinit,
                 sinceReinit, loopVars, historyVars>>

(* prepare_sleep until it reaches the network.                             *)
Prepare ==
  /\ pc = "prepare"
  /\ LET stopped == ForceStopped(rec)
     IN  \E r \in EventFinished(stopped) :
           /\ rec' = IF loopBound THEN Armed(r) ELSE Stopped(r)
           /\ state' = StateAfterEvent(stopped, "prepare_sleep")
  /\ eventStream' = FALSE
  /\ pc' = "net"
  /\ UNCHANGED <<cardVars, netVars, inAov, reason, mediaUp, needReinit,
                 sinceReinit, loopVars, historyVars>>

CutNetwork ==
  /\ pc = "net"
  /\ IF downEth THEN \E unbinds \in BOOLEAN : NetworkSuspended(unbinds)
                ELSE UNCHANGED netVars
  /\ pc' = "card"
  /\ UNCHANGED <<cardVars, aovVars, mediaVars, loopVars, historyVars>>

SuspendCard ==
  /\ pc = "card"
  /\ \E known, unmounts, unbinds \in BOOLEAN : CardSuspended(known, unmounts, unbinds)
  /\ pc' = "timer"
  /\ UNCHANGED <<netVars, aovVars, mediaVars, loopVars, historyVars>>

(* Both ways of unmounting failed.                                         *)
SuspendCardFails ==
  /\ pc = "card"
  /\ mounted /\ ~suspendActive
  /\ sdKnown' \in BOOLEAN
  /\ RestoreIfDown
  /\ state' = "fault"
  /\ pc' = "end"
  /\ UNCHANGED <<mounted, sdBound, suspendActive, inAov, reason, mediaVars,
                 loopVars, historyVars>>

(* aov_set_suspend_time_ms.                                                *)
SetTimer ==
  /\ pc = "timer"
  /\ state' = "sleeping"
  /\ pc' = IF allowMem THEN "mem" ELSE "asleep"
  /\ UNCHANGED <<cardVars, netVars, inAov, reason, mediaVars, loopVars, historyVars>>

(* Its failure brings back the card only.                                  *)
SetTimerFails ==
  /\ pc = "timer"
  /\ \E binds, mounts \in BOOLEAN : CardResumed(binds, mounts)
  /\ pc' = "end"
  /\ UNCHANGED <<netVars, aovVars, mediaVars, loopVars, historyVars>>

(* write_mem_suspend; without it a dry run sleeps 50 ms.                   *)
Sleep ==
  /\ pc = "mem"
  /\ pc' = "asleep"
  /\ UNCHANGED <<cardVars, netVars, aovVars, mediaVars, loopVars, historyVars>>

SleepFails ==
  /\ pc = "mem"
  /\ \E binds, mounts \in BOOLEAN : CardResumed(binds, mounts)
  /\ RestoreIfDown
  /\ state' = "fault"
  /\ pc' = "end"
  /\ UNCHANGED <<inAov, reason, mediaVars, loopVars, historyVars>>

(* aov_on_wake until the card is back.                                     *)
Wake ==
  /\ pc = "asleep"
  /\ reason' \in IF allowMem THEN {"timer", "motion"} ELSE {"timer"}
  /\ \E binds, mounts \in BOOLEAN : CardResumed(binds, mounts)
  /\ state' = IF mounted' THEN "post_wake" ELSE "fault"
  /\ pc' = IF mounted' THEN "awake" ELSE "end"
  /\ UNCHANGED <<netVars, inAov, mediaVars, loopVars, historyVars>>

(* ... and what it does then.  A lapse picture that cannot be taken asks   *)
(* for a new media pipeline.                                               *)
Act ==
  /\ pc = "awake"
  /\ IF reason = "motion"
     THEN /\ state' = "full_record"
          /\ eventStream' = TRUE
          /\ rec' \in OnMotion(rec)
          /\ UNCHANGED needReinit
     ELSE /\ state' = "lapse_1fps"
          /\ needReinit' \in IF mediaUp THEN {needReinit, TRUE} ELSE {needReinit}
          /\ UNCHANGED <<rec, eventStream>>
  /\ pc' = IF cmd = "probe" THEN "leave" ELSE "cycle"
  /\ UNCHANGED <<cardVars, netVars, inAov, reason, mediaUp, sinceReinit,
                 loopVars, historyVars>>

ReinitDue ==
  \/ needReinit
  \/ MaxCyclesBeforeReinit > 0 /\ sinceReinit + 1 >= MaxCyclesBeforeReinit

(* Continue with a defect: one cycle too many.                             *)
ContinueOnceMore == pc' = IF left = 0 THEN "end" ELSE "prepare"
Continue == pc' = IF left = 1 THEN "end" ELSE "prepare"

(* The end of a cycle that does not touch the pipeline.                    *)
CycleDone ==
  /\ pc = "cycle"
  /\ ~loopBound \/ ~ReinitDue
  /\ left' = left - 1
  /\ sinceReinit' = IF loopBound THEN sinceReinit + 1 ELSE sinceReinit
  /\ Continue
  /\ UNCHANGED <<cardVars, netVars, aovVars, mediaUp, rec, eventStream,
                 needReinit, cmd, nproc, downEth, allowMem, historyVars>>

(* aov_maybe_reinit_media, while the pipeline is up as it is in every      *)
(* cycle: a new pipeline and an armed recorder, ...                        *)
CycleReinit ==
  /\ pc = "cycle"
  /\ loopBound /\ ReinitDue /\ mediaUp
  /\ left' = left - 1
  /\ needReinit' = FALSE /\ sinceReinit' = 0
  /\ state' = StateAfterEvent(rec, state)
  /\ eventStream' = FALSE
  /\ rec' = Armed([Off EXCEPT !.inited = TRUE])
  /\ Continue
  /\ UNCHANGED <<cardVars, netVars, inAov, reason, mediaUp, cmd, nproc,
                 downEth, allowMem, historyVars>>

(* ... or neither, which ends the loop; record_init may fail after it has  *)
(* set inited.                                                             *)
CycleReinitFails ==
  /\ pc = "cycle"
  /\ loopBound /\ ReinitDue /\ mediaUp
  /\ needReinit' = FALSE
  /\ sinceReinit' = sinceReinit + 1
  /\ state' = StateAfterEvent(rec, state)
  /\ eventStream' = FALSE
  /\ mediaUp' = FALSE
  /\ rec' \in {Off, [Off EXCEPT !.inited = TRUE]}
  /\ pc' = "end"
  /\ UNCHANGED <<cardVars, netVars, inAov, reason, loopVars, historyVars>>

(* After the loop; a probe leaves at once.                                 *)
End ==
  /\ pc = "end"
  /\ IF cmd # "probe" /\ (state = "full_record" \/ Running(rec))
     THEN /\ rec' \in EventFinished(rec)
          /\ state' = StateAfterEvent(rec, state)
          /\ eventStream' = FALSE
     ELSE UNCHANGED <<rec, state, eventStream>>
  /\ pc' = "leave"
  /\ UNCHANGED <<cardVars, netVars, inAov, reason, mediaUp, needReinit,
                 sinceReinit, loopVars, historyVars>>

(* aov_leave, whose callees' failures it ignores.                          *)
LeaveStop ==
  /\ pc = "leave"
  /\ rec' = Stopped(rec)
  /\ hurdles' = {}
  /\ pc' = "leaveCard"
  /\ UNCHANGED <<cardVars, netVars, aovVars, mediaUp, eventStream, needReinit,
                 sinceReinit, loopVars, orphaned>>

LeaveCard ==
  /\ pc = "leaveCard"
  /\ \E binds, mounts \in BOOLEAN :
       /\ CardResumed(binds, mounts)
       /\ hurdles' = hurdles \cup (IF binds /\ mounts THEN {} ELSE {"mount"})
  /\ pc' = "leaveNet"
  /\ UNCHANGED <<netVars, aovVars, mediaVars, loopVars, orphaned>>

LeaveNetwork ==
  /\ pc = "leaveNet"
  /\ IF downEth
     THEN \E binds \in BOOLEAN :
            /\ NetworkRestored(binds)
            /\ hurdles' = hurdles \cup (IF binds THEN {} ELSE {"bind"})
     ELSE UNCHANGED <<netVars, hurdles>>
  /\ inAov' = FALSE /\ state' = "idle"
  /\ pc' = "exit"
  /\ UNCHANGED <<cardVars, reason, mediaVars, loopVars, orphaned>>

(* The end of run_aov_cli: with --media recorder and pipeline are shut     *)
(* down; aov_deinit leaves AOV, which "enter" is still in.                 *)
Exit ==
  /\ pc = "exit"
  /\ rec' = IF loopBound THEN Off ELSE rec
  /\ mediaUp' = FALSE
  /\ pc' = IF inAov THEN "leave" ELSE "none"
  /\ orphaned' = (orphaned \/ (~inAov /\ ~sdBound))
  /\ UNCHANGED <<cardVars, netVars, aovVars, eventStream, needReinit, sinceReinit,
                 loopVars, hurdles>>

-----------------------------------------------------------------------------
Step == \/ Enter \/ Prepare \/ CutNetwork \/ SuspendCard \/ SuspendCardFails
        \/ SetTimer \/ SetTimerFails \/ Sleep \/ SleepFails \/ Wake \/ Act
        \/ CycleDone \/ CycleReinit \/ CycleReinitFails \/ End
        \/ LeaveStop \/ LeaveCard \/ LeaveNetwork \/ Exit

Next == (\E c \in Commands : StartProcess(c)) \/ Step \/ Kill \/ Reboot

Spec == Init /\ [][Next]_vars

-----------------------------------------------------------------------------
Labels == {"none", "enter", "prepare", "net", "card", "timer", "mem", "asleep",
           "awake", "cycle", "end", "leave", "leaveCard", "leaveNet", "exit"}

Flags ==
  /\ mounted \in BOOLEAN /\ sdBound \in BOOLEAN
  /\ suspendActive \in BOOLEAN /\ sdKnown \in BOOLEAN
  /\ gmacBound \in BOOLEAN /\ wakeOn \in BOOLEAN
  /\ gmacUnbound \in BOOLEAN /\ wakeWas \in BOOLEAN
  /\ inAov \in BOOLEAN /\ mediaUp \in BOOLEAN
  /\ eventStream \in BOOLEAN /\ needReinit \in BOOLEAN
  /\ downEth \in BOOLEAN /\ allowMem \in BOOLEAN /\ orphaned \in BOOLEAN

Positions ==
  /\ cmd \in Commands /\ pc \in Labels
  /\ state \in States /\ reason \in {"timer", "motion"}
  /\ hurdles \subseteq {"mount", "bind"}
  /\ left \in 0 .. LoopN
  /\ nproc \in 0 .. MaxProcesses
  /\ sinceReinit \in 0 .. LoopN

TypeOK == Flags /\ Positions /\ rec \in Recorder

(* The board sleeps with nothing to lose: the card is unmounted and no     *)
(* segment is open on it, whatever failed in this cycle or the ones before.*)
AsleepUnmounted == pc = "asleep" => ~mounted /\ ~rec.open

(* aov_leave has returned.                                                 *)
HasLeft == pc = "exit" /\ ~inAov

(* Whatever failed on the way, and however often the process was killed    *)
(* before, leaving AOV brings the card back, unless binding or mounting    *)
(* failed, or a process was gone with the driver unbound, and its path.    *)
CardComesBack == HasLeft => mounted \/ "mount" \in hurdles \/ orphaned

(* The same for Ethernet, where even a new process finds out by itself     *)
(* ("detect and rebind anyway").                                           *)
NetworkComesBack ==
  HasLeft /\ downEth => gmacBound \/ "bind" \in hurdles

(* "Keep motion armed so VENC packs refill the prerecord ring across sleep *)
(* cycles": with the media loop bound the recorder sleeps armed.           *)
MotionStaysArmed ==
  pc = "asleep" /\ loopBound => rec.inited /\ rec.mode = "motion"
=============================================================================
