------------------------------ MODULE AovProofs ------------------------------
(***************************************************************************)
(* What the AOV cycle guarantees for any number of cycles and of processes *)
(* that are killed one after the other.                                    *)
(***************************************************************************)
EXTENDS AovService, TLAPS

Loops == {"loop", "loopMedia"}
CycleLabels == {"prepare", "net", "card", "timer", "mem", "asleep", "awake", "cycle"}

(* What the counters need to stay in bounds.                               *)
Counting ==
  /\ pc = "enter" => cmd # "leave"
  /\ pc \in CycleLabels => cmd \in Loops \cup {"probe"}
  /\ pc = "cycle" => cmd \in Loops
  /\ pc \in CycleLabels \cup {"enter"} =>
       (cmd \in Loops => left >= 1) /\ left + sinceReinit <= LoopN

(* A controller without a driver is one the running process has put to     *)
(* sleep itself and knows how to wake, or one that no process knows.       *)
CardKnown ==
  /\ mounted => sdBound
  /\ pc # "none" /\ suspendActive => ~mounted
  /\ sdBound \/ orphaned \/ (pc # "none" /\ suspendActive /\ sdKnown)

Sleeping ==
  /\ pc \in {"timer", "mem", "asleep"} => ~mounted
  /\ pc \in {"net", "card", "timer", "mem", "asleep"} => ~rec.open

Leaving ==
  /\ pc = "leaveNet" => mounted \/ "mount" \in hurdles \/ orphaned
  /\ CardComesBack
  /\ NetworkComesBack

Counted == TypeOK /\ Counting
IInv == Counted /\ CardKnown /\ Sleeping /\ Leaving

-----------------------------------------------------------------------------
(* The operators the steps are built from keep types.                      *)
LEMMA RecorderTypes ==
  ASSUME NEW r \in Recorder
  PROVE  /\ Off \in Recorder /\ [Off EXCEPT !.inited = TRUE] \in Recorder
         /\ Armed(r) \in Recorder /\ Stopped(r) \in Recorder
         /\ OnMotion(r) \subseteq Recorder /\ EventFinished(r) \subseteq Recorder
BY DEF Recorder, Off, Armed, Stopped, OnMotion, EventFinished

LEMMA AfterEventTypes ==
  ASSUME NEW r, NEW s \in States
  PROVE  StateAfterEvent(r, s) \in States
BY DEF StateAfterEvent, States

LEMMA SuspendTypes ==
  ASSUME TypeOK, NEW known \in BOOLEAN, NEW unmounts \in BOOLEAN,
         NEW unbinds \in BOOLEAN, CardSuspended(known, unmounts, unbinds)
  PROVE  /\ mounted' \in BOOLEAN /\ sdBound' \in BOOLEAN
         /\ suspendActive' \in BOOLEAN /\ sdKnown' \in BOOLEAN
BY DEF TypeOK, Flags, CardSuspended, cardVars

LEMMA ResumeTypes ==
  ASSUME TypeOK, NEW binds \in BOOLEAN, NEW mounts \in BOOLEAN,
         CardResumed(binds, mounts)
  PROVE  /\ mounted' \in BOOLEAN /\ sdBound' \in BOOLEAN
         /\ suspendActive' \in BOOLEAN /\ sdKnown' \in BOOLEAN
BY DEF TypeOK, Flags, CardResumed, cardVars

LEMMA NetworkDownTypes ==
  ASSUME TypeOK, NEW unbinds \in BOOLEAN, NetworkSuspended(unbinds)
  PROVE  /\ gmacBound' \in BOOLEAN /\ wakeOn' \in BOOLEAN
         /\ gmacUnbound' \in BOOLEAN /\ wakeWas' \in BOOLEAN
BY DEF TypeOK, Flags, NetworkSuspended

LEMMA NetworkUpTypes ==
  ASSUME TypeOK, NEW binds \in BOOLEAN, NetworkRestored(binds)
  PROVE  /\ gmacBound' \in BOOLEAN /\ wakeOn' \in BOOLEAN
         /\ gmacUnbound' \in BOOLEAN /\ wakeWas' \in BOOLEAN
BY DEF TypeOK, Flags, NetworkRestored, NeedBind, netVars

LEMMA RestoreTypes ==
  ASSUME TypeOK, RestoreIfDown
  PROVE  /\ gmacBound' \in BOOLEAN /\ wakeOn' \in BOOLEAN
         /\ gmacUnbound' \in BOOLEAN /\ wakeWas' \in BOOLEAN
<1>1. CASE downEth
  <2>1. PICK binds \in BOOLEAN : NetworkRestored(binds)
    BY <1>1 DEF RestoreIfDown
  <2>2. QED
    BY <2>1, NetworkUpTypes
<1>2. CASE ~downEth
  BY <1>2 DEF RestoreIfDown, netVars, TypeOK, Flags
<1>3. QED
  BY <1>1, <1>2

LEMMA CountedInit == Init => Counted
<1>. SUFFICES ASSUME Init
              PROVE  Counted
  OBVIOUS
<1>1. Flags
  BY Zenon DEF Init, Flags
<1>2. Positions /\ Counting
  BY AovAssumption, SMT DEF Init, Positions, Counting, Loops, CycleLabels,
     States, Labels, Commands
<1>3. rec \in Recorder
  BY DEF Init, Off, Recorder
<1>4. QED
  BY <1>1, <1>2, <1>3 DEF Counted, TypeOK

(* Types and counters, action by action.                                   *)
LEMMA CountedStep == Counted /\ [Next]_vars => Counted'
<1>. SUFFICES ASSUME Counted, [Next]_vars
              PROVE  Counted'
  OBVIOUS
<1>. USE AovAssumption
<1>1. CASE \E c \in Commands : StartProcess(c)
  <2>1. PICK c \in Commands : StartProcess(c)
    BY <1>1
  <2>2. rec' \in Recorder
    BY <2>1, RecorderTypes DEF StartProcess, Counted, TypeOK
  <2>3. Flags'
    BY <2>1, <2>2, Zenon DEF StartProcess, Counted, TypeOK, Flags
  <2>4. Positions' /\ Counting'
    BY <2>1, <2>2, SMT DEF StartProcess, Counted, TypeOK, Flags,
       Positions, Counting, Loops, CycleLabels, Labels, Commands, States
  <2>5. QED
    BY <2>3, <2>4, <2>2 DEF Counted, TypeOK
<1>2. CASE Kill
  BY <1>2 DEF Kill, cardVars, netVars, aovVars, mediaVars, loopVars,
     historyVars, Counted, TypeOK, Flags, Positions, Counting, Loops,
     CycleLabels, States, Labels, Commands
<1>3. CASE Reboot
  <2>1. Flags'
    BY <1>3, Zenon DEF Reboot, aovVars, mediaVars, loopVars, Counted,
       TypeOK, Flags
  <2>2. Positions' /\ Counting'
    BY <1>3, SMT DEF Reboot, aovVars, mediaVars, loopVars, Counted, TypeOK,
       Flags, Positions, Counting, Loops, CycleLabels, Labels, Commands,
       States
  <2>3. rec' \in Recorder
    BY <1>3, RecorderTypes DEF Reboot, aovVars, mediaVars, loopVars,
       Counted, TypeOK
  <2>4. QED
    BY <2>1, <2>2, <2>3 DEF Counted, TypeOK
<1>4. CASE Enter
  <2>1. rec' \in Recorder
    BY <1>4, RecorderTypes DEF Enter, ForceStopped, Counted, TypeOK, Flags
  <2>2. Flags'
    BY <1>4, <2>1 DEF Enter, cardVars, netVars, aovVars, mediaVars,
       loopVars, historyVars, Counted, TypeOK, Flags
  <2>3. Positions' /\ Counting'
    BY <1>4, <2>1, SMT DEF Enter, cardVars, netVars, aovVars, mediaVars,
       loopVars, historyVars, Counted, TypeOK, Flags, Positions, Counting,
       Loops, CycleLabels, Labels, Commands, States
  <2>4. QED
    BY <2>2, <2>3, <2>1 DEF Counted, TypeOK
<1>5. CASE Prepare
  <2>1. rec' \in Recorder /\ state' \in States
    BY <1>5, RecorderTypes, AfterEventTypes DEF Prepare, ForceStopped,
       States, Counted, TypeOK, Positions
  <2>2. /\ eventStream' \in BOOLEAN
        /\ UNCHANGED <<cardVars, netVars, inAov, mediaUp, needReinit, loopVars,
                       historyVars>>
    BY <1>5 DEF Prepare
  <2>3. Flags'
    BY <2>2 DEF cardVars, netVars, loopVars, historyVars, Counted,
       TypeOK, Flags
  <2>4. Positions' /\ Counting'
    BY <1>5, <2>1, SMT DEF Prepare, loopVars, historyVars, Counted, TypeOK,
       Positions, Counting, Loops, CycleLabels, Labels, Commands
  <2>5. QED
    BY <2>1, <2>3, <2>4 DEF Counted, TypeOK
<1>6. CASE CutNetwork
  <2>1. /\ gmacBound' \in BOOLEAN /\ wakeOn' \in BOOLEAN
       /\ gmacUnbound' \in BOOLEAN /\ wakeWas' \in BOOLEAN
    BY <1>6, NetworkDownTypes DEF CutNetwork, Counted, TypeOK, Flags,
       netVars
  <2>2. Flags'
    <3>1. UNCHANGED <<cardVars, aovVars, mediaVars, loopVars, historyVars>>
      BY <1>6 DEF CutNetwork
    <3>2. QED
      BY <2>1, <3>1 DEF cardVars, aovVars, mediaVars, loopVars,
         historyVars, Counted, TypeOK, Flags
  <2>3. Positions' /\ Counting'
    BY <1>6, <2>1, SMT DEF CutNetwork, cardVars, netVars, aovVars,
       mediaVars, loopVars, historyVars, Counted, TypeOK, Flags, Positions,
       Counting, Loops, CycleLabels, Labels, Commands, States
  <2>4. rec' \in Recorder
    BY <1>6, <2>1, RecorderTypes DEF CutNetwork, cardVars, netVars, aovVars,
       mediaVars, loopVars, historyVars, Counted, TypeOK
  <2>5. QED
    BY <2>2, <2>3, <2>4 DEF Counted, TypeOK
<1>7. CASE SuspendCard
  <2>1. /\ mounted' \in BOOLEAN /\ sdBound' \in BOOLEAN
       /\ suspendActive' \in BOOLEAN /\ sdKnown' \in BOOLEAN
    BY <1>7, SuspendTypes DEF SuspendCard, Counted
  <2>2. Flags'
    BY <1>7, <2>1, Zenon DEF SuspendCard, cardVars, netVars, aovVars,
       mediaVars, loopVars, historyVars, Counted, TypeOK, Flags
  <2>3. Positions' /\ Counting'
    BY <1>7, <2>1, SMT DEF SuspendCard, cardVars, netVars, aovVars,
       mediaVars, loopVars, historyVars, Counted, TypeOK, Flags, Positions,
       Counting, Loops, CycleLabels, Labels, Commands, States
  <2>4. rec' \in Recorder
    BY <1>7, <2>1, RecorderTypes DEF SuspendCard, cardVars, netVars,
       aovVars, mediaVars, loopVars, historyVars, Counted, TypeOK
  <2>5. QED
    BY <2>2, <2>3, <2>4 DEF Counted, TypeOK
<1>8. CASE SuspendCardFails
  <2>1. /\ gmacBound' \in BOOLEAN /\ wakeOn' \in BOOLEAN
       /\ gmacUnbound' \in BOOLEAN /\ wakeWas' \in BOOLEAN
    BY <1>8, RestoreTypes DEF SuspendCardFails, Counted
  <2>2. Flags'
    BY <1>8, <2>1, Zenon DEF SuspendCardFails, cardVars, netVars, aovVars,
       mediaVars, loopVars, historyVars, Counted, TypeOK, Flags
  <2>3. Positions' /\ Counting'
    BY <1>8, <2>1, SMT DEF SuspendCardFails, cardVars, netVars, aovVars,
       mediaVars, loopVars, historyVars, Counted, TypeOK, Flags, Positions,
       Counting, Loops, CycleLabels, Labels, Commands, States
  <2>4. rec' \in Recorder
    BY <1>8, <2>1, RecorderTypes DEF SuspendCardFails, cardVars, netVars,
       aovVars, mediaVars, loopVars, historyVars, Counted, TypeOK
  <2>5. QED
    BY <2>2, <2>3, <2>4 DEF Counted, TypeOK
<1>9. CASE SetTimer
  BY <1>9 DEF SetTimer, cardVars, netVars, aovVars, mediaVars, loopVars,
     historyVars, Counted, TypeOK, Flags, Positions, Counting, Loops,
     CycleLabels, States, Labels, Commands
<1>10. CASE SetTimerFails
  <2>1. /\ mounted' \in BOOLEAN /\ sdBound' \in BOOLEAN
       /\ suspendActive' \in BOOLEAN /\ sdKnown' \in BOOLEAN
    BY <1>10, ResumeTypes DEF SetTimerFails, Counted
  <2>2. Flags'
    BY <1>10, <2>1, Zenon DEF SetTimerFails, cardVars, netVars, aovVars,
       mediaVars, loopVars, historyVars, Counted, TypeOK, Flags
  <2>3. Positions' /\ Counting'
    BY <1>10, <2>1, SMT DEF SetTimerFails, cardVars, netVars, aovVars,
       mediaVars, loopVars, historyVars, Counted, TypeOK, Flags, Positions,
       Counting, Loops, CycleLabels, Labels, Commands, States
  <2>4. rec' \in Recorder
    BY <1>10, <2>1, RecorderTypes DEF SetTimerFails, cardVars, netVars,
       aovVars, mediaVars, loopVars, historyVars, Counted, TypeOK
  <2>5. QED
    BY <2>2, <2>3, <2>4 DEF Counted, TypeOK
<1>11. CASE Sleep
  BY <1>11 DEF Sleep, cardVars, netVars, aovVars, mediaVars, loopVars,
     historyVars, Counted, TypeOK, Flags, Positions, Counting, Loops,
     CycleLabels, States, Labels, Commands
<1>12. CASE SleepFails
  <2>1. /\ mounted' \in BOOLEAN /\ sdBound' \in BOOLEAN
       /\ suspendActive' \in BOOLEAN /\ sdKnown' \in BOOLEAN
    BY <1>12, ResumeTypes DEF SleepFails, Counted
  <2>2. /\ gmacBound' \in BOOLEAN /\ wakeOn' \in BOOLEAN
       /\ gmacUnbound' \in BOOLEAN /\ wakeWas' \in BOOLEAN
    BY <1>12, RestoreTypes DEF SleepFails, Counted
  <2>3. Flags'
    BY <1>12, <2>1, <2>2, Zenon DEF SleepFails, cardVars, netVars, aovVars,
       mediaVars, loopVars, historyVars, Counted, TypeOK, Flags
  <2>4. Positions' /\ Counting'
    BY <1>12, <2>1, <2>2, SMT DEF SleepFails, cardVars, netVars, aovVars,
       mediaVars, loopVars, historyVars, Counted, TypeOK, Flags, Positions,
       Counting, Loops, CycleLabels, Labels, Commands, States
  <2>5. rec' \in Recorder
    BY <1>12, <2>1, <2>2, RecorderTypes DEF SleepFails, cardVars, netVars,
       aovVars, mediaVars, loopVars, historyVars, Counted, TypeOK
  <2>6. QED
    BY <2>3, <2>4, <2>5 DEF Counted, TypeOK
<1>13. CASE Wake
  <2>1. /\ mounted' \in BOOLEAN /\ sdBound' \in BOOLEAN
       /\ suspendActive' \in BOOLEAN /\ sdKnown' \in BOOLEAN
    BY <1>13, ResumeTypes DEF Wake, Counted
  <2>2. Flags'
    BY <1>13, <2>1, Zenon DEF Wake, cardVars, netVars, aovVars, mediaVars,
       loopVars, historyVars, Counted, TypeOK, Flags
  <2>3. Positions' /\ Counting'
    BY <1>13, <2>1, SMT DEF Wake, cardVars, netVars, aovVars, mediaVars,
       loopVars, historyVars, Counted, TypeOK, Flags, Positions, Counting,
       Loops, CycleLabels, Labels, Commands, States
  <2>4. rec' \in Recorder
    BY <1>13, <2>1, RecorderTypes DEF Wake, cardVars, netVars, aovVars,
       mediaVars, loopVars, historyVars, Counted, TypeOK
  <2>5. QED
    BY <2>2, <2>3, <2>4 DEF Counted, TypeOK
<1>14. CASE Act
  <2>1. rec' \in Recorder
    BY <1>14, RecorderTypes DEF Act, Counted, TypeOK
  <2>2. eventStream' \in BOOLEAN /\ needReinit' \in BOOLEAN
    <3>1. CASE reason = "motion"
      <4>1. eventStream' = TRUE /\ needReinit' = needReinit
        BY <1>14, <3>1 DEF Act
      <4>2. QED
        BY <4>1 DEF Counted, TypeOK, Flags
    <3>2. CASE reason # "motion"
      <4>1. /\ needReinit' \in {needReinit, TRUE}
            /\ eventStream' = eventStream
        BY <1>14, <3>2 DEF Act
      <4>2. QED
        BY <4>1 DEF Counted, TypeOK, Flags
    <3>3. QED
      BY <3>1, <3>2
  <2>3. UNCHANGED <<cardVars, netVars, inAov, mediaUp, loopVars, historyVars>>
    BY <1>14 DEF Act
  <2>4. Flags'
    BY <2>2, <2>3 DEF cardVars, netVars, loopVars, historyVars, Counted,
       TypeOK, Flags
  <2>5. state' \in States
    BY <1>14 DEF Act, States
  <2>6. pc' = (IF cmd = "probe" THEN "leave" ELSE "cycle") /\ pc = "awake"
    BY <1>14 DEF Act
  <2>7. UNCHANGED <<reason, sinceReinit, loopVars, historyVars>>
    BY <1>14 DEF Act
  <2>8. Positions' /\ Counting'
    BY <2>5, <2>6, <2>7, SMT DEF loopVars, historyVars, Counted, TypeOK,
       Positions, Counting, Loops, CycleLabels, Labels, Commands
  <2>9. QED
    BY <2>1, <2>4, <2>8 DEF Counted, TypeOK
<1>15. CASE CycleDone
  BY <1>15 DEF CycleDone, Continue, cardVars, netVars, aovVars, mediaVars,
     loopVars, historyVars, Counted, TypeOK, Flags, Positions, Counting,
     Loops, CycleLabels, States, Labels, Commands
<1>16. CASE CycleReinit
  <2>1. rec' \in Recorder /\ state' \in States
    BY <1>16, RecorderTypes, AfterEventTypes DEF CycleReinit, Counted,
       TypeOK, Positions
  <2>2. Flags'
    <3>1. UNCHANGED <<cardVars, netVars, inAov, mediaUp, downEth, allowMem,
                      historyVars>>
      BY <1>16 DEF CycleReinit
    <3>2. eventStream' \in BOOLEAN /\ needReinit' \in BOOLEAN
      BY <1>16 DEF CycleReinit
    <3>3. QED
      BY <2>1, <3>1, <3>2 DEF cardVars, netVars, historyVars, Counted,
         TypeOK, Flags
  <2>3. Positions' /\ Counting'
    BY <1>16, <2>1, SMT DEF CycleReinit, Continue, cardVars, netVars,
       aovVars, mediaVars, loopVars, historyVars, Counted, TypeOK, Flags,
       Positions, Counting, Loops, CycleLabels, Labels, Commands, States
  <2>4. QED
    BY <2>2, <2>3, <2>1 DEF Counted, TypeOK
<1>17. CASE CycleReinitFails
  <2>1. rec' \in Recorder /\ state' \in States
    BY <1>17, RecorderTypes, AfterEventTypes DEF CycleReinitFails, Counted,
       TypeOK, Positions
  <2>2. Flags'
    <3>1. UNCHANGED <<cardVars, netVars, inAov, loopVars, historyVars>>
      BY <1>17 DEF CycleReinitFails
    <3>2. /\ eventStream' \in BOOLEAN /\ needReinit' \in BOOLEAN
          /\ mediaUp' \in BOOLEAN
      BY <1>17 DEF CycleReinitFails
    <3>3. QED
      BY <2>1, <3>1, <3>2 DEF cardVars, netVars, loopVars,
         historyVars, Counted, TypeOK, Flags
  <2>3. Positions' /\ Counting'
    BY <1>17, <2>1, SMT DEF CycleReinitFails, cardVars, netVars, aovVars,
       mediaVars, loopVars, historyVars, Counted, TypeOK, Flags, Positions,
       Counting, Loops, CycleLabels, Labels, Commands, States
  <2>4. QED
    BY <2>2, <2>3, <2>1 DEF Counted, TypeOK
<1>18. CASE End
  <2>1. rec' \in Recorder /\ state' \in States
    BY <1>18, RecorderTypes, AfterEventTypes DEF End, Counted, TypeOK,
       Positions
  <2>2. eventStream' \in BOOLEAN
    <3>1. eventStream' = eventStream \/ eventStream' = FALSE
      BY <1>18 DEF End
    <3>2. QED
      BY <3>1 DEF Counted, TypeOK, Flags
  <2>3. UNCHANGED <<cardVars, netVars, inAov, mediaUp, needReinit, loopVars,
                    historyVars>>
    BY <1>18 DEF End
  <2>4. Flags'
    BY <2>2, <2>3 DEF cardVars, netVars, loopVars, historyVars, Counted,
       TypeOK, Flags
  <2>5. Positions' /\ Counting'
    BY <1>18, <2>1, SMT DEF End, loopVars, historyVars, Counted, TypeOK,
       Positions, Counting, Loops, CycleLabels, Labels, Commands
  <2>6. QED
    BY <2>1, <2>4, <2>5 DEF Counted, TypeOK
<1>19. CASE LeaveStop
  <2>1. rec' \in Recorder
    BY <1>19, RecorderTypes DEF LeaveStop, Counted, TypeOK, Flags
  <2>2. Flags'
    BY <1>19, <2>1 DEF LeaveStop, cardVars, netVars, aovVars, mediaVars,
       loopVars, historyVars, Counted, TypeOK, Flags
  <2>3. Positions' /\ Counting'
    BY <1>19, <2>1, SMT DEF LeaveStop, cardVars, netVars, aovVars,
       mediaVars, loopVars, historyVars, Counted, TypeOK, Flags, Positions,
       Counting, Loops, CycleLabels, Labels, Commands, States
  <2>4. QED
    BY <2>2, <2>3, <2>1 DEF Counted, TypeOK
<1>20. CASE LeaveCard
  <2>1. /\ mounted' \in BOOLEAN /\ sdBound' \in BOOLEAN
       /\ suspendActive' \in BOOLEAN /\ sdKnown' \in BOOLEAN
    BY <1>20, ResumeTypes DEF LeaveCard, Counted
  <2>2. Flags'
    <3>1. UNCHANGED <<netVars, aovVars, mediaVars, loopVars, orphaned>>
      BY <1>20 DEF LeaveCard
    <3>2. QED
      BY <2>1, <3>1 DEF netVars, aovVars, mediaVars, loopVars,
         Counted, TypeOK, Flags
  <2>3. Positions' /\ Counting'
    BY <1>20, <2>1, SMT DEF LeaveCard, cardVars, netVars, aovVars,
       mediaVars, loopVars, historyVars, Counted, TypeOK, Flags, Positions,
       Counting, Loops, CycleLabels, Labels, Commands, States
  <2>4. rec' \in Recorder
    BY <1>20, <2>1, RecorderTypes DEF LeaveCard, cardVars, netVars, aovVars,
       mediaVars, loopVars, historyVars, Counted, TypeOK
  <2>5. QED
    BY <2>2, <2>3, <2>4 DEF Counted, TypeOK
<1>21. CASE LeaveNetwork
  <2>1. /\ gmacBound' \in BOOLEAN /\ wakeOn' \in BOOLEAN
       /\ gmacUnbound' \in BOOLEAN /\ wakeWas' \in BOOLEAN
    BY <1>21, NetworkUpTypes DEF LeaveNetwork, Counted, TypeOK, Flags,
       netVars
  <2>2. Flags'
    BY <1>21, <2>1, Zenon DEF LeaveNetwork, cardVars, netVars, aovVars,
       mediaVars, loopVars, historyVars, Counted, TypeOK, Flags
  <2>3. hurdles' \subseteq {"mount", "bind"}
    <3>1. CASE downEth
      <4>1. PICK binds \in BOOLEAN :
              hurdles' = hurdles \cup (IF binds THEN {} ELSE {"bind"})
        BY <1>21, <3>1 DEF LeaveNetwork
      <4>2. QED
        BY <4>1 DEF Counted, TypeOK, Positions
    <3>2. CASE ~downEth
      BY <1>21, <3>2 DEF LeaveNetwork, Counted, TypeOK, Positions
    <3>3. QED
      BY <3>1, <3>2
  <2>4. /\ pc' = "exit" /\ state' = "idle"
        /\ UNCHANGED <<reason, sinceReinit, loopVars>>
    BY <1>21 DEF LeaveNetwork, mediaVars
  <2>5. Positions' /\ Counting'
    BY <2>3, <2>4, SMT DEF loopVars, Counted, TypeOK, Positions, Counting,
       CycleLabels, Labels, States
  <2>6. rec' \in Recorder
    BY <1>21, <2>1, RecorderTypes DEF LeaveNetwork, cardVars, netVars,
       aovVars, mediaVars, loopVars, historyVars, Counted, TypeOK
  <2>7. QED
    BY <2>2, <2>5, <2>6 DEF Counted, TypeOK
<1>22. CASE Exit
  <2>1. rec' \in Recorder
    BY <1>22, RecorderTypes DEF Exit, Counted, TypeOK, Flags
  <2>2. Flags'
    <3>1. UNCHANGED <<cardVars, netVars, aovVars, eventStream, needReinit,
                      loopVars>>
      BY <1>22 DEF Exit
    <3>2. mediaUp' \in BOOLEAN /\ orphaned' \in BOOLEAN
      BY <1>22 DEF Exit
    <3>3. QED
      BY <2>1, <3>1, <3>2 DEF cardVars, netVars, aovVars, loopVars,
         Counted, TypeOK, Flags
  <2>3. Positions' /\ Counting'
    BY <1>22, <2>1, SMT DEF Exit, cardVars, netVars, aovVars, mediaVars,
       loopVars, historyVars, Counted, TypeOK, Flags, Positions, Counting,
       Loops, CycleLabels, Labels, Commands, States
  <2>4. QED
    BY <2>2, <2>3, <2>1 DEF Counted, TypeOK
<1>23. CASE UNCHANGED vars
  BY <1>23 DEF vars, cardVars, netVars, aovVars, mediaVars, loopVars,
     historyVars, Counted, TypeOK, Flags, Positions, Counting, Loops,
     CycleLabels, States, Labels, Commands
<1>24. QED
  BY <1>1, <1>2, <1>3, <1>4, <1>5, <1>6, <1>7, <1>8, <1>9, <1>10, <1>11,
     <1>12, <1>13, <1>14, <1>15, <1>16, <1>17, <1>18, <1>19, <1>20, <1>21,
     <1>22, <1>23 DEF Next, Step


(* Every variable keeps its type, whatever fails and is killed: in         *)
(* particular the loop counts its cycles without running past N.           *)
THEOREM AovTypesAlwaysOK == Spec => []TypeOK
<1>1. Spec => []Counted
  BY CountedInit, CountedStep, PTL DEF Spec
<1>2. Counted => TypeOK
  BY DEF Counted
<1>3. QED
  BY <1>1, <1>2, PTL

-----------------------------------------------------------------------------
(* What taking the card down and bringing it back keep.                    *)
LEMMA SuspendKeeps ==
  ASSUME TypeOK, CardKnown, pc # "none", pc' # "none", UNCHANGED orphaned,
         NEW known \in BOOLEAN, NEW unmounts \in BOOLEAN, NEW unbinds \in BOOLEAN,
         CardSuspended(known, unmounts, unbinds)
  PROVE  CardKnown' /\ ~mounted'
<1>1. CASE suspendActive
  BY <1>1 DEF CardSuspended, CardKnown, cardVars
<1>2. CASE ~suspendActive
  <2>1. CASE mounted /\ known /\ unbinds
    BY <1>2, <2>1 DEF CardSuspended, CardKnown
  <2>2. CASE ~(mounted /\ known /\ unbinds)
    BY <1>2, <2>2 DEF CardSuspended, CardKnown
  <2>3. QED
    BY <2>1, <2>2
<1>3. QED
  BY <1>1, <1>2 DEF TypeOK, Flags

LEMMA ResumeKeeps ==
  ASSUME TypeOK, CardKnown, pc # "none", pc' # "none", UNCHANGED orphaned,
         NEW binds \in BOOLEAN, NEW mounts \in BOOLEAN, CardResumed(binds, mounts)
  PROVE  /\ CardKnown'
         /\ binds /\ mounts => mounted' \/ orphaned'
<1>1. CASE ~suspendActive /\ mounted
  BY <1>1 DEF CardResumed, CardKnown, cardVars
<1>2. CASE ~(~suspendActive /\ mounted)
  BY <1>2 DEF CardResumed, CardKnown, TypeOK, Flags
<1>3. QED
  BY <1>1, <1>2

(* Which process knows the card's driver, action by action.                *)
LEMMA CardStep == Counted /\ CardKnown /\ [Next]_vars => CardKnown'
<1>. SUFFICES ASSUME Counted, CardKnown, [Next]_vars
              PROVE  CardKnown'
  OBVIOUS
<1>1. CASE \E c \in Commands : StartProcess(c)
  BY <1>1 DEF StartProcess, CardKnown, cardVars, historyVars, Counted,
     TypeOK, Flags
<1>2. CASE Kill
  BY <1>2 DEF Kill, CardKnown, cardVars, historyVars, Counted, TypeOK, Flags
<1>3. CASE Reboot
  BY <1>3 DEF Reboot, CardKnown, cardVars, historyVars, Counted, TypeOK,
     Flags
<1>4. CASE Enter
  BY <1>4 DEF Enter, CardKnown, cardVars, historyVars, Counted, TypeOK,
     Flags
<1>5. CASE Prepare
  BY <1>5 DEF Prepare, CardKnown, cardVars, historyVars, Counted, TypeOK,
     Flags
<1>6. CASE CutNetwork
  BY <1>6 DEF CutNetwork, CardKnown, cardVars, historyVars, Counted, TypeOK,
     Flags
<1>7. CASE SuspendCard
  BY <1>7, SuspendKeeps DEF SuspendCard, Counted, historyVars
<1>8. CASE SuspendCardFails
  BY <1>8 DEF SuspendCardFails, CardKnown, cardVars, historyVars, Counted,
     TypeOK, Flags
<1>9. CASE SetTimer
  BY <1>9 DEF SetTimer, CardKnown, cardVars, historyVars, Counted, TypeOK,
     Flags
<1>10. CASE SetTimerFails
  BY <1>10, ResumeKeeps DEF SetTimerFails, Counted, historyVars
<1>11. CASE Sleep
  BY <1>11 DEF Sleep, CardKnown, cardVars, historyVars, Counted, TypeOK,
     Flags
<1>12. CASE SleepFails
  BY <1>12, ResumeKeeps DEF SleepFails, Counted, historyVars
<1>13. CASE Wake
  BY <1>13, ResumeKeeps DEF Wake, Counted, historyVars
<1>14. CASE Act
  BY <1>14 DEF Act, CardKnown, cardVars, historyVars, Counted, TypeOK, Flags
<1>15. CASE CycleDone
  BY <1>15 DEF CycleDone, Continue, CardKnown, cardVars, historyVars,
     Counted, TypeOK, Flags
<1>16. CASE CycleReinit
  BY <1>16 DEF CycleReinit, Continue, CardKnown, cardVars, historyVars,
     Counted, TypeOK, Flags
<1>17. CASE CycleReinitFails
  BY <1>17 DEF CycleReinitFails, CardKnown, cardVars, historyVars, Counted,
     TypeOK, Flags
<1>18. CASE End
  BY <1>18 DEF End, CardKnown, cardVars, historyVars, Counted, TypeOK, Flags
<1>19. CASE LeaveStop
  BY <1>19 DEF LeaveStop, CardKnown, cardVars, historyVars, Counted, TypeOK,
     Flags
<1>20. CASE LeaveCard
  BY <1>20, ResumeKeeps DEF LeaveCard, Counted
<1>21. CASE LeaveNetwork
  BY <1>21 DEF LeaveNetwork, CardKnown, cardVars, historyVars, Counted,
     TypeOK, Flags
<1>22. CASE Exit
  BY <1>22 DEF Exit, CardKnown, cardVars, historyVars, Counted, TypeOK,
     Flags
<1>23. CASE UNCHANGED vars
  BY <1>23 DEF vars, cardVars, historyVars, CardKnown
<1>24. QED
  BY <1>1, <1>2, <1>3, <1>4, <1>5, <1>6, <1>7, <1>8, <1>9, <1>10, <1>11,
     <1>12, <1>13, <1>14, <1>15, <1>16, <1>17, <1>18, <1>19, <1>20, <1>21,
     <1>22, <1>23 DEF Next, Step

(* The board goes to sleep unmounted, action by action.                    *)
LEMMA SleepStep == Counted /\ CardKnown /\ Sleeping /\ [Next]_vars => Sleeping'
<1>. SUFFICES ASSUME Counted, CardKnown, Sleeping, [Next]_vars
              PROVE  Sleeping'
  OBVIOUS
<1>1. CASE \E c \in Commands : StartProcess(c)
  BY <1>1 DEF StartProcess, Sleeping, cardVars, mediaVars
<1>2. CASE Kill
  BY <1>2 DEF Kill, Sleeping, cardVars, mediaVars
<1>3. CASE Reboot
  BY <1>3 DEF Reboot, Sleeping, cardVars, mediaVars
<1>4. CASE Enter
  BY <1>4 DEF Enter, Sleeping, cardVars, mediaVars
<1>5. CASE Prepare
  BY <1>5 DEF Prepare, ForceStopped, EventFinished, Running, Off, Armed,
     Stopped, Sleeping, cardVars
<1>6. CASE CutNetwork
  BY <1>6 DEF CutNetwork, Sleeping, cardVars, mediaVars
<1>7. CASE SuspendCard
  BY <1>7, SuspendKeeps DEF SuspendCard, Counted, historyVars, mediaVars,
     Sleeping
<1>8. CASE SuspendCardFails
  BY <1>8 DEF SuspendCardFails, Sleeping, cardVars, mediaVars
<1>9. CASE SetTimer
  BY <1>9 DEF SetTimer, Sleeping, cardVars, mediaVars
<1>10. CASE SetTimerFails
  BY <1>10 DEF SetTimerFails, Sleeping, cardVars, mediaVars
<1>11. CASE Sleep
  BY <1>11 DEF Sleep, Sleeping, cardVars, mediaVars
<1>12. CASE SleepFails
  BY <1>12 DEF SleepFails, Sleeping, cardVars, mediaVars
<1>13. CASE Wake
  BY <1>13 DEF Wake, Sleeping, cardVars, mediaVars
<1>14. CASE Act
  BY <1>14 DEF Act, Sleeping, cardVars, mediaVars
<1>15. CASE CycleDone
  BY <1>15 DEF CycleDone, Continue, Sleeping, cardVars, mediaVars
<1>16. CASE CycleReinit
  BY <1>16 DEF CycleReinit, Continue, Sleeping, cardVars, mediaVars
<1>17. CASE CycleReinitFails
  BY <1>17 DEF CycleReinitFails, Sleeping, cardVars, mediaVars
<1>18. CASE End
  BY <1>18 DEF End, Sleeping, cardVars, mediaVars
<1>19. CASE LeaveStop
  BY <1>19 DEF LeaveStop, Sleeping, cardVars, mediaVars
<1>20. CASE LeaveCard
  BY <1>20 DEF LeaveCard, Sleeping, cardVars, mediaVars
<1>21. CASE LeaveNetwork
  BY <1>21 DEF LeaveNetwork, Sleeping, cardVars, mediaVars
<1>22. CASE Exit
  BY <1>22 DEF Exit, Sleeping, cardVars, mediaVars
<1>23. CASE UNCHANGED vars
  BY <1>23 DEF vars, cardVars, mediaVars, Sleeping
<1>24. QED
  BY <1>1, <1>2, <1>3, <1>4, <1>5, <1>6, <1>7, <1>8, <1>9, <1>10, <1>11,
     <1>12, <1>13, <1>14, <1>15, <1>16, <1>17, <1>18, <1>19, <1>20, <1>21,
     <1>22, <1>23 DEF Next, Step

(* Leaving AOV, action by action.                                          *)
LEMMA LeavingStep == Counted /\ CardKnown /\ Leaving /\ [Next]_vars => Leaving'
<1>. SUFFICES ASSUME Counted, CardKnown, Leaving, [Next]_vars
              PROVE  Leaving'
  OBVIOUS
<1>1. CASE \E c \in Commands : StartProcess(c)
  BY <1>1 DEF StartProcess, Leaving, CardComesBack, NetworkComesBack,
     HasLeft
<1>2. CASE Kill
  BY <1>2 DEF Kill, Leaving, CardComesBack, NetworkComesBack, HasLeft
<1>3. CASE Reboot
  BY <1>3 DEF Reboot, Leaving, CardComesBack, NetworkComesBack, HasLeft
<1>4. CASE Enter
  BY <1>4 DEF Enter, Leaving, CardComesBack, NetworkComesBack, HasLeft
<1>5. CASE Prepare
  BY <1>5 DEF Prepare, Leaving, CardComesBack, NetworkComesBack, HasLeft
<1>6. CASE CutNetwork
  BY <1>6 DEF CutNetwork, Leaving, CardComesBack, NetworkComesBack, HasLeft
<1>7. CASE SuspendCard
  BY <1>7 DEF SuspendCard, Leaving, CardComesBack, NetworkComesBack, HasLeft
<1>8. CASE SuspendCardFails
  BY <1>8 DEF SuspendCardFails, Leaving, CardComesBack, NetworkComesBack,
     HasLeft
<1>9. CASE SetTimer
  BY <1>9 DEF SetTimer, Leaving, CardComesBack, NetworkComesBack, HasLeft
<1>10. CASE SetTimerFails
  BY <1>10 DEF SetTimerFails, Leaving, CardComesBack, NetworkComesBack,
     HasLeft
<1>11. CASE Sleep
  BY <1>11 DEF Sleep, Leaving, CardComesBack, NetworkComesBack, HasLeft
<1>12. CASE SleepFails
  BY <1>12 DEF SleepFails, Leaving, CardComesBack, NetworkComesBack, HasLeft
<1>13. CASE Wake
  BY <1>13 DEF Wake, Leaving, CardComesBack, NetworkComesBack, HasLeft
<1>14. CASE Act
  BY <1>14 DEF Act, Leaving, CardComesBack, NetworkComesBack, HasLeft
<1>15. CASE CycleDone
  BY <1>15 DEF CycleDone, Continue, Leaving, CardComesBack,
     NetworkComesBack, HasLeft
<1>16. CASE CycleReinit
  BY <1>16 DEF CycleReinit, Continue, Leaving, CardComesBack,
     NetworkComesBack, HasLeft
<1>17. CASE CycleReinitFails
  BY <1>17 DEF CycleReinitFails, Leaving, CardComesBack, NetworkComesBack,
     HasLeft
<1>18. CASE End
  BY <1>18 DEF End, Leaving, CardComesBack, NetworkComesBack, HasLeft
<1>19. CASE LeaveStop
  BY <1>19 DEF LeaveStop, Leaving, CardComesBack, NetworkComesBack, HasLeft
<1>20. CASE LeaveCard
  BY <1>20, ResumeKeeps DEF LeaveCard, Counted, Leaving, CardComesBack,
     NetworkComesBack, HasLeft
<1>21. CASE LeaveNetwork
  BY <1>21 DEF LeaveNetwork, NetworkRestored, NeedBind, cardVars, netVars,
     loopVars, Counted, TypeOK, Flags, Leaving, CardComesBack,
     NetworkComesBack, HasLeft
<1>22. CASE Exit
  BY <1>22 DEF Exit, Leaving, CardComesBack, NetworkComesBack, HasLeft
<1>23. CASE UNCHANGED vars
  BY <1>23 DEF vars, cardVars, netVars, aovVars, loopVars, historyVars,
     Leaving, CardComesBack, NetworkComesBack, HasLeft
<1>24. QED
  BY <1>1, <1>2, <1>3, <1>4, <1>5, <1>6, <1>7, <1>8, <1>9, <1>10, <1>11,
     <1>12, <1>13, <1>14, <1>15, <1>16, <1>17, <1>18, <1>19, <1>20, <1>21,
     <1>22, <1>23 DEF Next, Step

-----------------------------------------------------------------------------
(* IInv is inductive.                                                      *)
LEMMA InductiveInvariant == Spec => []IInv
<1>1. Init => IInv
  <2>. SUFFICES ASSUME Init
                PROVE  CardKnown /\ Sleeping /\ Leaving
    BY CountedInit DEF IInv
  <2>1. QED
    BY DEF Init, CardKnown, Sleeping, Leaving, CardComesBack,
       NetworkComesBack, HasLeft
<1>2. IInv /\ [Next]_vars => IInv'
  BY CountedStep, CardStep, SleepStep, LeavingStep DEF IInv
<1>3. QED
  BY <1>1, <1>2, PTL DEF Spec

(* The board never sleeps with the card mounted or a segment open.         *)
THEOREM AlwaysAsleepUnmounted == Spec => []AsleepUnmounted
<1>1. IInv => AsleepUnmounted
  BY DEF IInv, Sleeping, AsleepUnmounted
<1>2. QED
  BY <1>1, InductiveInvariant, PTL

(* Leaving AOV brings the card back, however many cycles failed and        *)
(* however many processes were killed before.                              *)
THEOREM CardAlwaysComesBack == Spec => []CardComesBack
<1>1. IInv => CardComesBack
  BY DEF IInv, Leaving
<1>2. QED
  BY <1>1, InductiveInvariant, PTL

(* Leaving AOV brings Ethernet back, without any such exception.           *)
THEOREM NetworkAlwaysComesBack == Spec => []NetworkComesBack
<1>1. IInv => NetworkComesBack
  BY DEF IInv, Leaving
<1>2. QED
  BY <1>1, InductiveInvariant, PTL

=============================================================================
