------------------------------ MODULE AlarmForm ------------------------------
(***************************************************************************)
(* The settings of the motion alarm page over one life of the page.  Unlike *)
(* the face page it polls from mounting on, and a save that was accepted    *)
(* loads settings and events again, both or neither, and masks the page     *)
(* meanwhile; a refused save leaves the form alone.  Requests are handled   *)
(* later than sent and answered later still, and may be lost.  All settings *)
(* are one value, the list of events is the number of events it holds.      *)
(***************************************************************************)
EXTENDS Naturals

CONSTANTS MaxEvents   \* bound: events of the camera while the page is open

VARIABLES
    mounted, timer,  \* the page is open; its poll interval runs
    motion,          \* the settings the form shows, or NoForm
    stored,          \* the settings the device has stored
    list, happened,  \* events listed; events of the device
    load, saveReq, pollReq,  \* one request each; a load is two
    edit             \* history: the edit the form holds, or NoForm

alarmVars == <<mounted, timer, motion, stored, list, happened, load, saveReq, pollReq, edit>>

Gears == {"low", "high"}         \* settings the form offers
Settings == Gears \cup {"odd"}   \* older firmware may have stored others
NoForm == "none"
Idle == [st |-> "idle"]
Lost == [st |-> "lost"]
Pending == "pending"

\* A stored setting the form does not offer is shown as the nearest one it does
ensureDefaults(s) == IF s \in Gears THEN s ELSE "low"

Loading == [st |-> "sent", set |-> Pending, events |-> MaxEvents + 1]

Init ==
    /\ mounted = TRUE /\ timer = TRUE
    /\ motion = NoForm /\ stored \in Settings
    /\ list = 0 /\ happened = 0
    /\ load = Loading /\ saveReq = Idle /\ pollReq = Idle
    /\ edit = NoForm

-----------------------------------------------------------------------------
\* getAlarmMotion and getAlarmEvents at the device, in either order
LoadSettings ==
    /\ load.st = "sent" /\ load.set = Pending
    /\ load' = [load EXCEPT !.set = stored]
    /\ UNCHANGED <<mounted, timer, motion, stored, list, happened, saveReq, pollReq, edit>>

LoadEvents ==
    /\ load.st = "sent" /\ load.events > MaxEvents
    /\ load' = [load EXCEPT !.events = happened]
    /\ UNCHANGED <<mounted, timer, motion, stored, list, happened, saveReq, pollReq, edit>>

\* The rest of refresh, with both answers or after either failed
Loaded ==
    /\ load.st = "sent" /\ load.set # Pending /\ load.events <= MaxEvents
    /\ load' = Idle
    /\ motion' = ensureDefaults(load.set) /\ edit' = NoForm
    /\ list' = load.events
    /\ UNCHANGED <<mounted, timer, stored, happened, saveReq, pollReq>>

LoadFailed ==
    /\ load.st = "sent"
    /\ load' = Idle
    /\ UNCHANGED <<mounted, timer, motion, stored, list, happened, saveReq, pollReq, edit>>

\* A load masks the page, and without settings there is no form
Editable == mounted /\ load = Idle /\ motion # NoForm

Edit(s) ==
    /\ Editable
    /\ motion' = s /\ edit' = s
    /\ UNCHANGED <<mounted, timer, stored, list, happened, load, saveReq, pollReq>>

\* The first half of onSave; the button spins while a save is on the way
onSave ==
    /\ Editable /\ saveReq = Idle
    /\ saveReq' = [st |-> "sent", set |-> motion]
    /\ UNCHANGED <<mounted, timer, motion, stored, list, happened, load, pollReq, edit>>

\* The device stores the settings or refuses them; the answer may be lost
SaveHandled ==
    /\ saveReq.st = "sent"
    /\ \/ stored' = saveReq.set /\ saveReq' \in {[st |-> "ok"], Lost}
       \/ saveReq' = Lost /\ UNCHANGED stored
    /\ UNCHANGED <<mounted, timer, motion, list, happened, load, pollReq, edit>>

\* The rest of onSave waits for the refresh it starts
SaveAnswer ==
    /\ \/ saveReq.st = "ok" /\ load' = Loading /\ saveReq' = [st |-> "refresh"]
       \/ saveReq.st = "lost" /\ saveReq' = Idle /\ UNCHANGED load
       \/ saveReq.st = "refresh" /\ load = Idle /\ saveReq' = Idle /\ UNCHANGED load
    /\ UNCHANGED <<mounted, timer, motion, stored, list, happened, pollReq, edit>>

\* The 3 s interval asks for the events and for the settings, of which only
\* counters are taken; the answers to its two requests are one here
PollTick ==
    /\ timer /\ pollReq = Idle
    /\ pollReq' = [st |-> "sent"]
    /\ UNCHANGED <<mounted, timer, motion, stored, list, happened, load, saveReq, edit>>

PollRead ==
    /\ pollReq.st = "sent"
    /\ pollReq' = [st |-> "back", set |-> stored, events |-> happened]
    /\ UNCHANGED <<mounted, timer, motion, stored, list, happened, load, saveReq, edit>>

PollLost ==
    /\ pollReq.st = "sent"
    /\ pollReq' = Idle
    /\ UNCHANGED <<mounted, timer, motion, stored, list, happened, load, saveReq, edit>>

PollAnswer ==
    /\ pollReq.st = "back"
    /\ pollReq' = Idle
    /\ list' = pollReq.events
    /\ UNCHANGED <<mounted, timer, motion, stored, happened, load, saveReq, edit>>

\* The camera sees something move
Event ==
    /\ happened < MaxEvents
    /\ happened' = happened + 1
    /\ UNCHANGED <<mounted, timer, motion, stored, list, load, saveReq, pollReq, edit>>

\* onUnmounted
Leave ==
    /\ mounted
    /\ mounted' = FALSE /\ timer' = FALSE
    /\ UNCHANGED <<motion, stored, list, happened, load, saveReq, pollReq, edit>>

Next ==
    \/ LoadSettings \/ LoadEvents \/ Loaded \/ LoadFailed
    \/ \E s \in Gears : Edit(s)
    \/ onSave \/ SaveHandled \/ SaveAnswer
    \/ PollTick \/ PollRead \/ PollLost \/ PollAnswer \/ Event \/ Leave

Spec == Init /\ [][Next]_alarmVars

-----------------------------------------------------------------------------
TypeOK ==
    /\ {mounted, timer} \subseteq BOOLEAN
    /\ {motion, edit} \subseteq Gears \cup {NoForm} /\ stored \in Settings
    /\ {list, happened} \subseteq 0 .. MaxEvents
    /\ load.st \in {"idle", "sent"} /\ pollReq.st \in {"idle", "sent", "back"}
    /\ saveReq.st \in {"idle", "sent", "ok", "lost", "refresh"}

\* With no request for the settings on the way the form shows the user's edit,
\* or else what the device has stored: after a save whose reload failed, after
\* a refused or lost one, and with polls answered in between.
FormShows ==
    motion # NoForm /\ load = Idle /\ saveReq = Idle =>
        motion = IF edit # NoForm THEN edit ELSE ensureDefaults(stored)
=============================================================================
