------------------------------ MODULE FaceForm ------------------------------
(***************************************************************************)
(* The settings half of the face page, over one life of the page from       *)
(* mounting to after leaving: the first load, the form the user edits, the  *)
(* save, and the 3 s poll.  A request is sent, handled by the device later, *)
(* and answered later still; an answer may be lost.  A continuation that    *)
(* runs after the page was left is the same continuation.  All settings are *)
(* one value; FaceEvents is the other half of the page.                     *)
(***************************************************************************)
EXTENDS Naturals

VARIABLES
    stage,   \* "first" while the first load is on the way, "live", "left"
    timer,   \* the poll interval is running
    face,    \* the settings the form shows, or NoForm
    device,  \* the settings the device has stored
    load, save, poll,  \* one request each
    typed,   \* history: the edit the form holds, or NoForm
    early    \* history: the page was left during its first load

formVars == <<stage, timer, face, device, load, save, poll, typed, early>>

Offered == {"a", "b"}             \* settings the form can show
Settings == Offered \cup {"odd"}  \* settings older firmware may have stored
NoForm == "none"
Idle == [st |-> "idle"]
Sent == [st |-> "sent"]
Lost == [st |-> "lost"]
Back(v) == [st |-> "back", set |-> v]

\* A stored setting the form does not offer is shown as the nearest offered one
ensureDefaults(v) == IF v \in Offered THEN v ELSE "a"

Init ==
    /\ stage = "first" /\ timer = FALSE
    /\ face = NoForm /\ device \in Settings
    /\ load = Sent /\ save = Idle /\ poll = Idle
    /\ typed = NoForm /\ early = FALSE

-----------------------------------------------------------------------------
\* getFaceConfig at the device
LoadRead ==
    /\ load = Sent
    /\ load' \in {Back(device), Lost}
    /\ UNCHANGED <<stage, timer, face, device, save, poll, typed, early>>

\* The rest of refreshConfig and of onMounted: the interval is started, also
\* when the page was left meanwhile
Loaded ==
    /\ load.st \in {"back", "lost"}
    /\ load' = Idle
    /\ face' = IF load.st = "back" THEN ensureDefaults(load.set) ELSE face
    /\ stage' = IF stage = "first" THEN "live" ELSE stage
    /\ timer' = TRUE
    /\ UNCHANGED <<device, save, poll, typed, early>>

\* The template shows the form once there is one; while the first load is on
\* the way the page is masked
Editable == stage = "live" /\ face # NoForm

Edit(v) ==
    /\ Editable
    /\ face' = v /\ typed' = v
    /\ UNCHANGED <<stage, timer, device, load, save, poll, early>>

\* The first half of onSave; the button spins while a save is on the way
onSave ==
    /\ Editable /\ save = Idle
    /\ save' = [st |-> "sent", set |-> face]
    /\ UNCHANGED <<stage, timer, face, device, load, poll, typed, early>>

\* The device stores the settings, or refuses them and answers with what it
\* has; either way the answer, or the request before it, may be lost
SaveHandled ==
    /\ save.st = "sent"
    /\ \/ device' = save.set /\ save' \in {Back(save.set), Lost}
       \/ save' \in {Back(device), Lost} /\ UNCHANGED device
    /\ UNCHANGED <<stage, timer, face, load, poll, typed, early>>

\* The second half of onSave: accepted or refused, the answer's data replaces
\* the form
SaveAnswer ==
    /\ save.st \in {"back", "lost"}
    /\ save' = Idle
    /\ IF save.st = "back" THEN face' = ensureDefaults(save.set) /\ typed' = NoForm
       ELSE UNCHANGED <<face, typed>>
    /\ UNCHANGED <<stage, timer, device, load, poll, early>>

\* The 3 s interval, one poll on the way at a time, and the device's answer
PollTick ==
    /\ timer /\ poll = Idle
    /\ poll' = Sent
    /\ UNCHANGED <<stage, timer, face, device, load, save, typed, early>>

PollRead ==
    /\ poll = Sent
    /\ poll' \in {Back(device), Idle}
    /\ UNCHANGED <<stage, timer, face, device, load, save, typed, early>>

\* The poll's answer holds the settings too, but only counters are taken
\* (with a defect: all of it is taken)
PollAnswerReplaces ==
    /\ poll.st = "back"
    /\ poll' = Idle
    /\ face' = ensureDefaults(poll.set)
    /\ UNCHANGED <<stage, timer, device, load, save, typed, early>>

PollAnswer ==
    /\ poll.st = "back"
    /\ poll' = Idle
    /\ UNCHANGED <<stage, timer, face, device, load, save, typed, early>>

\* onUnmounted
Leave ==
    /\ stage # "left"
    /\ stage' = "left" /\ timer' = FALSE
    /\ early' = (stage = "first")
    /\ UNCHANGED <<face, device, load, save, poll, typed>>

Next ==
    \/ LoadRead \/ Loaded \/ onSave \/ SaveHandled \/ SaveAnswer
    \/ \E v \in Offered : Edit(v)
    \/ PollTick \/ PollRead \/ PollAnswer \/ Leave

Spec == Init /\ [][Next]_formVars

-----------------------------------------------------------------------------
Reply == {Lost} \cup {Back(v) : v \in Settings}

TypeOK ==
    /\ stage \in {"first", "live", "left"} /\ timer \in BOOLEAN /\ early \in BOOLEAN
    /\ face \in Offered \cup {NoForm} /\ typed \in Offered \cup {NoForm}
    /\ device \in Settings
    /\ load \in {Idle, Sent} \cup Reply /\ poll \in {Idle, Sent} \cup Reply
    /\ save \in {Idle} \cup [st : {"sent"}, set : Offered] \cup Reply

\* With no save on the way the form shows what the user typed, or else what the
\* device has stored: polls and lost answers change neither, and an answer
\* that replaces an edit shows the device's value.
FormShows ==
    face # NoForm /\ save = Idle =>
        face = IF typed # NoForm THEN typed ELSE ensureDefaults(device)
=============================================================================
