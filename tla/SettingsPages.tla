--------------------------- MODULE SettingsPages ---------------------------
(***************************************************************************)
(* The pages that load parts of the device's configuration into a form and  *)
(* save each part with a button of its own: picture, streams and OSD; name, *)
(* time and reboot plan; record plan; and the recycle percentage of the     *)
(* storage page, which is a field of the record plan's part.  A part has a  *)
(* field the user edits here (own) and the fields sent along with it        *)
(* (rest), which change on the device by themselves: by another window, and *)
(* the time by the clock.  Requests are handled in any order, and refused,  *)
(* stored without taking effect, or lost.                                   *)
(***************************************************************************)
VARIABLES
    page,    \* the page that is open
    form,    \* what its form holds
    loaded,  \* "loading", "ok" or "failed"
    read,    \* parts the device has answered to the load
    saves,   \* the save of each part
    asked,   \* the part an open confirmation is about, or "none"
    device,  \* what the device has stored
    typed,   \* history: parts with an edit that no answer has replaced
    other    \* history: parts changed by others

settingsVars == <<page, form, loaded, read, saves, asked, device, typed, other>>

VideoParts == {"image", "encode", "osd"}
SystemParts == {"name", "time", "reboot"}
PlanParts == {"record"}
StorageParts == {"recycle"}

PartsOf == [video |-> VideoParts, system |-> SystemParts,
            plan |-> PlanParts, storage |-> StorageParts]
Parts == PartsOf[page]

Values == [own : {"default", "stored", "typed"}, rest : {"default", "stored", "elsewhere"}]
\* What the script initialises the forms with; the record plan's starts as null
Default == [own |-> "default", rest |-> "default"]
Stored == [own |-> "stored", rest |-> "stored"]
Unread == [own |-> "unread"]
Idle == [st |-> "idle"]

\* The template shows no record plan before there is one
HiddenUntilLoaded == page = "plan"
\* The storage page sends the percentage alone
Partial == page = "storage"

Init ==
    /\ page \in DOMAIN PartsOf
    /\ form = [p \in Parts |-> Default]
    /\ loaded = "loading" /\ read = [p \in Parts |-> Unread]
    /\ saves = [p \in Parts |-> Idle] /\ asked = "none"
    /\ device = [p \in Parts |-> Stored]
    /\ typed = {} /\ other = {}

-----------------------------------------------------------------------------
\* The device answers one request of the load
Read(p) ==
    /\ loaded = "loading" /\ read[p] = Unread
    /\ read' = [read EXCEPT ![p] = device[p]]
    /\ UNCHANGED <<page, form, loaded, saves, asked, device, typed, other>>

\* The rest of refresh: all parts are shown, or after any failure none
AllShown ==
    /\ \A p \in Parts : read[p] # Unread
    /\ form' = read /\ loaded' = "ok"

refresh ==
    /\ loaded = "loading"
    /\ \/ AllShown
       \/ loaded' = "failed" /\ UNCHANGED form
    /\ read' = [p \in Parts |-> Unread]
    /\ UNCHANGED <<page, saves, asked, device, typed, other>>

\* The page is masked while it loads, and by a confirmation
Editable ==
    /\ loaded # "loading" /\ asked = "none"
    /\ HiddenUntilLoaded => loaded = "ok"

Edit(p) ==
    /\ Editable
    /\ form' = [form EXCEPT ![p].own = "typed"]
    /\ typed' = typed \cup {p}
    /\ UNCHANGED <<page, loaded, read, saves, asked, device, other>>

\* A save sends what the form holds when it is sent
Send(p) == saves' = [saves EXCEPT ![p] = [st |-> "sent", set |-> form[p]]]

\* The save buttons spin while their save is on the way
Save(p) ==
    /\ Editable /\ p \in Parts /\ saves[p] = Idle
    /\ Send(p)
    /\ UNCHANGED <<page, form, loaded, read, asked, device, typed, other>>

onSaveImage == Save("image")
onSaveOsd == Save("osd")
onSaveName == Save("name")
onSaveTime == Save("time")
onSaveReboot == Save("reboot")
onSavePlan == Save("record")
onSaveRecycle == Save("recycle")

\* Streams are saved after a confirmation, which may be declined
onSaveEncode ==
    /\ Editable /\ "encode" \in Parts /\ saves["encode"] = Idle
    /\ asked' = "encode"
    /\ UNCHANGED <<page, form, loaded, read, saves, device, typed, other>>

Confirmed ==
    /\ asked # "none" /\ asked' = "none"
    /\ Send(asked) \/ UNCHANGED saves
    /\ UNCHANGED <<page, form, loaded, read, device, typed, other>>

\* The device at a save: fields not sent stay as they are
SaveHandled(p) ==
    LET new == IF Partial THEN [device[p] EXCEPT !.own = saves[p].set.own]
               ELSE saves[p].set
    IN
    /\ saves[p].st = "sent"
    /\ \/ device' = [device EXCEPT ![p] = new]
          /\ saves' \in {[saves EXCEPT ![p] = [st |-> "ok", set |-> new]],
                         [saves EXCEPT ![p] = [st |-> "failed"]]}
       \/ saves' = [saves EXCEPT ![p] = [st |-> "failed"]] /\ UNCHANGED device
    /\ UNCHANGED <<page, form, loaded, read, asked, typed, other>>

\* The rest of the save: an accepted one shows the device's answer, after any
\* other the form keeps what it holds
\* (with a defect: its answer replaces the whole form)
SaveAnswerEverywhere(p) ==
    /\ saves[p].st \in {"ok", "failed"}
    /\ saves' = [saves EXCEPT ![p] = Idle]
    /\ IF saves[p].st = "ok"
       THEN form' = [q \in Parts |-> saves[p].set] /\ typed' = typed \ {p}
       ELSE UNCHANGED <<form, typed>>
    /\ UNCHANGED <<page, loaded, read, asked, device, other>>

SaveAnswer(p) ==
    /\ saves[p].st \in {"ok", "failed"}
    /\ saves' = [saves EXCEPT ![p] = Idle]
    /\ IF saves[p].st = "ok"
       THEN form' = [form EXCEPT ![p] = saves[p].set] /\ typed' = typed \ {p}
       ELSE UNCHANGED <<form, typed>>
    /\ UNCHANGED <<page, loaded, read, asked, device, other>>

\* Another window of the program saves the same part, or the clock goes on
Elsewhere(p) ==
    /\ other = {} /\ other' = {p}
    /\ device' = [device EXCEPT ![p].rest = "elsewhere"]
    /\ UNCHANGED <<page, form, loaded, read, saves, asked, typed>>

Next ==
    \/ \E p \in Parts : Read(p) \/ Edit(p) \/ SaveHandled(p) \/ SaveAnswer(p) \/ Elsewhere(p)
    \/ refresh
    \/ onSaveImage \/ onSaveOsd \/ onSaveName \/ onSaveTime \/ onSaveReboot
    \/ onSavePlan \/ onSaveRecycle
    \/ onSaveEncode \/ Confirmed

Spec == Init /\ [][Next]_settingsVars

-----------------------------------------------------------------------------
TypeOK ==
    /\ page \in DOMAIN PartsOf /\ loaded \in {"loading", "ok", "failed"}
    /\ form \in [Parts -> Values] /\ device \in [Parts -> Values]
    /\ asked \in Parts \cup {"none"}
    /\ typed \subseteq Parts /\ other \subseteq Parts

\* With no save of a part on the way its form shows what the device has stored,
\* or an edit of the user: saves of several parts answered in any order, refused
\* or lost, put no part's answer in the place of another's or of an edit.
FormAgrees ==
    \A p \in Parts :
        loaded = "ok" /\ saves[p] = Idle /\ p \notin other =>
            IF p \in typed THEN form[p].own = "typed" ELSE form[p] = device[p]
=============================================================================
