------------------------------ MODULE PageParts ------------------------------
(***************************************************************************)
(* Eight parts of the web pages, each with its own variables: the weekly    *)
(* grid, the picture under the regions, the alarm and face forms, the list  *)
(* of captures, the list of recordings, the settings pages and the session. *)
(* MCWebPages checks them beside the other parts, and PageProofs proves     *)
(* their invariants.                                                        *)
(***************************************************************************)
EXTENDS Naturals

CONSTANTS
    Days, Hours, Workdays, Daytime,      \* ScheduleGrid
    MaxGrabs,                            \* BackgroundShot
    MaxEvents,                           \* AlarmForm
    MaxSnaps, MaxEventRequests,          \* FaceEvents
    MaxClips, MaxRecordRequests,         \* StorageRecords
    MaxTokens, MaxLogins                 \* WebSession

ASSUME PartsAssumption == MaxSnaps \in Nat \ {0} /\ MaxClips \in Nat \ {0}

\* The other bounds; each list is asked for at least once
ASSUME BoundsAssumption ==
    /\ MaxGrabs \in Nat /\ MaxEvents \in Nat /\ MaxTokens \in Nat /\ MaxLogins \in Nat
    /\ MaxEventRequests \in Nat \ {0} /\ MaxRecordRequests \in Nat \ {0}

VARIABLES
    modelValue, disabled, painting, pointer, captures, stroke,
    tab, autoSnapDone, bgLoading, grabs, made, bgUrl, live, decoding, bgImg, overtaken, mounted,
    alarmMounted, alarmTimer, motion, stored, list, happened, alarmLoad, alarmSave, alarmPoll, edit,
    stage, timer, face, faceDevice, faceLoad, faceSave, facePoll, faceTyped, early,
    counted, view, lists, asked, del, dialog, snaps, files, seen,
    kindFilter, page, records, total, loading, recordLists, format, clips, recorded, sound,
    settingsPage, form, loaded, read, saves, partAsked, device, typed, other,
    token, issued, pass, cookie, route, nav, logins, leave, upset

gridPart == <<modelValue, disabled, painting, pointer, captures, stroke>>
shotPart == <<tab, autoSnapDone, bgLoading, grabs, made, bgUrl, live, decoding,
    bgImg, overtaken, mounted>>
alarmPart == <<alarmMounted, alarmTimer, motion, stored, list, happened,
    alarmLoad, alarmSave, alarmPoll, edit>>
facePart == <<stage, timer, face, faceDevice, faceLoad, faceSave, facePoll,
    faceTyped, early>>
eventsPart == <<counted, view, lists, asked, del, dialog, snaps, files, seen>>
storagePart == <<kindFilter, page, records, total, loading, recordLists, format,
    clips, recorded, sound>>
settingsPart == <<settingsPage, form, loaded, read, saves, partAsked, device,
    typed, other>>
sessionPart == <<token, issued, pass, cookie, route, nav, logins, leave, upset>>

Grid == INSTANCE ScheduleGrid
Shot == INSTANCE BackgroundShot
Alarm == INSTANCE AlarmForm
    WITH mounted <- alarmMounted, timer <- alarmTimer, load <- alarmLoad,
         saveReq <- alarmSave, pollReq <- alarmPoll
Face == INSTANCE FaceForm
    WITH device <- faceDevice, load <- faceLoad, save <- faceSave, poll <- facePoll,
         typed <- faceTyped
Events == INSTANCE FaceEvents WITH made <- snaps, MaxRequests <- MaxEventRequests
Storage == INSTANCE StorageRecords WITH lists <- recordLists, MaxRequests <- MaxRecordRequests
Settings == INSTANCE SettingsPages WITH page <- settingsPage, asked <- partAsked
Session == INSTANCE WebSession

-----------------------------------------------------------------------------
\* ScheduleGrid: a stroke over the weekly grid ends with its press and paints
\* every cell it enters with one value and no other cell.
StrokePaintsOneWay == Grid!StrokePaintsOneWay

\* BackgroundShot: the picture under the regions is the one the page holds, and
\* no object URL is revoked early or left behind.
ShotKept == Shot!ShotKept

\* AlarmForm, FaceForm: the settings shown are the user's edit or the device's.
FormsShow == Alarm!FormShows /\ Face!FormShows

\* FaceEvents: only captures the user has confirmed are deleted.
DeletedWereConfirmed == Events!DeletedWereConfirmed

\* FaceEvents: the list is the pager's page without deleted captures, and holds
\* what the poll has counted.
EventsShown == Events!ListShown /\ Events!CountedIsListed

\* StorageRecords: the list of recordings is the card's.
RecordsShown == Storage!RecordsShown

\* SettingsPages: every part's form shows the device's values or the user's.
FormAgrees == Settings!FormAgrees

\* WebSession: the default password opens nothing but the password page.
MustChangeConfines == Session!MustChangeConfines

\* WebSession: a page is shown with the device's token.
SessionHolds == Session!SessionHolds
=============================================================================
