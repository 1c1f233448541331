----------------------------- MODULE FaceEvents -----------------------------
(***************************************************************************)
(* The list half of the face page, from the end of its first load on: the   *)
(* list of captures with its date, page and selection, the poll that lists  *)
(* new captures, deleting with a confirmation, and the device's files.  The *)
(* settings are left out; of a save only the counter in its answer is kept, *)
(* and one of a poll and a save is on the way at a time.                    *)
(* Requests are handled and answered in any order, and may be lost.         *)
(* A page of the list holds one capture, newest first: the device reverses  *)
(* the directory's order, taken to be that of creation, and counts no more  *)
(* than 256.  Captures 1, 2, .. are of today; the other day the user may    *)
(* type has none.                                                           *)
(***************************************************************************)
EXTENDS Integers, Sequences, FiniteSets, SequencesExt

CONSTANTS
    MaxSnaps,   \* bound: captures made while the page is watched
    MaxRequests \* bound: requests on the way at once

VARIABLES
    counted,   \* face.snap_count, the captures the page has counted
    view,      \* eventsDate, eventsPage, events, eventsTotal, eventsLoading, selected
    lists,     \* list requests on the way, in the order they were sent
    asked,     \* the poll or the save whose answer is on the way
    del,       \* the delete on the way
    dialog,    \* the open confirmation
    made,      \* captures the device has made
    files,     \* captures on its card
    seen       \* history, see Init

eventsVars == <<counted, view, lists, asked, del, dialog, made, files, seen>>

Idle == [st |-> "idle"]
Counts(by, n) == [st |-> by, count |-> n]
Dates == {"today", "other"}
Larger(a, b) == IF a < b THEN b ELSE a

OfDay(S, d) == IF d = "today" THEN S ELSE {}
\* The device's answer to limit = 1, offset = p - 1
PageOf(S, p) == {f \in S : Cardinality({g \in S : f < g}) = p - 1}

Asked(d, p) == [st |-> "sent", date |-> d, page |-> p, shows |-> p]
Late(r) == [r EXCEPT !.shows = 0]

\* page: the page listed, or 0 when an answer was lost or came after that of a
\* later request (Late marks the requests whose answer would be such);
\* covered: captures made when that list was read; skipped: captures counted
\* without asking for the list
Init ==
    /\ made = 1 /\ counted = 1 /\ files = {1}
    /\ view = [date |-> "today", page |-> 1, list |-> {}, total |-> 0,
               busy |-> TRUE, sel |-> {}]
    /\ lists = <<Asked("today", 1)>>
    /\ asked = Idle /\ del = Idle /\ dialog = Idle
    /\ seen = [page |-> 1, covered |-> 1, skipped |-> 1]

-----------------------------------------------------------------------------
\* The first half of refreshEvents, n times (the watcher on eventsPage asks
\* again when the caller has moved the page); `silent' leaves the mask off
Ask(d, p, n, silent) ==
    /\ lists' = lists \o [i \in 1 .. n |-> Asked(d, p)]
    /\ view' = [view EXCEPT !.date = d, !.page = p, !.busy = ~silent \/ @]

AskPageOne == Ask(view.date, 1, IF view.page = 1 THEN 1 ELSE 2, FALSE)

\* getFaceEvents at the device
ListRead(i) ==
    LET r == lists[i]
        day == OfDay(files, r.date)
    IN
    /\ r.st = "sent"
    /\ lists' = [lists EXCEPT ![i] =
                   [st |-> "back", shows |-> r.shows, list |-> PageOf(day, r.page),
                    total |-> Cardinality(day), at |-> made]]
    /\ UNCHANGED <<counted, view, asked, del, dialog, made, files, seen>>

\* Request i leaves the queue; the answers to earlier ones will be late
Drop(i) ==
    RemoveAt([j \in DOMAIN lists |-> IF j < i THEN Late(lists[j]) ELSE lists[j]], i)

\* The second half of refreshEvents: the answer that comes last is shown
\* (with a defect: what was selected stays so)
ListAnswerKeepsSelection(i) ==
    LET r == lists[i] IN
    /\ r.st = "back"
    /\ lists' = Drop(i)
    /\ view' = [view EXCEPT !.list = r.list, !.total = r.total, !.busy = FALSE]
    /\ seen' = [seen EXCEPT !.page = r.shows, !.covered = IF r.shows = 0 THEN 0 ELSE r.at]
    /\ UNCHANGED <<counted, asked, del, dialog, made, files>>

ListAnswer(i) ==
    LET r == lists[i] IN
    /\ r.st = "back"
    /\ lists' = Drop(i)
    /\ view' = [view EXCEPT !.list = r.list, !.total = r.total, !.sel = {}, !.busy = FALSE]
    /\ seen' = [seen EXCEPT !.page = r.shows, !.covered = IF r.shows = 0 THEN 0 ELSE r.at]
    /\ UNCHANGED <<counted, asked, del, dialog, made, files>>

ListLost(i) ==
    /\ lists[i].st = "sent"
    /\ lists' = Drop(i)
    /\ view' = [view EXCEPT !.busy = FALSE]
    /\ seen' = [seen EXCEPT !.page = 0, !.covered = 0]
    /\ UNCHANGED <<counted, asked, del, dialog, made, files>>

-----------------------------------------------------------------------------
\* The device answers a save of the settings with its counters
SaveHandled ==
    /\ asked = Idle
    /\ asked' = Counts("save", made)
    /\ UNCHANGED <<counted, view, lists, del, dialog, made, files, seen>>

\* The answer replaces the counter, and nothing asks for the list
SaveAnswer ==
    /\ asked.st = "save"
    /\ asked' = Idle /\ counted' = asked.count
    /\ seen' = [seen EXCEPT !.skipped = Larger(@, asked.count)]
    /\ UNCHANGED <<view, lists, del, dialog, made, files>>

\* The device answers a poll of the 3 s interval, one at a time
PollRead ==
    /\ asked = Idle
    /\ asked' = Counts("poll", made)
    /\ UNCHANGED <<counted, view, lists, del, dialog, made, files, seen>>

\* New captures are listed only while the user looks at today's first page and
\* has nothing selected; they count as seen either way
Looking == view.page = 1 /\ view.date = "today" /\ view.sel = {}

PollAnswer ==
    /\ asked.st = "poll"
    /\ asked' = Idle /\ counted' = asked.count
    /\ IF asked.count # counted /\ Looking
       THEN Ask("today", 1, 1, TRUE) /\ UNCHANGED seen
       ELSE /\ seen' = IF asked.count = counted THEN seen
                       ELSE [seen EXCEPT !.skipped = Larger(@, asked.count)]
            /\ UNCHANGED <<lists, view>>
    /\ UNCHANGED <<del, dialog, made, files>>

-----------------------------------------------------------------------------
\* The date box is bound to eventsDate: typing alone asks for nothing
TypeDate(d) ==
    /\ dialog = Idle /\ view.date # d
    /\ view' = [view EXCEPT !.date = d]
    /\ UNCHANGED <<counted, lists, asked, del, dialog, made, files, seen>>

onQuery ==
    /\ dialog = Idle
    /\ AskPageOne
    /\ UNCHANGED <<counted, asked, del, dialog, made, files, seen>>

\* The pager: the user turns to a page of the total shown, or the pager itself
\* goes back when the total has shrunk
TurnPage(p) ==
    /\ p # view.page /\ p <= Larger(1, view.total)
    /\ dialog = Idle \/ view.page > view.total
    /\ Ask(view.date, p, 1, FALSE)
    /\ UNCHANGED <<counted, asked, del, dialog, made, files, seen>>

\* The table's check boxes (with a defect: also under the confirmation)
onSelectionChangeUnderDialog(S) ==
    /\ ~view.busy
    /\ view' = [view EXCEPT !.sel = S]
    /\ UNCHANGED <<counted, lists, asked, del, dialog, made, files, seen>>

onSelectionChange(S) ==
    /\ dialog = Idle /\ ~view.busy
    /\ view' = [view EXCEPT !.sel = S]
    /\ UNCHANGED <<counted, lists, asked, del, dialog, made, files, seen>>

\* The first half of onDeleteSelected and of onDeleteDay, up to the confirmation
AskDeleteSelected ==
    /\ dialog = Idle /\ del = Idle /\ view.sel # {}
    /\ dialog' = [st |-> "files", files |-> view.sel]
    /\ UNCHANGED <<counted, view, lists, asked, del, made, files, seen>>

AskDeleteDay ==
    /\ dialog = Idle /\ del = Idle
    /\ dialog' = [st |-> "day", date |-> view.date]
    /\ UNCHANGED <<counted, view, lists, asked, del, made, files, seen>>

Cancel ==
    /\ dialog # Idle
    /\ dialog' = Idle
    /\ UNCHANGED <<counted, view, lists, asked, del, made, files, seen>>

\* After the wait onDeleteSelected reads `selected' again (agreed is history:
\* what the confirmation was about)
ConfirmSelected ==
    /\ dialog.st = "files"
    /\ dialog' = Idle
    /\ del' = [st |-> "files", files |-> view.sel, agreed |-> dialog.files]
    /\ UNCHANGED <<counted, view, lists, asked, made, files, seen>>

\* onDeleteDay has read the date before the wait
ConfirmDay ==
    /\ dialog.st = "day"
    /\ dialog' = Idle
    /\ del' = [st |-> "day", date |-> dialog.date,
                agreed |-> OfDay(1 .. MaxSnaps, dialog.date)]
    /\ UNCHANGED <<counted, view, lists, asked, made, files, seen>>

\* deleteFaceEvents at the device: the files named, or every file of the day
DeleteHandled ==
    /\ del.st \in {"files", "day"}
    /\ files' = files \ (IF del.st = "files" THEN del.files ELSE OfDay(files, del.date))
    /\ del' = [st |-> "back", what |-> del.st]
    /\ UNCHANGED <<counted, view, lists, asked, dialog, made, seen>>

\* The rest of both: the list is asked for again, of page one after a day
\* (with a defect: it is not)
DeleteAnswerOnly ==
    /\ del.st = "back"
    /\ del' = Idle
    /\ UNCHANGED <<counted, view, lists, asked, dialog, made, files, seen>>

DeleteAnswer ==
    /\ del.st = "back"
    /\ del' = Idle
    /\ IF del.what = "day" THEN AskPageOne ELSE Ask(view.date, view.page, 1, FALSE)
    /\ UNCHANGED <<counted, asked, dialog, made, files, seen>>

\* The request or its answer is lost: nobody asks for the list
DeleteLost ==
    /\ del # Idle
    /\ del' = Idle
    /\ lists' = [i \in DOMAIN lists |-> Late(lists[i])]
    /\ seen' = [seen EXCEPT !.page = 0, !.covered = 0]
    /\ UNCHANGED <<counted, view, asked, dialog, made, files>>

\* The device captures a face
Snap ==
    /\ made < MaxSnaps
    /\ made' = made + 1 /\ files' = files \cup {made + 1}
    /\ UNCHANGED <<counted, view, lists, asked, del, dialog, seen>>

Step ==
    \/ \E i \in DOMAIN lists : ListRead(i) \/ ListAnswer(i) \/ ListLost(i)
    \/ SaveHandled \/ SaveAnswer \/ PollRead \/ PollAnswer
    \/ \E d \in Dates : TypeDate(d)
    \/ onQuery
    \/ \E p \in 1 .. MaxSnaps : TurnPage(p)
    \/ \E S \in SUBSET view.list : onSelectionChange(S)
    \/ AskDeleteSelected \/ AskDeleteDay \/ Cancel \/ ConfirmSelected \/ ConfirmDay
    \/ DeleteHandled \/ DeleteAnswer \/ DeleteLost
    \/ Snap

OnTheWay == Len(lists) + Cardinality({r \in {asked, del} : r # Idle})

Next == Step /\ OnTheWay' <= MaxRequests

Spec == Init /\ [][Next]_eventsVars

-----------------------------------------------------------------------------
TypeOK ==
    /\ made \in 1 .. MaxSnaps /\ counted \in 1 .. made /\ files \subseteq 1 .. made
    /\ view.date \in Dates /\ view.page \in 1 .. MaxSnaps
    /\ view.list \subseteq 1 .. made /\ view.sel \subseteq view.list
    /\ OnTheWay <= MaxRequests

\* Only captures the confirmation was about are deleted, although the selection
\* is read again after the user has answered and polls replace the list while
\* the dialog is open.
DeletedWereConfirmed ==
    [][\A f \in files \ files' : f \in del.agreed]_eventsVars

\* With no request on the way the list is the page the pager says, and shows no
\* capture that was deleted, unless an answer was lost or overtook a later one.
ListShown ==
    lists = <<>> /\ del = Idle /\ seen.page # 0 =>
        /\ seen.page = view.page
        /\ view.list \subseteq files

\* "Live-append new captures": every capture the page has counted had been made
\* when its list was read, or was counted while the user was elsewhere or by
\* the answer to a save.
CountedIsListed ==
    lists = <<>> /\ seen.page # 0 => counted <= Larger(seen.covered, seen.skipped)
=============================================================================
