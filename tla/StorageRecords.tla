--------------------------- MODULE StorageRecords ---------------------------
(***************************************************************************)
(* The list of recordings on the storage page: its kind filter and pager,   *)
(* and formatting or clearing the card, after which the page loads again.   *)
(* Every one of them asks for the list; requests are handled and answered   *)
(* in any order, and may be lost.  The date box is left out; a page of the  *)
(* list holds one clip, and clips with an odd number are of an event.       *)
(***************************************************************************)
EXTENDS Integers, Sequences, FiniteSets, SequencesExt

CONSTANTS
    MaxClips,    \* bound: clips ever recorded
    MaxRequests  \* bound: requests on the way at once

VARIABLES
    kindFilter, page,  \* the filter and the pager
    records, total,    \* the list shown, and the total of the pager
    loading,           \* the mask over the page
    lists,             \* list requests on the way, in the order they were sent
    format,            \* formatting: "idle", "asked", "sent" or "done"
    clips, recorded,   \* clips on the card, and ever recorded
    sound              \* history, see Init

storageVars == <<kindFilter, page, records, total, loading, lists, format, clips, recorded, sound>>

Kinds == {"", "event"}
OfKind(S, k) == {c \in S : k = "event" => c % 2 = 1}
\* The device's answer to limit = 1, offset = p - 1, newest first
PageOf(S, p) == {c \in S : Cardinality({d \in S : c < d}) = p - 1}

Asked(k, p) == [st |-> "sent", kind |-> k, page |-> p, late |-> FALSE]
Late(r) == [r EXCEPT !.late = TRUE]

\* sound: no answer was lost or came after that of a later request, and the card
\* is as it was when the list was read but for what this page did to it
Init ==
    /\ kindFilter = "" /\ page = 1 /\ records = {} /\ total = 0
    /\ recorded = MaxClips - 1 /\ clips = 1 .. recorded
    /\ loading = TRUE /\ lists = <<Asked("", 1)>>
    /\ format = "idle" /\ sound = FALSE

-----------------------------------------------------------------------------
\* refreshRecords, up to its request
Ask(k, p) ==
    /\ kindFilter' = k /\ page' = p
    /\ loading' = TRUE
    /\ lists' = Append(lists, Asked(k, p))

\* getStorageRecords at the device
ListRead(i) ==
    LET r == lists[i] IN
    /\ r.st = "sent"
    /\ lists' = [lists EXCEPT ![i] =
                   [st |-> "back", late |-> r.late, list |-> PageOf(OfKind(clips, r.kind), r.page),
                    total |-> Cardinality(OfKind(clips, r.kind))]]
    /\ UNCHANGED <<kindFilter, page, records, total, loading, format, clips, recorded, sound>>

\* Request i leaves the queue; the answers to earlier ones will be late
Drop(i) ==
    RemoveAt([j \in DOMAIN lists |-> IF j < i THEN Late(lists[j]) ELSE lists[j]], i)

\* The rest of refreshRecords and of its caller: the answer that comes last is
\* shown, the one that comes first takes the mask away
ListAnswer(i) ==
    /\ lists[i].st = "back"
    /\ lists' = Drop(i)
    /\ records' = lists[i].list /\ total' = lists[i].total
    /\ loading' = FALSE /\ sound' = ~lists[i].late
    /\ UNCHANGED <<kindFilter, page, format, clips, recorded>>

ListLost(i) ==
    /\ lists[i].st = "sent"
    /\ lists' = Drop(i)
    /\ loading' = FALSE /\ sound' = FALSE
    /\ UNCHANGED <<kindFilter, page, records, total, format, clips, recorded>>

\* refresh gives up waiting for the list when the status cannot be read
StatusFailed ==
    /\ loading /\ lists # <<>>
    /\ loading' = FALSE
    /\ UNCHANGED <<kindFilter, page, records, total, lists, format, clips, recorded, sound>>

\* The page is masked while it loads, and by the confirmation
Free == ~loading /\ format # "asked"

\* The filter asks as soon as it is changed, the button any time
onQuery(k) ==
    /\ Free
    /\ Ask(k, 1)
    /\ UNCHANGED <<records, total, format, clips, recorded, sound>>

\* The user turns to a page, or the pager itself goes back when the total has
\* shrunk
onPageChange(p) ==
    /\ p # page /\ p \in 1 .. (IF total = 0 THEN 1 ELSE total)
    /\ Free \/ page > total
    /\ Ask(kindFilter, p)
    /\ UNCHANGED <<records, total, format, clips, recorded, sound>>

-----------------------------------------------------------------------------
\* onFormatCard and onClearRecords up to the confirmation, and the user's answer
onFormatCard ==
    /\ Free /\ format = "idle"
    /\ format' = "asked"
    /\ UNCHANGED <<kindFilter, page, records, total, loading, lists, clips, recorded, sound>>

Answered ==
    /\ format = "asked"
    /\ format' \in {"idle", "sent"}
    /\ UNCHANGED <<kindFilter, page, records, total, loading, lists, clips, recorded, sound>>

\* formatStorage at the device: every clip is gone
Formatted ==
    /\ format = "sent"
    /\ format' = "done" /\ clips' = {}
    /\ UNCHANGED <<kindFilter, page, records, total, loading, lists, recorded, sound>>

\* The rest of both: the page loads again
\* (with a defect: it does not)
FormatAnswerOnly ==
    /\ format = "done"
    /\ format' = "idle"
    /\ UNCHANGED <<kindFilter, page, records, total, loading, lists, clips, recorded, sound>>

FormatAnswer ==
    /\ format = "done"
    /\ format' = "idle"
    /\ Ask(kindFilter, page)
    /\ UNCHANGED <<records, total, clips, recorded, sound>>

\* A refused request, or a lost answer: nobody asks for the list
FormatFailed ==
    /\ format \in {"sent", "done"}
    /\ format' = "idle"
    /\ lists' = [i \in DOMAIN lists |-> Late(lists[i])]
    /\ sound' = FALSE
    /\ UNCHANGED <<kindFilter, page, records, total, loading, clips, recorded>>

\* The camera records a clip, or recycles the oldest one
OnItsOwn(new) ==
    /\ clips' = new
    /\ lists' = [i \in DOMAIN lists |-> IF lists[i].st = "back" THEN Late(lists[i]) ELSE lists[i]]
    /\ sound' = FALSE
    /\ UNCHANGED <<kindFilter, page, records, total, loading, format>>

Record ==
    /\ recorded < MaxClips
    /\ recorded' = recorded + 1
    /\ OnItsOwn(clips \cup {recorded'})

Recycle ==
    /\ \E c \in clips : (\A d \in clips : c <= d) /\ OnItsOwn(clips \ {c})
    /\ UNCHANGED recorded

Step ==
    \/ \E i \in DOMAIN lists : ListRead(i) \/ ListAnswer(i) \/ ListLost(i)
    \/ StatusFailed
    \/ \E k \in Kinds : onQuery(k)
    \/ \E p \in 1 .. MaxClips : onPageChange(p)
    \/ onFormatCard \/ Answered \/ Formatted \/ FormatAnswer \/ FormatFailed
    \/ Record \/ Recycle

Next == Step /\ Len(lists') <= MaxRequests

Spec == Init /\ [][Next]_storageVars

-----------------------------------------------------------------------------
TypeOK ==
    /\ kindFilter \in Kinds /\ page \in 1 .. MaxClips
    /\ records \subseteq 1 .. MaxClips /\ total \in 0 .. MaxClips
    /\ loading \in BOOLEAN /\ sound \in BOOLEAN
    /\ format \in {"idle", "asked", "sent", "done"}
    /\ clips \subseteq 1 .. recorded /\ recorded \in 0 .. MaxClips
    /\ Len(lists) <= MaxRequests

\* With no request on the way the list and its total are the card's clips of the
\* kind and the page the controls show, and nothing that was formatted away:
\* unless an answer was lost or overtook a later one, or the camera itself has
\* recorded or recycled a clip since the list was read.
RecordsShown ==
    lists = <<>> /\ format \in {"idle", "asked"} /\ sound =>
        /\ records = PageOf(OfKind(clips, kindFilter), page)
        /\ total = Cardinality(OfKind(clips, kindFilter))
=============================================================================
