--------------------------- MODULE BackgroundShot ---------------------------
(***************************************************************************)
(* The camera picture under the region canvas of the alarm and face pages:  *)
(* the page grabs a fresh JPEG the first time its region tab is opened and  *)
(* whenever the user asks, and holds it as an object URL, which lives until *)
(* it is revoked.  The canvas decodes every picture it is given, and what   *)
(* it has decoded stays drawn until the next.  Object URLs are numbered in  *)
(* the order they are made.                                                 *)
(***************************************************************************)
EXTENDS Naturals

CONSTANTS MaxGrabs   \* bound: pictures grabbed in one life of the page

VARIABLES
    tab, autoSnapDone,  \* activeTab; the automatic grab was made
    bgLoading,
    grabs,      \* grabs on the way
    made,       \* object URLs made
    bgUrl,      \* the URL the page holds and shows, 0 for none
    live,       \* object URLs not revoked
    decoding,   \* pictures the canvas is decoding
    bgImg,      \* the picture the canvas draws under the regions, 0 for none
    overtaken,  \* history: the newest picture decoded was followed by an older one
    mounted

shotVars == <<tab, autoSnapDone, bgLoading, grabs, made, bgUrl, live, decoding,
              bgImg, overtaken, mounted>>

Init ==
    /\ tab = "detect" /\ autoSnapDone = FALSE
    /\ bgLoading = FALSE /\ grabs = 0 /\ made = 0
    /\ bgUrl = 0 /\ live = {} /\ decoding = {} /\ bgImg = 0
    /\ overtaken = FALSE /\ mounted = TRUE

-----------------------------------------------------------------------------
\* The first half of refreshBg
Ask ==
    /\ bgLoading' = TRUE /\ grabs' = grabs + 1
    /\ UNCHANGED <<made, bgUrl, live, decoding, bgImg, overtaken, mounted>>

\* The watcher on activeTab grabs once, whatever else is on the way
OpenRegionTab ==
    /\ mounted /\ tab # "region" /\ tab' = "region"
    /\ autoSnapDone' = TRUE
    /\ IF autoSnapDone
       THEN UNCHANGED <<bgLoading, grabs, made, bgUrl, live, decoding, bgImg, overtaken, mounted>>
       ELSE Ask

OpenOtherTab ==
    /\ mounted /\ tab = "region" /\ tab' = "detect"
    /\ UNCHANGED <<autoSnapDone, bgLoading, grabs, made, bgUrl, live, decoding, bgImg,
                   overtaken, mounted>>

\* The button of the region tab, which spins while a grab is on the way
AskAgain ==
    /\ mounted /\ tab = "region" /\ ~bgLoading
    /\ Ask
    /\ UNCHANGED <<tab, autoSnapDone>>

\* previewSnapshotObjectUrl has the device take a snapshot, fetches it and makes
\* an object URL of it; then the rest of refreshBg revokes the URL held and
\* shows the new one.  After the page was left it does the same, with no canvas
\* (with a defect: the URL held is not revoked)
GrabbedOnly ==
    /\ grabs > 0 /\ made < MaxGrabs
    /\ grabs' = grabs - 1 /\ bgLoading' = FALSE
    /\ made' = made + 1
    /\ live' = live \cup {made'}
    /\ bgUrl' = made'
    /\ decoding' = IF mounted THEN decoding \cup {made'} ELSE decoding
    /\ UNCHANGED <<tab, autoSnapDone, bgImg, overtaken, mounted>>

Grabbed ==
    /\ grabs > 0 /\ made < MaxGrabs
    /\ grabs' = grabs - 1 /\ bgLoading' = FALSE
    /\ made' = made + 1
    /\ live' = (live \ {bgUrl}) \cup {made'}
    /\ bgUrl' = made'
    /\ decoding' = IF mounted THEN decoding \cup {made'} ELSE decoding
    /\ UNCHANGED <<tab, autoSnapDone, bgImg, overtaken, mounted>>

GrabFailed ==
    /\ grabs > 0
    /\ grabs' = grabs - 1 /\ bgLoading' = FALSE
    /\ UNCHANGED <<tab, autoSnapDone, made, bgUrl, live, decoding, bgImg, overtaken, mounted>>

\* The canvas has decoded a picture it was given, in any order
Decoded(u) ==
    /\ decoding' = decoding \ {u}
    /\ bgImg' = u
    /\ overtaken' = (u # bgUrl /\ (overtaken \/ u < bgImg))
    /\ UNCHANGED <<tab, autoSnapDone, bgLoading, grabs, made, bgUrl, live, mounted>>

\* Revoked before the browser had read it, or not an image
DecodeFailed(u) ==
    /\ u \notin live
    /\ decoding' = decoding \ {u}
    /\ bgImg' = 0
    /\ overtaken' = TRUE
    /\ UNCHANGED <<tab, autoSnapDone, bgLoading, grabs, made, bgUrl, live, mounted>>

\* onUnmounted
Leave ==
    /\ mounted /\ mounted' = FALSE
    /\ live' = live \ {bgUrl}
    /\ decoding' = {}
    /\ UNCHANGED <<tab, autoSnapDone, bgLoading, grabs, made, bgUrl, bgImg, overtaken>>

Next ==
    \/ OpenRegionTab \/ OpenOtherTab \/ AskAgain \/ Grabbed \/ GrabFailed
    \/ \E u \in decoding : Decoded(u) \/ DecodeFailed(u)
    \/ Leave

Spec == Init /\ [][Next]_shotVars

-----------------------------------------------------------------------------
TypeOK ==
    /\ tab \in {"detect", "region"}
    /\ {autoSnapDone, bgLoading, overtaken, mounted} \subseteq BOOLEAN
    /\ grabs \in 0 .. 1 /\ made \in 0 .. MaxGrabs
    /\ bgUrl \in 0 .. made /\ bgImg \in 0 .. made
    /\ live \subseteq 1 .. made /\ decoding \subseteq 1 .. made

\* The page keeps exactly the picture it shows: the URL shown is never revoked
\* under the canvas and no older one is left behind, whatever grabs fail or
\* come after a change of tab; once decoded the newest picture is the one
\* drawn, unless an older one was decoded after it.  After the page was left at
\* most the picture of the grab that was then on the way is left behind.
ShotKept ==
    /\ mounted => live = {bgUrl} \ {0}
    /\ mounted /\ decoding = {} /\ ~overtaken => bgImg = bgUrl
    /\ ~mounted => live \subseteq {made}
=============================================================================
