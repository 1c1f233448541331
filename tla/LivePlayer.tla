----------------------------- MODULE LivePlayer -----------------------------
(***************************************************************************)
(* The preview player of the web pages over its life: one WebSocket at a    *)
(* time, a media source built for the codec the device announces, a queue   *)
(* of segments appended one by one, and the timer that connects again.  The *)
(* device's side of the socket is PreviewFeed, and the socket may fail at   *)
(* any time.  Which of the two streams is played is not told apart.         *)
(***************************************************************************)
EXTENDS Naturals, Sequences

CONSTANTS
    Cap, Keep,   \* the queue is cut to its last Keep segments beyond Cap
    MaxInbox,    \* bound: messages received and not yet handled
    MaxUpsets    \* bound: socket failures, refusals and changes of the stream

VARIABLES
    closed,   \* the player was taken off the page
    ws,       \* the socket: "none", "connecting", "open" or "lost" to the device
    feed,     \* the device's side of it
    inbox,    \* its messages the page has not handled
    retry,    \* reconnectTimer is running
    chase,    \* chaseTimer is running
    ms,       \* the media source: "none", "opening", "open"
    sb,       \* its source buffer: "none", "ready", "updating", "failed"
    queue,    \* segments to append
    waitingInit,
    appended, \* segments appended, counted to 2
    upsets,   \* counts for MaxUpsets
    cut       \* history: the queue lost its init segment

playerVars == <<closed, ws, feed, inbox, retry, chase, ms, sb, queue, waitingInit,
                appended, upsets, cut>>
sourceVars == <<chase, ms, sb, queue, waitingInit, appended, cut>>
deviceVars == <<feed, inbox>>

Device == INSTANCE PreviewFeed

\* Nothing appended or queued, and no source buffer: the media source, if any,
\* is at its beginning
Afresh ==
    /\ chase' = FALSE /\ sb' = "none"
    /\ queue' = <<>> /\ waitingInit' = TRUE /\ appended' = 0 /\ cut' = FALSE

resetPlayer == ms' = "none" /\ Afresh

\* startMse
startMse == ms' = "opening" /\ Afresh

\* connect, and stopSocket: a socket that was replaced is heard no more
\* (with a defect: the timer is not cleared)
connectOnly == ws' = "connecting" /\ UNCHANGED retry
connect == ws' = "connecting" /\ retry' = FALSE
Unheard == feed' = "shut" /\ inbox' = <<>>

-----------------------------------------------------------------------------
\* onMounted
Init ==
    /\ closed = FALSE /\ retry = FALSE /\ upsets = 0
    /\ ws = "connecting" /\ Device!Init /\ inbox = <<>>
    /\ chase = FALSE /\ ms = "none" /\ sb = "none"
    /\ queue = <<>> /\ waitingInit = TRUE /\ appended = 0 /\ cut = FALSE

\* The reconnect timer fires
Reconnect ==
    /\ retry
    /\ connect
    /\ UNCHANGED <<closed, deviceVars, sourceVars, upsets>>

\* onclose, after the messages that came before it, and scheduleReconnect
\* (with a defect: the player gives up)
OnCloseGivesUp ==
    /\ ws = "lost" /\ inbox = <<>>
    /\ ws' = "none" /\ retry' = FALSE
    /\ resetPlayer
    /\ UNCHANGED <<closed, deviceVars, upsets>>

OnClose ==
    /\ ws = "lost" /\ inbox = <<>>
    /\ ws' = "none" /\ retry' = ~closed
    /\ resetPlayer
    /\ UNCHANGED <<closed, deviceVars, upsets>>

\* toggleStream with its watcher: reconnectNow
reconnectNow ==
    /\ ~closed /\ upsets < MaxUpsets
    /\ upsets' = upsets + 1
    /\ resetPlayer /\ Unheard
    /\ connect
    /\ UNCHANGED closed

\* onUnmounted
Unmount ==
    /\ ~closed /\ closed' = TRUE
    /\ ws' = "none" /\ Unheard
    /\ retry' = FALSE
    /\ resetPlayer
    /\ UNCHANGED upsets

-----------------------------------------------------------------------------
\* flush of the queue q: an idle source buffer takes its first segment.  A
\* buffer whose first segment is not an init segment fails, and refuses all that
\* come after it.
flush(q, idle) ==
    IF idle /\ q # <<>>
    THEN /\ queue' = Tail(q)
         /\ sb' = IF appended = 0 /\ Head(q) # "init" THEN "failed" ELSE "updating"
         /\ appended' = IF appended < 2 THEN appended + 1 ELSE 2
    ELSE queue' = q /\ sb' = (IF idle THEN "ready" ELSE sb) /\ UNCHANGED appended

\* A segment: before the init segment all are dropped; a queue that has grown
\* beyond Cap is cut to its last ones, an init segment among the others too
Segment(m) ==
    LET long == Len(queue) > Cap
        rest == IF long THEN SubSeq(queue, Len(queue) - Keep + 1, Len(queue)) ELSE queue
        q == Append(rest, m)
    IN
    /\ UNCHANGED <<ms, chase>>
    /\ IF waitingInit /\ m # "init"
       THEN UNCHANGED <<sb, queue, waitingInit, appended, cut>>
       ELSE /\ waitingInit' = FALSE
            /\ flush(q, sb = "ready")
            /\ cut' = (cut \/ (appended = 0 /\ Head(q) # "init"))

OnMessage ==
    /\ inbox # <<>> /\ inbox' = Tail(inbox)
    /\ IF Head(inbox) = "codec" THEN startMse ELSE Segment(Head(inbox))
    /\ UNCHANGED <<closed, ws, feed, retry, upsets>>

\* sourceopen
SourceOpen ==
    /\ ms = "opening" /\ ms' = "open"
    /\ chase' = TRUE
    /\ flush(queue, TRUE)
    /\ UNCHANGED <<closed, ws, deviceVars, retry, waitingInit, upsets, cut>>

\* updateend
UpdateEnd ==
    /\ sb = "updating"
    /\ flush(queue, TRUE)
    /\ UNCHANGED <<closed, ws, deviceVars, retry, chase, ms, waitingInit, upsets, cut>>

\* chaseLive with evictSourceBuffer: old pictures are removed from the buffer
Evict ==
    /\ chase /\ sb = "ready" /\ appended = 2
    /\ sb' = "updating"
    /\ UNCHANGED <<closed, ws, deviceVars, retry, chase, ms, queue, waitingInit, appended,
                   upsets, cut>>

-----------------------------------------------------------------------------
\* The device's side
Accept ==
    /\ ws = "connecting" /\ Device!Open
    /\ ws' = "open"
    /\ UNCHANGED <<closed, inbox, retry, sourceVars, upsets>>

Send(stage, msgs) ==
    /\ ws = "open" /\ Len(inbox) + Len(msgs) <= MaxInbox
    /\ stage
    /\ inbox' = inbox \o msgs
    /\ UNCHANGED <<closed, ws, retry, sourceVars, upsets>>

SendInit == Send(Device!Describe, <<"codec", "init">>)
SendFragment == Send(Device!Flow, <<"fragment">>)

\* The device refuses the socket, has no slot for it, or the connection breaks
Fail ==
    /\ ws \in {"connecting", "open"} /\ upsets < MaxUpsets
    /\ upsets' = upsets + 1
    /\ ws' = "lost" /\ feed' = "shut"
    /\ UNCHANGED <<closed, inbox, retry, sourceVars>>

Next ==
    \/ Reconnect \/ OnClose \/ reconnectNow \/ Unmount
    \/ OnMessage \/ SourceOpen \/ UpdateEnd \/ Evict
    \/ Accept \/ SendInit \/ SendFragment \/ Fail

\* The browser's timers and events come, and the device answers and keeps
\* sending; nothing else has to happen
Fairness ==
    /\ WF_playerVars(Reconnect) /\ WF_playerVars(OnClose) /\ WF_playerVars(OnMessage)
    /\ WF_playerVars(SourceOpen) /\ WF_playerVars(UpdateEnd)
    /\ WF_playerVars(Accept) /\ WF_playerVars(SendInit) /\ WF_playerVars(SendFragment)

Spec == Init /\ [][Next]_playerVars /\ Fairness

-----------------------------------------------------------------------------
TypeOK ==
    /\ {closed, retry, chase, waitingInit, cut} \subseteq BOOLEAN
    /\ ws \in {"none", "connecting", "open", "lost"} /\ feed \in Device!Stages
    /\ inbox \in Seq({"codec", "init", "fragment"}) /\ Len(inbox) <= MaxInbox
    /\ ms \in {"none", "opening", "open"}
    /\ sb \in {"none", "ready", "updating", "failed"}
    /\ queue \in Seq({"init", "fragment"}) /\ Len(queue) <= Cap + 1
    /\ appended \in 0 .. 2 /\ upsets \in 0 .. MaxUpsets

\* The player makes one attempt at a time: a socket or the timer for the next
\* one, never both and, once the player was taken off the page, neither, nor a
\* media source or its timer, whenever it was taken off.
OneAttempt ==
    /\ ~closed => (ws = "none") = retry
    /\ closed => ws = "none" /\ ~retry /\ ms = "none" /\ ~chase /\ inbox = <<>>

\* The player that stays on the page comes to play: connected, with more than
\* the init segment appended; failures, refusals and changes of the stream
\* delay it, and so does nothing else but a queue that was cut before the media
\* source opened and lost the init segment.
Playing == ws = "open" /\ appended = 2
Plays == <>[](closed \/ cut \/ Playing)
=============================================================================
