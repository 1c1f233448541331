--------------------------- MODULE PreviewServer ---------------------------
(***************************************************************************)
(* The device's side of the live preview: the web thread's handlers for the *)
(* preview sockets, its poll, the snapshot, AOV and the record policy, as   *)
(* far as they start, share and stop the media pipeline, and the media      *)
(* thread, which muxes packets and queues them for every client under       *)
(* g_prev.lock.  A handler of the web thread is one step: between its locks  *)
(* the media thread finds nothing to do.  Outcomes that need memory to run   *)
(* out, or more listeners than the two the program has, are left out; so is  *)
(* what the policy does to detection and recording.                         *)
(***************************************************************************)
EXTENDS Integers, Sequences, FiniteSets

CONSTANTS
    Conns,       \* sockets
    MaxClients,  \* PREVIEW_MAX_CLIENTS
    QueueCap     \* PREVIEW_Q

ASSUME PreviewAssumption ==
    /\ IsFiniteSet(Conns)
    /\ MaxClients \in Nat \ {0} /\ QueueCap \in Nat \ {0}

VARIABLES
    conn,      \* a socket is "none", "open", or "closing" (is_closing)
    mark,      \* the sockets with PREVIEW_MARK in c->data[0]
    client,    \* g_prev.clients, by socket: a record, or NoClient
    nclients, listening,
    owned,     \* media_owned: the preview has started the pipeline
    inits,     \* the streams whose init segment is known
    deadline,  \* g_preview_idle_deadline_ms: "off" or "armed"
    up, main,  \* the pipeline runs; it encodes the main preview stream
    policy, detect, hold,  \* g_record_policy_mode, detect.enabled, g_record_policy_hold
    aov,       \* aov_is_active
    sent,      \* history: how far the feed of each socket has come
    shot       \* history: a snapshot has used the pipeline with nobody watching

slotVars == <<conn, mark, client, nclients, sent>>
pipeVars == <<listening, owned, inits, deadline, up, main>>
policyVars == <<policy, detect, hold, aov>>
previewVars == <<conn, mark, client, nclients, sent, listening, owned, inits,
                 deadline, up, main, policy, detect, hold, aov, shot>>

Streams == {"sub", "main"}
Policies == {"motion", "continuous"}   \* "schedule" holds media as the latter does
NoClient == [stream |-> "none"]
\* q holds of each queued fragment whether it is a key frame; cut is history
Client(s) == [stream |-> s, boot |-> FALSE, wait_key |-> TRUE, q |-> <<>>, cut |-> FALSE]

Watching == {c \in Conns : client[c] # NoClient}
On(s) == {c \in Conns : client[c].stream = s}

-----------------------------------------------------------------------------
Init ==
    /\ conn = [c \in Conns |-> "none"] /\ mark = {}
    /\ client = [c \in Conns |-> NoClient] /\ nclients = 0
    /\ sent = [c \in Conns |-> "shut"]
    /\ listening = FALSE /\ owned = FALSE /\ inits = {}
    /\ deadline = "off" /\ up = FALSE /\ main = FALSE
    /\ policy \in Policies /\ detect \in BOOLEAN /\ hold = FALSE
    /\ aov = FALSE /\ shot = FALSE

\* media_stream_start where the pipeline has to be up; it may fail
StartMedia(ok) == (up => ok) /\ up' = ok /\ main' = (up /\ main)
StopMedia == up' = FALSE /\ main' = FALSE
KeepMedia == UNCHANGED <<up, main>>

-----------------------------------------------------------------------------
\* preview_ensure_pipeline, ending with preview_sync_main_encode
preview_ensure_pipeline(ok) ==
    /\ (up => ok) /\ up' = ok
    /\ listening' = ok
    /\ owned' = (ok /\ (owned \/ ~up))
    /\ inits' = IF listening THEN inits ELSE {}
    /\ main' = (ok /\ \E c \in Conns : client'[c].stream = "main")

\* handle_preview_ws with preview_add_client: the upgrade, and a slot
Refuse(c) ==
    /\ conn' = [conn EXCEPT ![c] = "closing"]
    /\ UNCHANGED <<mark, client, nclients, sent>>

handle_preview_ws(c, s) ==
    /\ conn[c] = "none" /\ ~aov
    /\ UNCHANGED policyVars
    /\ \/ /\ Cardinality(Watching) = MaxClients
          /\ Refuse(c)
          /\ UNCHANGED <<pipeVars, shot>>
       \/ /\ Cardinality(Watching) < MaxClients
          /\ deadline' = "off"
          /\ \E ok \in BOOLEAN :
               /\ IF ok
                  THEN /\ conn' = [conn EXCEPT ![c] = "open"]
                       /\ mark' = mark \cup {c}
                       /\ client' = [client EXCEPT ![c] = Client(s)]
                       /\ nclients' = nclients + 1
                       /\ sent' = [sent EXCEPT ![c] = "open"]
                  ELSE Refuse(c)
               /\ preview_ensure_pipeline(ok)
               /\ shot' = FALSE

\* preview_remove_client and preview_detach_client: the slot goes free, and the
\* last one to go leaves the pipeline running for two seconds
\* (with a defect: a socket whose slot AOV has emptied counts again)
LeaveCountsTwice(c) ==
    /\ client' = [client EXCEPT ![c] = NoClient]
    /\ nclients' = nclients - 1
    /\ sent' = [sent EXCEPT ![c] = "shut"]
    /\ mark' = mark \ {c}
    /\ main' = (up /\ main /\ \E d \in Conns : client'[d].stream = "main")
    /\ deadline' = IF nclients' = 0 THEN "armed" ELSE deadline
    /\ UNCHANGED <<listening, owned, inits, up, policyVars, shot>>

\* (with a defect: the main stream is not looked at)
LeaveMainRunning(c) ==
    LET left == nclients - (IF client[c] # NoClient /\ nclients > 0 THEN 1 ELSE 0) IN
    /\ client' = [client EXCEPT ![c] = NoClient]
    /\ nclients' = left
    /\ sent' = [sent EXCEPT ![c] = "shut"]
    /\ mark' = mark \ {c}
    /\ deadline' = IF left = 0 THEN "armed" ELSE deadline
    /\ UNCHANGED <<listening, owned, inits, up, main, policyVars, shot>>

Leave(c) ==
    LET left == nclients - (IF client[c] # NoClient /\ nclients > 0 THEN 1 ELSE 0) IN
    /\ client' = [client EXCEPT ![c] = NoClient]
    /\ nclients' = left
    /\ sent' = [sent EXCEPT ![c] = "shut"]
    /\ mark' = mark \ {c}
    /\ main' = (up /\ main /\ \E d \in Conns : client'[d].stream = "main")
    /\ deadline' = IF left = 0 THEN "armed" ELSE deadline
    /\ UNCHANGED <<listening, owned, inits, up, policyVars, shot>>

\* MG_EV_WS_MSG: the browser asks to stop
Stop(c) ==
    /\ conn[c] = "open" /\ c \in mark
    /\ Leave(c)
    /\ UNCHANGED conn

\* MG_EV_CLOSE: closed by the browser, lost, or closed by the device
Close(c) ==
    /\ conn[c] # "none"
    /\ conn' = [conn EXCEPT ![c] = "none"]
    /\ IF c \in mark THEN Leave(c)
       ELSE UNCHANGED <<mark, client, nclients, sent, pipeVars, policyVars, shot>>

-----------------------------------------------------------------------------
\* preview_enqueue_locked for one client: from a key frame on, dropping the
\* oldest fragment of a full queue
\* (with a defect: a full queue grows)
EnqueueUnbounded(k, key) ==
    IF k.wait_key /\ ~key THEN k
    ELSE [k EXCEPT !.wait_key = FALSE, !.q = Append(@, key)]

\* (with a defect: from any fragment on)
EnqueueAnyFragment(k, key) ==
    [k EXCEPT !.wait_key = FALSE,
              !.q = Append(IF Len(@) = QueueCap THEN Tail(@) ELSE @, key),
              !.cut = @ \/ Len(k.q) = QueueCap]

Enqueue(k, key) ==
    IF k.wait_key /\ ~key THEN k
    ELSE [k EXCEPT !.wait_key = FALSE,
                   !.q = Append(IF Len(@) = QueueCap THEN Tail(@) ELSE @, key),
                   !.cut = @ \/ Len(k.q) = QueueCap]

\* preview_on_packet, with fmp4_mux_push and preview_emit: the first key frame
\* of a stream brings its init segment, and nothing is queued before it, nor for
\* a socket with half a megabyte to send
Packet(s, key) ==
    /\ up /\ listening /\ On(s) # {} /\ (s \in inits \/ key)
    /\ inits' = inits \cup {s}
    /\ \E full \in SUBSET {c \in Conns : sent[c] = "flow"} :
         client' = [c \in Conns |->
                      IF client[c].stream = s /\ conn[c] = "open" /\ c \notin full
                      THEN Enqueue(client[c], key) ELSE client[c]]
    /\ UNCHANGED <<conn, mark, nclients, sent, listening, owned, deadline, up, main,
                   policyVars, shot>>

\* preview_poll_client: the codec and the init segment once, then the queue,
\* unless the socket is congested
Flushed(k, slow) ==
    IF ~k.boot /\ k.stream \notin inits THEN k
    ELSE [k EXCEPT !.boot = TRUE, !.q = IF slow THEN @ ELSE <<>>]

\* "torn" is a feed that started with anything but a key frame, the queue not
\* having overflowed
Told(k, st, slow) ==
    IF ~k.boot /\ k.stream \notin inits THEN st
    ELSE IF slow \/ k.q = <<>> THEN (IF st = "open" THEN "init" ELSE st)
    ELSE IF st \in {"open", "init"} /\ ~Head(k.q) /\ ~k.cut THEN "torn" ELSE "flow"

PollClients(slow) ==
    /\ client' = [c \in Conns |-> IF c \in Watching /\ conn[c] = "open"
                                   THEN Flushed(client[c], c \in slow) ELSE client[c]]
    /\ sent' = [c \in Conns |-> IF c \in Watching /\ conn[c] = "open"
                                 THEN Told(client[c], sent[c], c \in slow) ELSE sent[c]]
    /\ UNCHANGED <<conn, mark, nclients>>

\* preview_shutdown_pipeline: what a policy holds, or somebody else has
\* started, stays up
preview_shutdown_pipeline ==
    /\ listening' = FALSE /\ owned' = FALSE /\ inits' = {}
    /\ main' = FALSE
    /\ up' = (up /\ ~(owned /\ ~hold'))
    /\ shot' = FALSE

\* preview_on_poll before the deadline, if one is set, and after it
preview_on_poll ==
    /\ \E slow \in SUBSET Watching : PollClients(slow)
    /\ UNCHANGED <<pipeVars, policyVars, shot>>

IdleDue ==
    /\ deadline = "armed" /\ deadline' = "off"
    /\ PollClients({})
    /\ UNCHANGED policyVars
    /\ IF nclients = 0 THEN preview_shutdown_pipeline
       ELSE UNCHANGED <<listening, owned, inits, up, main, shot>>

\* handle_preview_snapshot_post: the pipeline is started and no deadline set
Snapshot ==
    /\ ~aov
    /\ UNCHANGED <<slotVars, deadline, policyVars>>
    /\ \E ok \in BOOLEAN : preview_ensure_pipeline(ok)
    /\ shot' = (listening' /\ (shot \/ (nclients = 0 /\ deadline = "off")))

-----------------------------------------------------------------------------
\* The end of web_apply_record_policy and of handle_alarm_motion_set where
\* motion needs no media
Unhold ==
    /\ hold' = FALSE
    /\ IF nclients = 0 THEN StopMedia ELSE KeepMedia

\* web_apply_record_policy: at the start, for a saved plan, after a format
ApplyPolicy(m) ==
    /\ policy' = m
    /\ IF m # "motion" \/ detect
       THEN \E ok \in BOOLEAN : StartMedia(ok) /\ hold' = ok
       ELSE Unhold

web_apply_record_policy(m) ==
    /\ ApplyPolicy(m)
    /\ UNCHANGED <<slotVars, listening, owned, inits, deadline, detect, aov, shot>>

\* handle_alarm_motion_set: a failed start leaves the hold behind
handle_alarm_motion_set(enabled) ==
    /\ detect' = enabled
    /\ CASE policy # "motion" -> KeepMedia /\ UNCHANGED hold
         [] policy = "motion" /\ enabled ->
              hold' = TRUE /\ \E ok \in BOOLEAN : StartMedia(ok)
         [] policy = "motion" /\ ~enabled -> Unhold
    /\ UNCHANGED <<slotVars, listening, owned, inits, deadline, policy, aov, shot>>

\* handle_video_encode_set: the pipeline is built again, its main preview
\* stream idle, whoever watches it
handle_video_encode_set ==
    /\ up /\ main' = FALSE
    /\ UNCHANGED <<slotVars, listening, owned, inits, deadline, up, policyVars, shot>>

\* handle_aov_enter with web_preview_force_stop: the slots are emptied at once,
\* the marks stay until the sockets close
handle_aov_enter ==
    /\ aov' = TRUE /\ hold' = FALSE
    /\ conn' = [c \in Conns |-> IF c \in Watching THEN "closing" ELSE conn[c]]
    /\ client' = [c \in Conns |-> NoClient] /\ nclients' = 0
    /\ sent' = [c \in Conns |-> "shut"]
    /\ preview_shutdown_pipeline
    /\ UNCHANGED <<mark, deadline, policy, detect>>

handle_aov_leave ==
    /\ aov /\ aov' = FALSE
    /\ ApplyPolicy(policy)
    /\ UNCHANGED <<slotVars, listening, owned, inits, deadline, detect, shot>>

Next ==
    \/ \E c \in Conns :
         \/ \E s \in Streams : handle_preview_ws(c, s)
         \/ Stop(c) \/ Close(c)
    \/ \E s \in Streams, key \in BOOLEAN : Packet(s, key)
    \/ preview_on_poll \/ IdleDue \/ Snapshot
    \/ \E m \in Policies : web_apply_record_policy(m)
    \/ \E enabled \in BOOLEAN : handle_alarm_motion_set(enabled)
    \/ handle_video_encode_set \/ handle_aov_enter \/ handle_aov_leave

Spec == Init /\ [][Next]_previewVars

-----------------------------------------------------------------------------
ClientRecord ==
    [stream : Streams, boot : BOOLEAN, wait_key : BOOLEAN, q : Seq(BOOLEAN), cut : BOOLEAN]

TypeOK ==
    /\ conn \in [Conns -> {"none", "open", "closing"}] /\ mark \subseteq Conns
    /\ client \in [Conns -> ClientRecord \cup {NoClient}]
    /\ \A c \in Watching : Len(client[c].q) <= QueueCap
    /\ nclients \in Int /\ inits \subseteq Streams
    /\ deadline \in {"off", "armed"} /\ policy \in Policies
    /\ {listening, owned, up, main, detect, hold, aov, shot} \subseteq BOOLEAN

\* The counter that decides when the pipeline stops is the number of slots in
\* use, never more than there are, and each slot's connection is open and will
\* free it when it closes: with stops, closes, refused clients and AOV emptying
\* the slots under sockets that close later.
ClientsCounted ==
    /\ nclients = Cardinality(Watching) /\ nclients <= MaxClients
    /\ \A c \in Watching : conn[c] = "open" /\ c \in mark

\* What runs for the preview runs on demand: the packet listener and the muxers
\* only while somebody watches, or until the deadline, or after a snapshot; the
\* main preview stream is encoded only while somebody watches that stream.
RunsOnDemand ==
    /\ listening => nclients > 0 \/ deadline = "armed" \/ shot
    /\ main => up /\ On("main") # {}

\* Each socket's feed keeps PreviewFeed's promise.
Feed(c) == INSTANCE PreviewFeed WITH feed <- sent[c]
FeedsKept ==
    /\ \A c \in Conns : Feed(c)!Init
    /\ [][\A c \in Conns : Feed(c)!Next \/ UNCHANGED sent[c]]_sent

\* "When the last client has gone the media stop, unless the record policy holds
\* them" (docs/05-api.md): the idle deadline with nobody left leaves no pipeline
\* running without a hold.
IdleStopsMedia == [][IdleDue /\ nclients = 0 /\ ~aov => hold \/ ~up']_previewVars
=============================================================================
