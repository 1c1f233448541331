---------------------------- MODULE PreviewProofs ----------------------------
(***************************************************************************)
(* For any number of sockets, of slots and of queued fragments: the clients *)
(* are counted, what runs for the preview runs on demand, and the feed of   *)
(* every socket keeps PreviewFeed's promise.  And the player, which meets    *)
(* the device in that promise only, has one attempt to connect at a time.   *)
(***************************************************************************)
EXTENDS MCPreview, FiniteSetTheorems, SequenceTheorems, TLAPS

\* A client whose feed has not begun has an empty queue and waits for a key
\* frame, or a queue that begins with one, or one that has overflowed
Fresh(k) == IF k.q = <<>> THEN k.wait_key ELSE k.cut \/ Head(k.q)

\* The slots' part of the inductive invariant: types, and for each socket how
\* its feed and its slot agree
SlotTypes ==
    /\ conn \in [Conns -> {"none", "open", "closing"}] /\ mark \subseteq Conns
    /\ client \in [Conns -> ClientRecord \cup {NoClient}]
    /\ sent \in [Conns -> {"shut", "open", "init", "flow"}]
    /\ nclients \in Nat

FeedOK(k, st) ==
    /\ k = NoClient <=> st = "shut"
    /\ k # NoClient => Len(k.q) <= QueueCap
    /\ st \in {"open", "init"} => Fresh(k)

Feeds == \A c \in Conns : FeedOK(client[c], sent[c])

SlotInv == SlotTypes /\ Feeds /\ ClientsCounted

-----------------------------------------------------------------------------
\* Records of clients

LEMMA NewClient ==
    ASSUME NEW s \in Streams
    PROVE  /\ Client(s) \in ClientRecord /\ Client(s) # NoClient
           /\ FeedOK(Client(s), "open")
<1>1. Client(s) \in ClientRecord
  BY DEF Client, ClientRecord
<1>2. Client(s).stream = s /\ NoClient.stream = "none" /\ s # "none"
  BY DEF Client, NoClient, Streams
<1>3. Client(s).q = <<>> /\ Client(s).wait_key = TRUE
  BY DEF Client
<1>4. Len(<<>>) <= QueueCap
  BY PreviewAssumption
<1> QED BY <1>1, <1>2, <1>3, <1>4 DEF FeedOK, Fresh

LEMMA ClientFields ==
    ASSUME NEW k \in ClientRecord
    PROVE  /\ k # NoClient /\ k.stream \in Streams /\ k.boot \in BOOLEAN
           /\ k.wait_key \in BOOLEAN /\ k.q \in Seq(BOOLEAN) /\ k.cut \in BOOLEAN
<1>1. k.stream \in Streams
  BY DEF ClientRecord
<1>2. k # NoClient
  BY <1>1 DEF NoClient, Streams
<1> QED BY <1>2 DEF ClientRecord

\* Appending to a full queue drops its head
LEMMA AppendOK ==
    ASSUME NEW q \in Seq(BOOLEAN), NEW key \in BOOLEAN, Len(q) <= QueueCap
    PROVE  LET r == Append(IF Len(q) = QueueCap THEN Tail(q) ELSE q, key)
           IN  /\ r \in Seq(BOOLEAN) /\ r # <<>> /\ Len(r) <= QueueCap
               /\ q = <<>> => Head(r) = key
               /\ q # <<>> /\ Len(q) # QueueCap => Head(r) = Head(q)
<1>1. QueueCap \in Nat \ {0} /\ Len(q) \in Nat
  BY PreviewAssumption
<1>2. CASE Len(q) = QueueCap
  <2>1. q # <<>>
    BY <1>1, <1>2
  <2>2. Tail(q) \in Seq(BOOLEAN) /\ Len(Tail(q)) = Len(q) - 1
    BY <2>1, HeadTailProperties
  <2>3. /\ Append(Tail(q), key) \in Seq(BOOLEAN)
        /\ Len(Append(Tail(q), key)) = Len(q)
        /\ Append(Tail(q), key) # <<>>
    BY <1>1, <2>2, AppendProperties
  <2> QED BY <1>1, <1>2, <2>1, <2>3
<1>3. CASE Len(q) # QueueCap
  <2>1. /\ Append(q, key) \in Seq(BOOLEAN) /\ Append(q, key) # <<>>
        /\ Len(Append(q, key)) = Len(q) + 1
        /\ Append(q, key)[1] = IF q = <<>> THEN key ELSE q[1]
    <3>1. /\ Append(q, key) \in Seq(BOOLEAN) /\ Append(q, key) # <<>>
          /\ Len(Append(q, key)) = Len(q) + 1
      BY AppendProperties
    <3>2. CASE q = <<>>
      BY <3>2
    <3>3. CASE q # <<>>
      <4>1. Len(q) >= 1
        BY <1>1, <3>3, EmptySeq
      <4> QED BY <1>1, <3>3, <4>1, AppendProperties
    <3> QED BY <3>1, <3>2, <3>3
  <2>2. Head(Append(q, key)) = Append(q, key)[1] /\ Head(q) = q[1]
    BY <2>1
  <2> QED BY <1>1, <1>3, <2>1, <2>2
<1> QED BY <1>2, <1>3

\* A packet queued for a client
LEMMA EnqueueOK ==
    ASSUME NEW k \in ClientRecord, NEW key \in BOOLEAN, NEW st,
           FeedOK(k, st)
    PROVE  LET e == Enqueue(k, key)
           IN  e \in ClientRecord /\ e.stream = k.stream /\ FeedOK(e, st)
<1> DEFINE q == Append(IF Len(k.q) = QueueCap THEN Tail(k.q) ELSE k.q, key)
           e == Enqueue(k, key)
<1>0. /\ k # NoClient /\ k.stream \in Streams /\ k.boot \in BOOLEAN
      /\ k.wait_key \in BOOLEAN /\ k.q \in Seq(BOOLEAN) /\ k.cut \in BOOLEAN
  BY ClientFields
<1>1. /\ st # "shut" /\ Len(k.q) <= QueueCap
      /\ st \in {"open", "init"} => Fresh(k)
  BY <1>0 DEF FeedOK
<1>2. CASE k.wait_key /\ ~key
  BY <1>2 DEF Enqueue
<1>3. CASE ~(k.wait_key /\ ~key)
  <2>1. /\ q \in Seq(BOOLEAN) /\ q # <<>> /\ Len(q) <= QueueCap
        /\ k.q = <<>> => Head(q) = key
        /\ k.q # <<>> /\ Len(k.q) # QueueCap => Head(q) = Head(k.q)
    BY <1>0, <1>1, AppendOK
  <2>2. e = [k EXCEPT !.wait_key = FALSE, !.q = q, !.cut = k.cut \/ Len(k.q) = QueueCap]
    BY <1>3 DEF Enqueue
  <2> HIDE DEF q, e
  <2>3. e \in ClientRecord /\ e.stream = k.stream /\ e.q = q
    BY <1>0, <2>1, <2>2 DEF ClientRecord
  <2>4. e.cut = (k.cut \/ Len(k.q) = QueueCap)
    BY <1>0, <2>2 DEF ClientRecord
  <2>5. e # NoClient
    BY <2>3, ClientFields
  <2>6. ASSUME st \in {"open", "init"} PROVE Fresh(e)
    <3>1. IF k.q = <<>> THEN k.wait_key ELSE k.cut \/ Head(k.q)
      BY <1>1, <2>6 DEF Fresh
    <3>2. e.cut \/ Head(q)
      <4>1. CASE k.q = <<>>
        BY <1>3, <2>1, <3>1, <4>1
      <4>2. CASE k.q # <<>> /\ Len(k.q) = QueueCap
        BY <2>4, <4>2
      <4>3. CASE k.q # <<>> /\ Len(k.q) # QueueCap
        BY <2>1, <2>4, <3>1, <4>3
      <4> QED BY <4>1, <4>2, <4>3
    <3> QED BY <2>1, <2>3, <3>2 DEF Fresh
  <2>7. FeedOK(e, st)
    BY <1>1, <2>1, <2>3, <2>5, <2>6 DEF FeedOK
  <2> QED BY <2>3, <2>7 DEF e
<1> QED BY <1>2, <1>3

\* A poll of a client's socket
LEMMA FlushedOK ==
    ASSUME NEW k \in ClientRecord, NEW st \in {"shut", "open", "init", "flow"},
           NEW slow \in BOOLEAN, FeedOK(k, st)
    PROVE  /\ Flushed(k, slow) \in ClientRecord
           /\ Flushed(k, slow).stream = k.stream
           /\ FeedOK(Flushed(k, slow), Told(k, st, slow))
           /\ Told(k, st, slow) \in {"open", "init", "flow"}
           /\ Told(k, st, slow) = st \/ st = "open" \/ (st = "init" /\ Told(k, st, slow) = "flow")
<1> DEFINE e == Flushed(k, slow)
<1>0. /\ k # NoClient /\ k.stream \in Streams /\ k.boot \in BOOLEAN
      /\ k.wait_key \in BOOLEAN /\ k.q \in Seq(BOOLEAN) /\ k.cut \in BOOLEAN
  BY ClientFields
<1>1. /\ st \in {"open", "init", "flow"} /\ Len(k.q) <= QueueCap
      /\ st \in {"open", "init"} => Fresh(k)
  BY <1>0 DEF FeedOK
<1>2. CASE ~k.boot /\ k.stream \notin inits
  <2>1. e = k /\ Told(k, st, slow) = st
    BY <1>2 DEF Flushed, Told
  <2> QED BY <1>1, <2>1
<1>3. CASE ~(~k.boot /\ k.stream \notin inits)
  <2> DEFINE q == IF slow THEN k.q ELSE <<>>
  <2>1. e = [k EXCEPT !.boot = TRUE, !.q = q]
    <3>1. Flushed(k, slow) = [k EXCEPT !.boot = TRUE, !.q = IF slow THEN @ ELSE <<>>]
      BY <1>3 DEF Flushed
    <3>2. CASE slow
      BY <3>1, <3>2 DEF ClientRecord
    <3>3. CASE ~slow
      BY <3>1, <3>3 DEF ClientRecord
    <3> QED BY <3>2, <3>3
  <2>2. q \in Seq(BOOLEAN) /\ Len(q) <= QueueCap
    <3>1. <<>> \in Seq(BOOLEAN) /\ Len(<<>>) <= QueueCap
      BY PreviewAssumption
    <3>2. CASE slow
      BY <1>0, <1>1, <3>2
    <3>3. CASE ~slow
      BY <3>1, <3>3
    <3> QED BY <3>2, <3>3
  <2> HIDE DEF e
  <2>3. /\ e \in ClientRecord /\ e.stream = k.stream /\ e.q = q
        /\ e.wait_key = k.wait_key /\ e.cut = k.cut
    <3> HIDE DEF q
    <3> QED BY <1>0, <2>1, <2>2 DEF ClientRecord
  <2>4. e # NoClient
    BY <2>3, ClientFields
  <2>5. CASE slow \/ k.q = <<>>
    <3>1. Told(k, st, slow) = IF st = "open" THEN "init" ELSE st
      BY <1>3, <2>5 DEF Told
    <3>2. q = k.q
      BY <2>5
    <3>3. st \in {"open", "init"} => Fresh(e)
      BY <1>1, <2>3, <3>2 DEF Fresh
    <3> HIDE DEF q
    <3> QED BY <1>1, <2>2, <2>3, <2>4, <3>1, <3>3 DEF FeedOK, e
  <2>6. CASE ~(slow \/ k.q = <<>>)
    <3>1. st \in {"open", "init"} => k.cut \/ Head(k.q)
      BY <1>1, <2>6 DEF Fresh
    <3>2. Told(k, st, slow) = "flow"
      BY <1>1, <1>3, <2>6, <3>1 DEF Told
    <3> HIDE DEF q
    <3> QED BY <1>1, <2>2, <2>3, <2>4, <3>2 DEF FeedOK, e
  <2> QED BY <2>5, <2>6
<1> QED BY <1>2, <1>3
-----------------------------------------------------------------------------
\* Every action on the slots

\* What the invariants read of the slots is the same, one socket aside
LEMMA WatchingSubset == Watching \subseteq Conns /\ IsFiniteSet(Watching)
<1>1. Watching \subseteq Conns
  BY DEF Watching
<1> QED BY <1>1, FS_Subset, PreviewAssumption

LEMMA SlotsKept ==
    ASSUME SlotInv, UNCHANGED slotVars
    PROVE  SlotInv' /\ \A s : On(s)' = On(s)
<1>1. UNCHANGED conn /\ UNCHANGED mark /\ UNCHANGED client /\ UNCHANGED nclients
      /\ UNCHANGED sent
  BY DEF slotVars
<1>2. Watching' = Watching
  BY <1>1 DEF Watching
<1> QED BY <1>1, <1>2 DEF SlotInv, SlotTypes, Feeds, FeedOK, Fresh, ClientsCounted, On

\* A socket whose upgrade is refused
LEMMA RefuseOK ==
    ASSUME SlotInv, NEW c \in Conns, conn[c] = "none", Refuse(c)
    PROVE  SlotInv' /\ \A s : On(s)' = On(s)
<1>1. /\ conn' = [conn EXCEPT ![c] = "closing"]
      /\ UNCHANGED mark /\ UNCHANGED client /\ UNCHANGED nclients /\ UNCHANGED sent
  BY DEF Refuse
<1>2. Watching' = Watching
  BY <1>1 DEF Watching
<1>3. c \notin Watching
  BY DEF SlotInv, ClientsCounted
<1>4. SlotTypes'
  BY <1>1 DEF SlotInv, SlotTypes
<1>5. Feeds'
  BY <1>1 DEF SlotInv, Feeds, FeedOK, Fresh
<1>6. ClientsCounted'
  BY <1>1, <1>2, <1>3, WatchingSubset DEF SlotInv, SlotTypes, ClientsCounted
<1> QED BY <1>1, <1>4, <1>5, <1>6 DEF SlotInv, On

\* A socket that gets a slot
LEMMA JoinOK ==
    ASSUME SlotInv, NEW c \in Conns, NEW s \in Streams,
           conn[c] = "none", Cardinality(Watching) < MaxClients,
           conn' = [conn EXCEPT ![c] = "open"], mark' = mark \cup {c},
           client' = [client EXCEPT ![c] = Client(s)],
           nclients' = nclients + 1, sent' = [sent EXCEPT ![c] = "open"]
    PROVE  SlotInv' /\ nclients' > 0
<1>1. c \notin Watching
  BY DEF SlotInv, ClientsCounted
<1>2. Client(s) \in ClientRecord /\ Client(s) # NoClient /\ FeedOK(Client(s), "open")
  BY NewClient
<1>3. Watching' = Watching \cup {c}
  BY <1>2 DEF Watching, SlotInv, SlotTypes
<1>4. Cardinality(Watching') = Cardinality(Watching) + 1
  BY <1>1, <1>3, WatchingSubset, FS_AddElement
<1>5. SlotTypes'
  BY <1>2 DEF SlotInv, SlotTypes
<1>6. Feeds'
  <2> SUFFICES ASSUME NEW d \in Conns PROVE FeedOK(client'[d], sent'[d])
    BY DEF Feeds, FeedOK, Fresh
  <2>1. CASE d = c
    BY <1>2, <2>1 DEF SlotInv, SlotTypes
  <2>2. CASE d # c
    <3>1. client'[d] = client[d] /\ sent'[d] = sent[d]
      BY <2>2 DEF SlotInv, SlotTypes
    <3> QED BY <3>1 DEF SlotInv, Feeds
  <2> QED BY <2>1, <2>2
<1>7. ClientsCounted'
  <2>1. nclients' = Cardinality(Watching') /\ nclients' <= MaxClients
    BY <1>4, PreviewAssumption DEF SlotInv, SlotTypes, ClientsCounted
  <2>2. \A d \in Watching' : conn'[d] = "open" /\ d \in mark'
    BY <1>3, WatchingSubset DEF SlotInv, SlotTypes, ClientsCounted
  <2> QED BY <2>1, <2>2 DEF ClientsCounted
<1>8. nclients' > 0
  BY DEF SlotInv, SlotTypes
<1> QED BY <1>5, <1>6, <1>7, <1>8 DEF SlotInv

\* A socket that leaves: stopped by the browser, or closed
LEMMA LeaveOK ==
    ASSUME SlotInv, NEW c \in Conns, Leave(c),
           conn' = conn \/ conn' = [conn EXCEPT ![c] = "none"]
    PROVE  /\ SlotInv'
           /\ nclients' = 0 => deadline' = "armed"
           /\ nclients' # 0 => deadline' = deadline
<1> DEFINE left == nclients - (IF client[c] # NoClient /\ nclients > 0 THEN 1 ELSE 0)
<1>1. /\ client' = [client EXCEPT ![c] = NoClient] /\ nclients' = left
      /\ sent' = [sent EXCEPT ![c] = "shut"] /\ mark' = mark \ {c}
      /\ deadline' = IF left = 0 THEN "armed" ELSE deadline
  BY DEF Leave
<1>2. Watching' = Watching \ {c}
  BY <1>1 DEF Watching, SlotInv, SlotTypes
<1>3. /\ Cardinality(Watching) \in Nat /\ Cardinality(Watching') \in Nat
      /\ Cardinality(Watching') =
           IF c \in Watching THEN Cardinality(Watching) - 1 ELSE Cardinality(Watching)
  <2>1. Cardinality(Watching) \in Nat
    BY WatchingSubset, FS_CardinalityType
  <2>2. IsFiniteSet(Watching')
    BY <1>2, WatchingSubset, FS_RemoveElement
  <2> QED BY <1>2, <2>1, <2>2, WatchingSubset, FS_RemoveElement, FS_CardinalityType
<1>4. c \in Watching <=> client[c] # NoClient
  BY DEF Watching
<1>5. nclients = Cardinality(Watching) /\ nclients <= MaxClients
  BY DEF SlotInv, ClientsCounted
<1>6. nclients' = Cardinality(Watching')
  BY <1>1, <1>3, <1>4, <1>5
<1>7. SlotTypes'
  <2>1. nclients' \in Nat
    BY <1>3, <1>6
  <2> HIDE DEF left
  <2>2. conn' \in [Conns -> {"none", "open", "closing"}]
    BY DEF SlotInv, SlotTypes
  <2> QED BY <1>1, <2>1, <2>2 DEF SlotInv, SlotTypes
<1>8. Feeds'
  <2> SUFFICES ASSUME NEW d \in Conns PROVE FeedOK(client'[d], sent'[d])
    BY DEF Feeds, FeedOK, Fresh
  <2>1. CASE d = c
    <3>1. client'[d] = NoClient /\ sent'[d] = "shut"
      BY <1>1, <2>1 DEF SlotInv, SlotTypes
    <3> QED BY <3>1 DEF FeedOK
  <2>2. CASE d # c
    <3>1. client'[d] = client[d] /\ sent'[d] = sent[d]
      BY <1>1, <2>2 DEF SlotInv, SlotTypes
    <3> QED BY <3>1 DEF SlotInv, Feeds
  <2> QED BY <2>1, <2>2
<1>9. ClientsCounted'
  <2>1. nclients' <= MaxClients
    BY <1>3, <1>5, <1>6, PreviewAssumption
  <2>2. \A d \in Watching' : conn'[d] = "open" /\ d \in mark'
    BY <1>1, <1>2, WatchingSubset DEF SlotInv, SlotTypes, ClientsCounted
  <2> QED BY <1>6, <2>1, <2>2 DEF ClientsCounted
<1> HIDE DEF left
<1> QED BY <1>1, <1>7, <1>8, <1>9 DEF SlotInv

\* Slots whose records change and stay occupied or free as they were
LEMMA RecordsOK ==
    ASSUME SlotInv, UNCHANGED conn, UNCHANGED mark, UNCHANGED nclients,
           DOMAIN client' = Conns, DOMAIN sent' = Conns,
           client' = [c \in Conns |-> client'[c]], sent' = [c \in Conns |-> sent'[c]],
           \A c \in Conns :
             /\ client'[c] = NoClient <=> client[c] = NoClient
             /\ client'[c] \in ClientRecord \cup {NoClient}
             /\ client'[c].stream = client[c].stream
             /\ sent'[c] \in {"shut", "open", "init", "flow"}
             /\ FeedOK(client'[c], sent'[c])
    PROVE  SlotInv' /\ \A s : On(s)' = On(s)
<1>1. Watching' = Watching
  BY DEF Watching
<1>2. SlotTypes'
  BY DEF SlotInv, SlotTypes
<1>3. Feeds'
  BY DEF Feeds, FeedOK, Fresh
<1>4. ClientsCounted'
  BY <1>1 DEF SlotInv, ClientsCounted
<1>5. \A s : On(s)' = On(s)
  BY DEF On
<1> QED BY <1>2, <1>3, <1>4, <1>5 DEF SlotInv

\* A packet queued for the clients of its stream
LEMMA PacketOK ==
    ASSUME SlotInv, NEW s \in Streams, NEW key \in BOOLEAN, Packet(s, key)
    PROVE  SlotInv' /\ \A t : On(t)' = On(t)
<1>1. PICK full \in SUBSET {c \in Conns : sent[c] = "flow"} :
         client' = [c \in Conns |->
                      IF client[c].stream = s /\ conn[c] = "open" /\ c \notin full
                      THEN Enqueue(client[c], key) ELSE client[c]]
  BY DEF Packet
<1>2. UNCHANGED conn /\ UNCHANGED mark /\ UNCHANGED nclients /\ UNCHANGED sent
  BY DEF Packet
<1>3. ASSUME NEW c \in Conns
      PROVE  /\ client'[c] = NoClient <=> client[c] = NoClient
             /\ client'[c] \in ClientRecord \cup {NoClient}
             /\ client'[c].stream = client[c].stream
             /\ sent'[c] \in {"shut", "open", "init", "flow"}
             /\ FeedOK(client'[c], sent'[c])
  <2>0. /\ client[c] \in ClientRecord \cup {NoClient} /\ FeedOK(client[c], sent[c])
        /\ sent'[c] = sent[c] /\ sent[c] \in {"shut", "open", "init", "flow"}
    BY <1>2 DEF SlotInv, SlotTypes, Feeds
  <2>1. CASE client'[c] = client[c]
    BY <2>0, <2>1
  <2>2. CASE client'[c] # client[c]
    <3>1. client'[c] = Enqueue(client[c], key) /\ client[c].stream = s
      BY <1>1, <2>2
    <3>2. client[c] \in ClientRecord
      BY <2>0, <3>1 DEF NoClient, Streams
    <3>3. /\ client'[c] \in ClientRecord /\ client'[c].stream = client[c].stream
          /\ FeedOK(client'[c], sent[c])
      BY <2>0, <3>1, <3>2, EnqueueOK
    <3>4. client'[c] # NoClient /\ client[c] # NoClient
      BY <3>2, <3>3, ClientFields
    <3> QED BY <2>0, <3>3, <3>4
  <2> QED BY <2>1, <2>2
<1>4. /\ DOMAIN client' = Conns /\ client' = [c \in Conns |-> client'[c]]
      /\ DOMAIN sent' = Conns /\ sent' = [c \in Conns |-> sent'[c]]
  BY <1>1, <1>2 DEF SlotInv, SlotTypes
<1> QED BY <1>2, <1>3, <1>4, RecordsOK

\* What a step does to the feed of one socket, in PreviewFeed's words
Fed(c) ==
    \/ sent'[c] = sent[c]
    \/ sent[c] = "shut" /\ sent'[c] = "open"
    \/ sent[c] = "open" /\ sent'[c] \in {"init", "flow"}
    \/ sent[c] = "init" /\ sent'[c] = "flow"
    \/ sent[c] # "shut" /\ sent'[c] = "shut"

\* A poll flushes every client's queue that can be flushed
LEMMA PollOK ==
    ASSUME SlotInv, NEW slow \in SUBSET Watching, PollClients(slow)
    PROVE  SlotInv' /\ (\A t : On(t)' = On(t)) /\ \A c \in Conns : Fed(c)
<1>1. /\ client' = [c \in Conns |-> IF c \in Watching /\ conn[c] = "open"
                                     THEN Flushed(client[c], c \in slow) ELSE client[c]]
      /\ sent' = [c \in Conns |-> IF c \in Watching /\ conn[c] = "open"
                                   THEN Told(client[c], sent[c], c \in slow) ELSE sent[c]]
      /\ UNCHANGED conn /\ UNCHANGED mark /\ UNCHANGED nclients
  BY DEF PollClients
<1>2. ASSUME NEW c \in Conns
      PROVE  /\ client'[c] = NoClient <=> client[c] = NoClient
             /\ client'[c] \in ClientRecord \cup {NoClient}
             /\ client'[c].stream = client[c].stream
             /\ sent'[c] \in {"shut", "open", "init", "flow"}
             /\ FeedOK(client'[c], sent'[c])
             /\ Fed(c)
  <2>0. /\ client[c] \in ClientRecord \cup {NoClient} /\ FeedOK(client[c], sent[c])
        /\ sent[c] \in {"shut", "open", "init", "flow"}
    BY DEF SlotInv, SlotTypes, Feeds
  <2>1. CASE ~(c \in Watching /\ conn[c] = "open")
    <3>1. client'[c] = client[c] /\ sent'[c] = sent[c]
      BY <1>1, <2>1
    <3> QED BY <2>0, <3>1 DEF Fed
  <2>2. CASE c \in Watching /\ conn[c] = "open"
    <3> DEFINE sl == c \in slow
    <3>1. client'[c] = Flushed(client[c], sl) /\ sent'[c] = Told(client[c], sent[c], sl)
      BY <1>1, <2>2
    <3>2. client[c] \in ClientRecord /\ client[c] # NoClient /\ sl \in BOOLEAN
      BY <2>0, <2>2 DEF Watching
    <3> HIDE DEF sl
    <3>3. /\ client'[c] \in ClientRecord /\ client'[c].stream = client[c].stream
          /\ FeedOK(client'[c], sent'[c]) /\ sent'[c] \in {"open", "init", "flow"}
          /\ sent'[c] = sent[c] \/ sent[c] = "open" \/ (sent[c] = "init" /\ sent'[c] = "flow")
      BY <2>0, <3>1, <3>2, FlushedOK
    <3>4. client'[c] # NoClient
      BY <3>3, ClientFields
    <3>5. Fed(c)
      BY <3>3 DEF Fed
    <3> QED BY <3>2, <3>3, <3>4, <3>5
  <2> QED BY <2>1, <2>2
<1>3. /\ DOMAIN client' = Conns /\ client' = [c \in Conns |-> client'[c]]
      /\ DOMAIN sent' = Conns /\ sent' = [c \in Conns |-> sent'[c]]
  BY <1>1
<1> QED BY <1>1, <1>2, <1>3, RecordsOK

\* AOV empties every slot at once
LEMMA ForceStopOK ==
    ASSUME SlotInv, handle_aov_enter
    PROVE  SlotInv' /\ \A c \in Conns : Fed(c)
<1>1. /\ conn' = [c \in Conns |-> IF c \in Watching THEN "closing" ELSE conn[c]]
      /\ client' = [c \in Conns |-> NoClient] /\ nclients' = 0
      /\ sent' = [c \in Conns |-> "shut"] /\ UNCHANGED mark
  BY DEF handle_aov_enter
<1>2. Watching' = {}
  BY <1>1 DEF Watching
<1>3. SlotTypes'
  BY <1>1 DEF SlotInv, SlotTypes
<1>4. Feeds'
  BY <1>1 DEF Feeds, FeedOK
<1>5. ClientsCounted'
  BY <1>1, <1>2, FS_EmptySet, PreviewAssumption DEF ClientsCounted
<1>6. \A c \in Conns : Fed(c)
  BY <1>1 DEF Fed
<1> QED BY <1>3, <1>4, <1>5, <1>6 DEF SlotInv
-----------------------------------------------------------------------------
\* The pipeline's part of the inductive invariant
PipeTypes ==
    /\ deadline \in {"off", "armed"}
    /\ listening \in BOOLEAN /\ up \in BOOLEAN /\ main \in BOOLEAN /\ shot \in BOOLEAN

PipeInv == PipeTypes /\ RunsOnDemand

IInv == SlotInv /\ PipeInv

LEMMA InitOK == Init => IInv
<1> SUFFICES ASSUME Init PROVE IInv
  OBVIOUS
<1>1. /\ conn = [c \in Conns |-> "none"] /\ mark = {} /\ nclients = 0
      /\ client = [c \in Conns |-> NoClient] /\ sent = [c \in Conns |-> "shut"]
  BY DEF Init
<1>2. Watching = {}
  BY <1>1 DEF Watching
<1>3. SlotTypes
  BY <1>1 DEF SlotTypes
<1>4. Feeds
  BY <1>1 DEF Feeds, FeedOK
<1>5. ClientsCounted
  BY <1>1, <1>2, FS_EmptySet, PreviewAssumption DEF ClientsCounted
<1>6. PipeInv
  BY DEF Init, PipeInv, PipeTypes, RunsOnDemand
<1> QED BY <1>3, <1>4, <1>5, <1>6 DEF IInv, SlotInv

\* The pipeline with the slots at rest, or the same clients of each stream
LEMMA PipeKept ==
    ASSUME IInv, UNCHANGED nclients, \A s : On(s)' = On(s),
           UNCHANGED deadline, UNCHANGED listening, UNCHANGED up, UNCHANGED main,
           UNCHANGED shot
    PROVE  PipeInv'
BY DEF IInv, PipeInv, PipeTypes, RunsOnDemand

\* What the record policy does to the media keeps the main stream inside them
LEMMA MediaOK ==
    ASSUME IInv, UNCHANGED nclients, \A s : On(s)' = On(s),
           UNCHANGED deadline, UNCHANGED listening, UNCHANGED shot,
           \/ \E ok \in BOOLEAN : StartMedia(ok)
           \/ StopMedia
           \/ KeepMedia
    PROVE  PipeInv'
<1>1. up' \in BOOLEAN /\ main' \in BOOLEAN
  BY DEF StartMedia, StopMedia, KeepMedia, IInv, PipeInv, PipeTypes
<1>2. main' => main /\ up'
  <2>1. main => up
    BY DEF IInv, PipeInv, RunsOnDemand
  <2>2. CASE \E ok \in BOOLEAN : StartMedia(ok)
    <3>1. PICK ok \in BOOLEAN : (up => ok) /\ up' = ok /\ main' = (up /\ main)
      BY <2>2 DEF StartMedia
    <3> QED BY <3>1
  <2>3. CASE StopMedia
    BY <2>3 DEF StopMedia
  <2>4. CASE KeepMedia
    BY <2>1, <2>4 DEF KeepMedia
  <2> QED BY <2>2, <2>3, <2>4
<1> QED BY <1>1, <1>2 DEF IInv, PipeInv, PipeTypes, RunsOnDemand

\* Starting the pipeline for the preview encodes the main stream if watched
LEMMA EnsureOK ==
    ASSUME NEW ok \in BOOLEAN, preview_ensure_pipeline(ok)
    PROVE  /\ up' = ok /\ listening' = ok /\ main' \in BOOLEAN
           /\ main' => up' /\ On("main")' # {}
BY DEF preview_ensure_pipeline, On

LEMMA JoinStep ==
    ASSUME IInv, NEW c \in Conns, NEW s \in Streams, handle_preview_ws(c, s)
    PROVE  IInv' /\ \A d \in Conns : Fed(d)
<1>1. conn[c] = "none"
  BY DEF handle_preview_ws
<1>2. CASE Refuse(c) /\ UNCHANGED <<pipeVars, shot>>
  <2>1. SlotInv' /\ \A t : On(t)' = On(t)
    BY <1>1, <1>2, RefuseOK DEF IInv
  <2>2. /\ UNCHANGED nclients /\ UNCHANGED deadline /\ UNCHANGED listening
        /\ UNCHANGED up /\ UNCHANGED main /\ UNCHANGED shot /\ UNCHANGED sent
    BY <1>2 DEF Refuse, pipeVars
  <2>3. PipeInv'
    BY <2>1, <2>2, PipeKept
  <2> QED BY <2>1, <2>2, <2>3 DEF IInv, Fed
<1>3. CASE Cardinality(Watching) < MaxClients /\ deadline' = "off"
  <2>0. Cardinality(Watching) \in Nat /\ MaxClients \in Nat
    BY WatchingSubset, FS_CardinalityType, PreviewAssumption
  <2>1. PICK ok \in BOOLEAN :
          /\ IF ok
             THEN /\ conn' = [conn EXCEPT ![c] = "open"]
                  /\ mark' = mark \cup {c}
                  /\ client' = [client EXCEPT ![c] = Client(s)]
                  /\ nclients' = nclients + 1
                  /\ sent' = [sent EXCEPT ![c] = "open"]
             ELSE Refuse(c)
          /\ preview_ensure_pipeline(ok)
          /\ shot' = FALSE
    <3>1. Cardinality(Watching) # MaxClients
      BY <1>3, <2>0
    <3> QED BY <3>1 DEF handle_preview_ws
  <2>2. /\ up' = ok /\ listening' = ok /\ main' \in BOOLEAN
        /\ main' => up' /\ On("main")' # {}
    BY <2>1, EnsureOK
  <2>3. PipeTypes'
    BY <1>3, <2>1, <2>2 DEF PipeTypes
  <2>4. CASE ok
    <3>1. SlotInv' /\ nclients' > 0
      BY <1>1, <1>3, <2>1, <2>4, JoinOK DEF IInv
    <3>2. RunsOnDemand'
      BY <2>2, <3>1 DEF RunsOnDemand
    <3>3. c \notin Watching /\ sent[c] = "shut"
      BY <1>1 DEF IInv, SlotInv, ClientsCounted, Watching, Feeds, FeedOK
    <3>4. \A d \in Conns : Fed(d)
      BY <2>1, <2>4, <3>3 DEF Fed, IInv, SlotInv, SlotTypes
    <3> QED BY <2>3, <3>1, <3>2, <3>4 DEF IInv, PipeInv
  <2>5. CASE ~ok
    <3>1. SlotInv' /\ UNCHANGED sent
      BY <1>1, <2>1, <2>5, RefuseOK DEF IInv, Refuse
    <3>2. RunsOnDemand'
      BY <2>2, <2>5 DEF RunsOnDemand
    <3> QED BY <2>3, <3>1, <3>2 DEF IInv, PipeInv, Fed
  <2> QED BY <2>4, <2>5
<1> QED BY <1>2, <1>3 DEF handle_preview_ws

LEMMA LeaveStep ==
    ASSUME IInv, NEW c \in Conns, Leave(c),
           conn' = conn \/ conn' = [conn EXCEPT ![c] = "none"]
    PROVE  IInv' /\ \A d \in Conns : Fed(d)
<1>1. /\ SlotInv'
      /\ nclients' = 0 => deadline' = "armed"
      /\ nclients' # 0 => deadline' = deadline
  BY LeaveOK DEF IInv
<1>2. /\ main' = (up /\ main /\ \E d \in Conns : client'[d].stream = "main")
      /\ sent' = [sent EXCEPT ![c] = "shut"]
      /\ UNCHANGED listening /\ UNCHANGED up /\ UNCHANGED shot
  BY DEF Leave
<1>3. nclients' \in Nat
  BY <1>1 DEF SlotInv, SlotTypes
<1>4. main' \in BOOLEAN /\ (main' => up' /\ On("main")' # {})
  BY <1>2 DEF On
<1>5. deadline' \in {"off", "armed"}
  BY <1>1 DEF IInv, PipeInv, PipeTypes
<1>6. PipeTypes'
  BY <1>2, <1>4, <1>5 DEF IInv, PipeInv, PipeTypes
<1>7. RunsOnDemand'
  <2>1. nclients' > 0 \/ deadline' = "armed"
    BY <1>1, <1>3
  <2> QED BY <1>4, <2>1 DEF RunsOnDemand
<1>8. \A d \in Conns : Fed(d)
  BY <1>2 DEF Fed, IInv, SlotInv, SlotTypes
<1> QED BY <1>1, <1>6, <1>7, <1>8 DEF IInv, PipeInv

LEMMA CloseStep ==
    ASSUME IInv, NEW c \in Conns, Close(c)
    PROVE  IInv' /\ \A d \in Conns : Fed(d)
<1>1. CASE c \in mark
  BY <1>1, LeaveStep DEF Close
<1>2. CASE c \notin mark
  <2>1. /\ conn' = [conn EXCEPT ![c] = "none"]
        /\ UNCHANGED mark /\ UNCHANGED client /\ UNCHANGED nclients /\ UNCHANGED sent
        /\ UNCHANGED deadline /\ UNCHANGED listening /\ UNCHANGED up /\ UNCHANGED main
        /\ UNCHANGED shot
    BY <1>2 DEF Close, pipeVars
  <2>2. Watching' = Watching /\ (\A s : On(s)' = On(s)) /\ c \notin Watching
    BY <1>2, <2>1 DEF Watching, On, IInv, SlotInv, ClientsCounted
  <2>3. SlotTypes'
    BY <2>1 DEF IInv, SlotInv, SlotTypes
  <2>4. Feeds'
    BY <2>1 DEF IInv, SlotInv, Feeds, FeedOK, Fresh
  <2>5. ClientsCounted'
    BY <2>1, <2>2, WatchingSubset DEF IInv, SlotInv, SlotTypes, ClientsCounted
  <2>6. PipeInv'
    BY <2>1, <2>2, PipeKept
  <2> QED BY <2>1, <2>3, <2>4, <2>5, <2>6 DEF IInv, SlotInv, Fed
<1> QED BY <1>1, <1>2

\* Steps that leave the slots alone
LEMMA AtRest ==
    ASSUME IInv, UNCHANGED slotVars
    PROVE  /\ SlotInv' /\ \A s : On(s)' = On(s)
           /\ UNCHANGED nclients /\ UNCHANGED sent
           /\ \A c \in Conns : Fed(c)
<1>1. UNCHANGED nclients /\ UNCHANGED sent
  BY DEF slotVars
<1> QED BY <1>1, SlotsKept DEF IInv, Fed

LEMMA IdleStep ==
    ASSUME IInv, IdleDue
    PROVE  IInv' /\ \A c \in Conns : Fed(c)
<1>1. /\ PollClients({}) /\ deadline' = "off" /\ UNCHANGED nclients
  BY DEF IdleDue, PollClients
<1>2. SlotInv' /\ (\A t : On(t)' = On(t)) /\ \A c \in Conns : Fed(c)
  BY <1>1, PollOK DEF IInv
<1>3. PipeInv'
  <2>1. CASE nclients = 0
    <3>1. listening' = FALSE /\ main' = FALSE /\ shot' = FALSE
      BY <2>1 DEF IdleDue, preview_shutdown_pipeline
    <3>2. up' \in BOOLEAN
      BY <2>1 DEF IdleDue, preview_shutdown_pipeline
    <3> QED BY <1>1, <3>1, <3>2 DEF PipeInv, PipeTypes, RunsOnDemand
  <2>2. CASE nclients # 0
    <3>1. /\ UNCHANGED listening /\ UNCHANGED up /\ UNCHANGED main /\ UNCHANGED shot
      BY <2>2 DEF IdleDue
    <3>2. nclients' > 0
      BY <1>1, <2>2 DEF IInv, SlotInv, SlotTypes
    <3> QED BY <1>1, <1>2, <3>1, <3>2 DEF IInv, PipeInv, PipeTypes, RunsOnDemand
  <2> QED BY <2>1, <2>2
<1> QED BY <1>2, <1>3 DEF IInv

LEMMA SnapshotStep ==
    ASSUME IInv, Snapshot
    PROVE  IInv' /\ \A c \in Conns : Fed(c)
<1>1. UNCHANGED slotVars /\ UNCHANGED deadline
  BY DEF Snapshot
<1>2. PICK ok \in BOOLEAN : preview_ensure_pipeline(ok)
  BY DEF Snapshot
<1>3. shot' = (listening' /\ (shot \/ (nclients = 0 /\ deadline = "off")))
  BY DEF Snapshot
<1>4. /\ SlotInv' /\ UNCHANGED nclients /\ \A c \in Conns : Fed(c)
  BY <1>1, AtRest
<1>5. /\ up' = ok /\ listening' = ok /\ main' \in BOOLEAN
      /\ main' => up' /\ On("main")' # {}
  BY <1>2, EnsureOK
<1>6. shot' \in BOOLEAN
  BY <1>3
<1>7. nclients = 0 \/ nclients > 0
  BY DEF IInv, SlotInv, SlotTypes
<1>8. deadline \in {"off", "armed"}
  BY DEF IInv, PipeInv, PipeTypes
<1>9. PipeTypes'
  BY <1>1, <1>5, <1>6, <1>8 DEF PipeTypes
<1>10. RunsOnDemand'
  BY <1>1, <1>3, <1>4, <1>5, <1>7, <1>8 DEF RunsOnDemand
<1> QED BY <1>4, <1>9, <1>10 DEF IInv, PipeInv

\* The record policy's steps
LEMMA PolicyStep ==
    ASSUME IInv,
           \/ \E m \in Policies : web_apply_record_policy(m)
           \/ \E enabled \in BOOLEAN : handle_alarm_motion_set(enabled)
           \/ handle_aov_leave
    PROVE  IInv' /\ \A c \in Conns : Fed(c)
<1>1. /\ UNCHANGED slotVars /\ UNCHANGED deadline /\ UNCHANGED listening
      /\ UNCHANGED shot
  BY DEF web_apply_record_policy, handle_alarm_motion_set, handle_aov_leave
<1>2. (\E ok \in BOOLEAN : StartMedia(ok)) \/ StopMedia \/ KeepMedia
  <2>1. ASSUME NEW m, ApplyPolicy(m)
        PROVE  (\E ok \in BOOLEAN : StartMedia(ok)) \/ StopMedia \/ KeepMedia
    BY <2>1 DEF ApplyPolicy, Unhold
  <2>2. ASSUME NEW enabled \in BOOLEAN, handle_alarm_motion_set(enabled)
        PROVE  (\E ok \in BOOLEAN : StartMedia(ok)) \/ StopMedia \/ KeepMedia
    BY <2>2 DEF handle_alarm_motion_set, Unhold
  <2> QED BY <2>1, <2>2 DEF web_apply_record_policy, handle_aov_leave
<1>3. /\ SlotInv' /\ UNCHANGED nclients /\ (\A s : On(s)' = On(s))
      /\ \A c \in Conns : Fed(c)
  BY <1>1, AtRest
<1>4. PipeInv'
  BY <1>1, <1>2, <1>3, MediaOK
<1> QED BY <1>3, <1>4 DEF IInv

LEMMA EncodeStep ==
    ASSUME IInv, handle_video_encode_set
    PROVE  IInv' /\ \A c \in Conns : Fed(c)
<1>1. /\ UNCHANGED slotVars /\ UNCHANGED listening /\ UNCHANGED deadline
      /\ UNCHANGED up /\ UNCHANGED shot /\ main' = FALSE
  BY DEF handle_video_encode_set
<1>2. SlotInv' /\ UNCHANGED nclients /\ \A c \in Conns : Fed(c)
  BY <1>1, AtRest
<1>3. PipeInv'
  BY <1>1, <1>2 DEF IInv, PipeInv, PipeTypes, RunsOnDemand
<1> QED BY <1>2, <1>3 DEF IInv

LEMMA EnterStep ==
    ASSUME IInv, handle_aov_enter
    PROVE  IInv' /\ \A c \in Conns : Fed(c)
<1>1. SlotInv' /\ \A c \in Conns : Fed(c)
  BY ForceStopOK DEF IInv
<1>2. /\ listening' = FALSE /\ main' = FALSE /\ shot' = FALSE /\ up' \in BOOLEAN
      /\ UNCHANGED deadline
  BY DEF handle_aov_enter, preview_shutdown_pipeline
<1>3. PipeInv'
  BY <1>2 DEF IInv, PipeInv, PipeTypes, RunsOnDemand
<1> QED BY <1>1, <1>3 DEF IInv

LEMMA NextOK ==
    ASSUME IInv, [Next]_previewVars
    PROVE  IInv' /\ \A c \in Conns : Fed(c)
<1>1. ASSUME NEW c \in Conns, NEW s \in Streams, handle_preview_ws(c, s)
      PROVE  IInv' /\ \A d \in Conns : Fed(d)
  BY <1>1, JoinStep
<1>2. ASSUME NEW c \in Conns, Stop(c)
      PROVE  IInv' /\ \A d \in Conns : Fed(d)
  BY <1>2, LeaveStep DEF Stop
<1>3. ASSUME NEW c \in Conns, Close(c)
      PROVE  IInv' /\ \A d \in Conns : Fed(d)
  BY <1>3, CloseStep
<1>4. ASSUME NEW s \in Streams, NEW key \in BOOLEAN, Packet(s, key)
      PROVE  IInv' /\ \A d \in Conns : Fed(d)
  <2>1. SlotInv' /\ \A t : On(t)' = On(t)
    BY <1>4, PacketOK DEF IInv
  <2>2. /\ UNCHANGED nclients /\ UNCHANGED sent /\ UNCHANGED listening
        /\ UNCHANGED deadline /\ UNCHANGED up /\ UNCHANGED main /\ UNCHANGED shot
    BY <1>4 DEF Packet
  <2>3. PipeInv'
    BY <2>1, <2>2, PipeKept
  <2> QED BY <2>1, <2>2, <2>3 DEF IInv, Fed
<1>5. ASSUME preview_on_poll
      PROVE  IInv' /\ \A d \in Conns : Fed(d)
  <2>1. PICK slow \in SUBSET Watching : PollClients(slow)
    BY <1>5 DEF preview_on_poll
  <2>2. SlotInv' /\ (\A t : On(t)' = On(t)) /\ \A c \in Conns : Fed(c)
    BY <2>1, PollOK DEF IInv
  <2>3. UNCHANGED nclients
    BY <2>1 DEF PollClients
  <2>4. /\ UNCHANGED listening /\ UNCHANGED deadline /\ UNCHANGED up
        /\ UNCHANGED main /\ UNCHANGED shot
    BY <1>5 DEF preview_on_poll, pipeVars
  <2>5. PipeInv'
    BY <2>2, <2>3, <2>4, PipeKept
  <2> QED BY <2>2, <2>5 DEF IInv
<1>6. ASSUME UNCHANGED previewVars
      PROVE  IInv' /\ \A d \in Conns : Fed(d)
  <2>1. /\ UNCHANGED slotVars /\ UNCHANGED listening /\ UNCHANGED deadline
        /\ UNCHANGED up /\ UNCHANGED main /\ UNCHANGED shot
    BY <1>6 DEF previewVars, slotVars
  <2>2. /\ SlotInv' /\ UNCHANGED nclients /\ (\A s : On(s)' = On(s))
        /\ \A c \in Conns : Fed(c)
    BY <2>1, AtRest
  <2>3. PipeInv'
    BY <2>1, <2>2, PipeKept
  <2> QED BY <2>2, <2>3 DEF IInv
<1> QED
  BY <1>1, <1>2, <1>3, <1>4, <1>5, <1>6, IdleStep, SnapshotStep, PolicyStep, EncodeStep,
     EnterStep
  DEF Next

LEMMA SpecIInv == Spec => []IInv
<1>1. IInv /\ [Next]_previewVars => IInv'
  BY NextOK
<1> QED BY InitOK, <1>1, PTL DEF Spec

-----------------------------------------------------------------------------
\* The counter by which the pipeline is stopped is the number of slots in use,
\* however clients join, stop, close, are refused or are thrown out by AOV.
THEOREM ClientsAlwaysCounted == Spec => []ClientsCounted
<1>1. IInv => ClientsCounted
  BY DEF IInv, SlotInv
<1> QED BY SpecIInv, <1>1, PTL

\* The packet listener and the main preview stream run only for somebody, until
\* the idle deadline, or after a snapshot.
THEOREM AlwaysOnDemand == Spec => []RunsOnDemand
<1>1. IInv => RunsOnDemand
  BY DEF IInv, PipeInv
<1> QED BY SpecIInv, <1>1, PTL

\* The device keeps PreviewFeed's promise on every socket: the description
\* before the fragments, a key frame before the others, nothing after the end.
THEOREM FeedsAlwaysKept == Spec => FeedsKept
<1>1. Init => \A c \in Conns : Feed(c)!Init
  BY DEF Init, Feed!Init
<1>2. IInv /\ [Next]_previewVars
        => [\A c \in Conns : Feed(c)!Next \/ UNCHANGED sent[c]]_sent
  <2> SUFFICES ASSUME IInv, [Next]_previewVars, NEW c \in Conns
               PROVE  Feed(c)!Next \/ UNCHANGED sent[c]
    OBVIOUS
  <2>1. Fed(c)
    BY NextOK
  <2> QED BY <2>1 DEF Fed, Feed!Next, Feed!Open, Feed!Describe, Feed!DescribeAndFlow,
                      Feed!Flow, Feed!Shut
<1> QED BY SpecIInv, <1>1, <1>2, PTL DEF Spec, FeedsKept

-----------------------------------------------------------------------------
\* The preview player

PlayerInv == Player!OneAttempt /\ closed \in BOOLEAN /\ retry \in BOOLEAN

LEMMA PlayerStep ==
    ASSUME PlayerInv, [Player!Next]_Player!playerVars
    PROVE  PlayerInv'
<1>1. CASE Player!Reconnect
  BY <1>1 DEF Player!Reconnect, Player!connect, PlayerInv, Player!OneAttempt
<1>2. CASE Player!OnClose
  <2>1. ~closed
    BY <1>2 DEF Player!OnClose, PlayerInv, Player!OneAttempt
  <2> QED BY <1>2, <2>1 DEF Player!OnClose, PlayerInv, Player!OneAttempt
<1>3. CASE Player!reconnectNow
  BY <1>3 DEF Player!reconnectNow, Player!connect, PlayerInv, Player!OneAttempt
<1>4. CASE Player!Unmount
  BY <1>4 DEF Player!Unmount, Player!Unheard, Player!resetPlayer, Player!Afresh, PlayerInv,
              Player!OneAttempt
<1>5. CASE Player!OnMessage \/ Player!SourceOpen
  <2>1. ~closed
    BY <1>5 DEF Player!OnMessage, Player!SourceOpen, PlayerInv, Player!OneAttempt
  <2>2. UNCHANGED closed /\ UNCHANGED ws /\ UNCHANGED retry
    BY <1>5 DEF Player!OnMessage, Player!SourceOpen
  <2> QED BY <2>1, <2>2 DEF PlayerInv, Player!OneAttempt
<1>6. CASE Player!UpdateEnd \/ Player!Evict \/ UNCHANGED Player!playerVars
  <2>1. /\ UNCHANGED closed /\ UNCHANGED ws /\ UNCHANGED retry /\ UNCHANGED ms
        /\ UNCHANGED chase /\ UNCHANGED inbox
    BY <1>6 DEF Player!UpdateEnd, Player!Evict, Player!playerVars, Player!deviceVars
  <2> QED BY <2>1 DEF PlayerInv, Player!OneAttempt
<1>7. CASE Player!Accept \/ Player!SendInit \/ Player!SendFragment \/ Player!Fail
  <2>1. /\ ws # "none" /\ ws' # "none" /\ UNCHANGED closed /\ UNCHANGED retry
    BY <1>7 DEF Player!Accept, Player!SendInit, Player!SendFragment, Player!Send, Player!Fail
  <2> QED BY <2>1 DEF PlayerInv, Player!OneAttempt
<1> QED BY <1>1, <1>2, <1>3, <1>4, <1>5, <1>6, <1>7 DEF Player!Next

\* The player has a socket or the timer for the next one, never both, and
\* neither, nor a media source, once it was taken off the page; whatever the
\* socket, the timer and the user do (LivePreviewPlayer.vue).
THEOREM AlwaysOneAttempt == Player!Spec => []OneAttempt
<1>1. Player!Init => PlayerInv
  BY DEF Player!Init, PlayerInv, Player!OneAttempt
<1>2. PlayerInv /\ [Player!Next]_Player!playerVars => PlayerInv'
  BY PlayerStep
<1>3. PlayerInv => OneAttempt
  BY DEF PlayerInv, OneAttempt
<1> QED BY <1>1, <1>2, <1>3, PTL DEF Player!Spec
-----------------------------------------------------------------------------
\* Types, of both ends.  What IInv says of the device is half of TypeOK; the
\* rest are the flags of the pipeline and of the policy.

RestTypes ==
    /\ owned \in BOOLEAN /\ inits \in SUBSET Streams
    /\ policy \in Policies /\ detect \in BOOLEAN /\ hold \in BOOLEAN /\ aov \in BOOLEAN

LEMMA TypesFromInv == IInv /\ RestTypes => TypeOK
<1> SUFFICES ASSUME IInv, RestTypes PROVE TypeOK
  OBVIOUS
<1>1. \A c \in Watching : Len(client[c].q) <= QueueCap
  BY DEF IInv, SlotInv, Feeds, FeedOK, Watching
<1>2. /\ conn \in [Conns -> {"none", "open", "closing"}] /\ mark \subseteq Conns
      /\ client \in [Conns -> ClientRecord \cup {NoClient}] /\ nclients \in Int
  BY DEF IInv, SlotInv, SlotTypes
<1>3. {listening, owned, up, main, detect, hold, aov, shot} \subseteq BOOLEAN
  BY DEF IInv, PipeInv, PipeTypes, RestTypes
<1> QED BY <1>1, <1>2, <1>3 DEF TypeOK, IInv, PipeInv, PipeTypes, RestTypes

LEMMA InitRest == Init => RestTypes
BY DEF Init, RestTypes

LEMMA PolicyRest ==
    ASSUME RestTypes, NEW m \in Policies, ApplyPolicy(m)
    PROVE  policy' \in Policies /\ hold' \in BOOLEAN
BY DEF RestTypes, ApplyPolicy, Unhold

LEMMA EnsureRest ==
    ASSUME RestTypes, NEW ok \in BOOLEAN, preview_ensure_pipeline(ok)
    PROVE  owned' \in BOOLEAN /\ inits' \in SUBSET Streams
<1>1. owned' = (ok /\ (owned \/ ~up)) /\ inits' = IF listening THEN inits ELSE {}
  BY DEF preview_ensure_pipeline
<1> QED BY <1>1 DEF RestTypes

LEMMA NextRest ==
    ASSUME RestTypes, [Next]_previewVars
    PROVE  RestTypes'
<1>1. ASSUME NEW c \in Conns, NEW s \in Streams, handle_preview_ws(c, s)
      PROVE  RestTypes'
  <2>1. /\ UNCHANGED policy /\ UNCHANGED detect /\ UNCHANGED hold /\ UNCHANGED aov
    BY <1>1 DEF handle_preview_ws, policyVars
  <2>2. \/ UNCHANGED owned /\ UNCHANGED inits
        \/ \E ok \in BOOLEAN : preview_ensure_pipeline(ok)
    BY <1>1 DEF handle_preview_ws, pipeVars
  <2> QED BY <2>1, <2>2, EnsureRest DEF RestTypes
<1>2. ASSUME NEW c \in Conns, Stop(c) \/ Close(c)
      PROVE  RestTypes'
  <2>1. /\ UNCHANGED owned /\ UNCHANGED inits /\ UNCHANGED policy /\ UNCHANGED detect
        /\ UNCHANGED hold /\ UNCHANGED aov
    BY <1>2 DEF Stop, Close, Leave, pipeVars, policyVars
  <2> QED BY <2>1 DEF RestTypes
<1>3. ASSUME NEW s \in Streams, NEW key \in BOOLEAN, Packet(s, key)
      PROVE  RestTypes'
  <2>1. /\ UNCHANGED owned /\ inits' = inits \cup {s} /\ UNCHANGED policy
        /\ UNCHANGED detect /\ UNCHANGED hold /\ UNCHANGED aov
    BY <1>3 DEF Packet, policyVars
  <2> QED BY <2>1 DEF RestTypes
<1>4. CASE preview_on_poll \/ handle_video_encode_set \/ UNCHANGED previewVars
  <2>1. /\ UNCHANGED owned /\ UNCHANGED inits /\ UNCHANGED policy /\ UNCHANGED detect
        /\ UNCHANGED hold /\ UNCHANGED aov
    BY <1>4 DEF preview_on_poll, handle_video_encode_set, pipeVars, policyVars, previewVars
  <2> QED BY <2>1 DEF RestTypes
<1>5. CASE IdleDue
  <2>1. /\ UNCHANGED policy /\ UNCHANGED detect /\ UNCHANGED hold /\ UNCHANGED aov
    BY <1>5 DEF IdleDue, policyVars
  <2>2. \/ UNCHANGED owned /\ UNCHANGED inits
        \/ owned' = FALSE /\ inits' = {}
    BY <1>5 DEF IdleDue, preview_shutdown_pipeline
  <2> QED BY <2>1, <2>2 DEF RestTypes
<1>6. CASE Snapshot
  <2>1. /\ UNCHANGED policy /\ UNCHANGED detect /\ UNCHANGED hold /\ UNCHANGED aov
    BY <1>6 DEF Snapshot, policyVars
  <2>2. PICK ok \in BOOLEAN : preview_ensure_pipeline(ok)
    BY <1>6 DEF Snapshot
  <2> QED BY <2>1, <2>2, EnsureRest DEF RestTypes
<1>7. ASSUME NEW m \in Policies, web_apply_record_policy(m)
      PROVE  RestTypes'
  <2>1. /\ UNCHANGED owned /\ UNCHANGED inits /\ UNCHANGED detect /\ UNCHANGED aov
        /\ ApplyPolicy(m)
    BY <1>7 DEF web_apply_record_policy
  <2> QED BY <2>1, PolicyRest DEF RestTypes
<1>8. ASSUME NEW enabled \in BOOLEAN, handle_alarm_motion_set(enabled)
      PROVE  RestTypes'
  <2>1. /\ UNCHANGED owned /\ UNCHANGED inits /\ detect' = enabled /\ UNCHANGED policy
        /\ UNCHANGED aov
    BY <1>8 DEF handle_alarm_motion_set
  <2>2. hold' \in BOOLEAN
    <3>1. (policy # "motion") \/ (policy = "motion" /\ enabled) \/ (policy = "motion" /\ ~enabled)
      OBVIOUS
    <3>2. hold' = hold \/ hold' = TRUE \/ hold' = FALSE
      BY <1>8, <3>1 DEF handle_alarm_motion_set, Unhold
    <3> QED BY <3>2 DEF RestTypes
  <2> QED BY <2>1, <2>2 DEF RestTypes
<1>9. CASE handle_aov_enter
  <2>1. /\ owned' = FALSE /\ inits' = {} /\ UNCHANGED policy /\ UNCHANGED detect
        /\ hold' = FALSE /\ aov' = TRUE
    BY <1>9 DEF handle_aov_enter, preview_shutdown_pipeline
  <2> QED BY <2>1 DEF RestTypes
<1>10. CASE handle_aov_leave
  <2>1. /\ UNCHANGED owned /\ UNCHANGED inits /\ UNCHANGED detect /\ aov' = FALSE
        /\ ApplyPolicy(policy)
    BY <1>10 DEF handle_aov_leave
  <2>2. policy \in Policies
    BY DEF RestTypes
  <2> QED BY <2>1, <2>2, PolicyRest DEF RestTypes
<1> QED
  BY <1>1, <1>2, <1>3, <1>4, <1>5, <1>6, <1>7, <1>8, <1>9, <1>10 DEF Next

\* The player's half, in the same way
Segments == {"init", "fragment"}
Buffers == {"none", "ready", "updating", "failed"}

PlayerTypes ==
    /\ closed \in BOOLEAN /\ retry \in BOOLEAN /\ chase \in BOOLEAN
    /\ waitingInit \in BOOLEAN /\ cut \in BOOLEAN
    /\ ws \in {"none", "connecting", "open", "lost"}
    /\ feed \in {"shut", "open", "init", "flow"}
    /\ inbox \in Seq({"codec", "init", "fragment"}) /\ Len(inbox) <= MaxInbox
    /\ ms \in {"none", "opening", "open"} /\ sb \in Buffers
    /\ queue \in Seq(Segments) /\ Len(queue) <= Cap + 1
    /\ appended \in 0 .. 2 /\ upsets \in 0 .. MaxUpsets

LEMMA EmptyFits ==
    /\ <<>> \in Seq({"codec", "init", "fragment"}) /\ <<>> \in Seq(Segments)
    /\ Len(<<>>) <= MaxInbox /\ Len(<<>>) <= Cap + 1
<1>1. Len(<<>>) = 0 /\ \A S : <<>> \in Seq(S)
  BY EmptySeq
<1> QED BY <1>1, PlayerAssumption

\* Taking a segment off the queue makes it no longer
LEMMA FlushTypes ==
    ASSUME PlayerTypes, NEW q \in Seq(Segments), Len(q) <= Cap + 1,
           NEW idle \in BOOLEAN, Player!flush(q, idle)
    PROVE  /\ queue' \in Seq(Segments) /\ Len(queue') <= Cap + 1
           /\ sb' \in Buffers /\ appended' \in 0 .. 2
<1>0. Cap \in Nat /\ Len(q) \in Nat /\ appended \in 0 .. 2 /\ sb \in Buffers
  BY PlayerAssumption, LenProperties DEF PlayerTypes
<1>1. CASE idle /\ q # <<>>
  <2>1. /\ queue' = Tail(q)
        /\ sb' \in {"failed", "updating"}
        /\ appended' = IF appended < 2 THEN appended + 1 ELSE 2
    BY <1>1 DEF Player!flush
  <2>2. Tail(q) \in Seq(Segments) /\ Len(Tail(q)) = Len(q) - 1
    BY <1>1, HeadTailProperties
  <2> QED BY <1>0, <2>1, <2>2 DEF Buffers
<1>2. CASE ~(idle /\ q # <<>>)
  <2>1. queue' = q /\ (sb' = "ready" \/ sb' = sb) /\ appended' = appended
    BY <1>2 DEF Player!flush
  <2> QED BY <1>0, <2>1 DEF Buffers
<1> QED BY <1>1, <1>2

\* A segment that finds the queue too long finds it cut first
LEMMA SegmentTypes ==
    ASSUME PlayerTypes, NEW m \in Segments, Player!Segment(m)
    PROVE  /\ UNCHANGED ms /\ UNCHANGED chase
           /\ queue' \in Seq(Segments) /\ Len(queue') <= Cap + 1
           /\ sb' \in Buffers /\ appended' \in 0 .. 2
           /\ waitingInit' \in BOOLEAN /\ cut' \in BOOLEAN
<1> DEFINE rest == IF Len(queue) > Cap THEN SubSeq(queue, Len(queue) - Keep + 1, Len(queue))
                   ELSE queue
           q == Append(rest, m)
<1>0. /\ Cap \in Nat /\ Keep \in 0 .. Cap /\ queue \in Seq(Segments) /\ Len(queue) \in Nat
      /\ cut \in BOOLEAN /\ waitingInit \in BOOLEAN /\ sb \in Buffers /\ appended \in 0 .. 2
      /\ Len(queue) <= Cap + 1
  BY PlayerAssumption, LenProperties DEF PlayerTypes
<1>1. /\ UNCHANGED ms /\ UNCHANGED chase
      /\ \/ /\ UNCHANGED sb /\ UNCHANGED queue /\ UNCHANGED waitingInit
            /\ UNCHANGED appended /\ UNCHANGED cut
         \/ /\ waitingInit' = FALSE /\ Player!flush(q, sb = "ready")
            /\ cut' = (cut \/ (appended = 0 /\ Head(q) # "init"))
  BY DEF Player!Segment
<1>2. rest \in Seq(Segments) /\ Len(rest) <= Cap
  <2>1. CASE Len(queue) > Cap
    <3>1. Len(queue) - Keep + 1 \in 1 .. Len(queue) + 1 /\ Len(queue) \in 0 .. Len(queue)
      BY <1>0, <2>1
    <3>2. rest = SubSeq(queue, Len(queue) - Keep + 1, Len(queue))
      BY <2>1
    <3>3. /\ rest \in Seq(Segments)
          /\ Len(rest) = IF Len(queue) - Keep + 1 <= Len(queue)
                         THEN Len(queue) - (Len(queue) - Keep + 1) + 1 ELSE 0
      BY ONLY <1>0, <3>1, <3>2, SubSeqProperties
    <3> QED BY <1>0, <3>3
  <2>2. CASE ~(Len(queue) > Cap)
    BY <1>0, <2>2
  <2> QED BY <2>1, <2>2
<1> HIDE DEF rest
<1>3. q \in Seq(Segments) /\ Len(q) <= Cap + 1
  <2>1. Append(rest, m) \in Seq(Segments) /\ Len(Append(rest, m)) = Len(rest) + 1
    BY <1>2, AppendProperties
  <2>2. Len(rest) \in Nat
    BY <1>2, LenProperties
  <2> QED BY <1>0, <1>2, <2>1, <2>2
<1> HIDE DEF q
<1>4. CASE UNCHANGED sb /\ UNCHANGED queue /\ UNCHANGED waitingInit /\ UNCHANGED appended
           /\ UNCHANGED cut
  BY <1>0, <1>1, <1>4
<1>5. CASE /\ waitingInit' = FALSE /\ Player!flush(q, sb = "ready")
           /\ cut' = (cut \/ (appended = 0 /\ Head(q) # "init"))
  <2>1. (sb = "ready") \in BOOLEAN
    OBVIOUS
  <2>2. /\ queue' \in Seq(Segments) /\ Len(queue') <= Cap + 1
        /\ sb' \in Buffers /\ appended' \in 0 .. 2
    BY <1>3, <1>5, <2>1, FlushTypes
  <2>3. cut' \in BOOLEAN
    BY <1>5
  <2> QED BY <1>1, <1>5, <2>2, <2>3
<1> QED BY <1>1, <1>4, <1>5

LEMMA ResetTypes ==
    ASSUME Player!Afresh
    PROVE  /\ chase' \in BOOLEAN /\ waitingInit' \in BOOLEAN /\ cut' \in BOOLEAN
           /\ sb' \in Buffers /\ queue' \in Seq(Segments) /\ Len(queue') <= Cap + 1
           /\ appended' \in 0 .. 2
<1>1. /\ chase' = FALSE /\ sb' = "none" /\ queue' = <<>> /\ waitingInit' = TRUE
      /\ appended' = 0 /\ cut' = FALSE
  BY DEF Player!Afresh
<1>2. queue' \in Seq(Segments) /\ Len(queue') <= Cap + 1
  <2>1. Len(queue') = 0 /\ Cap \in Nat
    BY <1>1, EmptySeq, PlayerAssumption
  <2>2. queue' \in Seq(Segments)
    BY <1>1, EmptySeq
  <2> QED BY <2>1, <2>2
<1>3. chase' \in BOOLEAN /\ waitingInit' \in BOOLEAN /\ cut' \in BOOLEAN
  BY <1>1
<1>4. sb' \in Buffers
  BY <1>1 DEF Buffers
<1>5. appended' \in 0 .. 2
  BY <1>1
<1> QED BY <1>2, <1>3, <1>4, <1>5

LEMMA PlayerTypesKept ==
    ASSUME PlayerTypes, [Player!Next]_Player!playerVars
    PROVE  PlayerTypes'
<1>0. MaxInbox \in Nat /\ MaxUpsets \in Nat /\ upsets \in 0 .. MaxUpsets
  BY PlayerAssumption DEF PlayerTypes
<1>1. CASE Player!Reconnect
  BY <1>1 DEF Player!Reconnect, Player!connect, Player!deviceVars, Player!sourceVars,
              PlayerTypes
<1>2. CASE Player!OnClose
  <2>1. /\ ws' = "none" /\ retry' = ~closed /\ ms' = "none" /\ Player!Afresh
        /\ UNCHANGED closed /\ UNCHANGED feed /\ UNCHANGED inbox /\ UNCHANGED upsets
    BY <1>2 DEF Player!OnClose, Player!resetPlayer, Player!deviceVars
  <2>2. retry' \in BOOLEAN
    BY <2>1
  <2> QED BY <2>1, <2>2, ResetTypes DEF PlayerTypes
<1>3. CASE Player!reconnectNow
  <2>1. /\ upsets' = upsets + 1 /\ upsets < MaxUpsets
        /\ ms' = "none" /\ Player!Afresh /\ feed' = "shut" /\ inbox' = <<>>
        /\ ws' = "connecting" /\ retry' = FALSE /\ UNCHANGED closed
    BY <1>3 DEF Player!reconnectNow, Player!resetPlayer, Player!Unheard, Player!connect
  <2>2. upsets' \in 0 .. MaxUpsets
    BY <1>0, <2>1
  <2> QED BY <2>1, <2>2, ResetTypes, EmptyFits DEF PlayerTypes
<1>4. CASE Player!Unmount
  <2>1. /\ closed' = TRUE /\ ws' = "none" /\ retry' = FALSE /\ UNCHANGED upsets
        /\ ms' = "none" /\ Player!Afresh /\ feed' = "shut" /\ inbox' = <<>>
    BY <1>4 DEF Player!Unmount, Player!resetPlayer, Player!Unheard
  <2> QED BY <2>1, ResetTypes, EmptyFits DEF PlayerTypes
<1>5. CASE Player!OnMessage
  <2>1. /\ inbox # <<>> /\ inbox' = Tail(inbox)
        /\ UNCHANGED closed /\ UNCHANGED ws /\ UNCHANGED feed /\ UNCHANGED retry
        /\ UNCHANGED upsets
    BY <1>5 DEF Player!OnMessage
  <2>2. /\ Head(inbox) \in {"codec", "init", "fragment"}
        /\ Tail(inbox) \in Seq({"codec", "init", "fragment"})
        /\ Len(Tail(inbox)) = Len(inbox) - 1 /\ Len(inbox) \in Nat /\ Len(inbox) <= MaxInbox
    <3>1. inbox \in Seq({"codec", "init", "fragment"}) /\ Len(inbox) <= MaxInbox
      BY DEF PlayerTypes
    <3> QED BY ONLY <2>1, <3>1, HeadTailProperties, LenProperties
  <2>3. inbox' \in Seq({"codec", "init", "fragment"}) /\ Len(inbox') <= MaxInbox
    BY <1>0, <2>1, <2>2
  <2>4. CASE Head(inbox) = "codec"
    <3>1. ms' = "opening" /\ Player!Afresh
      BY <1>5, <2>4 DEF Player!OnMessage, Player!startMse
    <3> QED BY <2>1, <2>3, <3>1, ResetTypes DEF PlayerTypes
  <2>5. CASE Head(inbox) # "codec"
    <3>1. Head(inbox) \in Segments /\ Player!Segment(Head(inbox))
      BY <1>5, <2>2, <2>5 DEF Player!OnMessage, Segments
    <3> DEFINE m == Head(inbox)
    <3> HIDE DEF m
    <3>2. /\ UNCHANGED ms /\ UNCHANGED chase
          /\ queue' \in Seq(Segments) /\ Len(queue') <= Cap + 1
          /\ sb' \in Buffers /\ appended' \in 0 .. 2
          /\ waitingInit' \in BOOLEAN /\ cut' \in BOOLEAN
      BY <3>1, SegmentTypes
    <3> QED BY <2>1, <2>3, <3>2 DEF PlayerTypes
  <2> QED BY <2>4, <2>5
<1>6. CASE Player!SourceOpen \/ Player!UpdateEnd
  <2>1. /\ queue \in Seq(Segments) /\ Len(queue) <= Cap + 1
    BY DEF PlayerTypes
  <2>2. /\ queue' \in Seq(Segments) /\ Len(queue') <= Cap + 1
        /\ sb' \in Buffers /\ appended' \in 0 .. 2
    <3>1. Player!flush(queue, TRUE)
      BY <1>6 DEF Player!SourceOpen, Player!UpdateEnd
    <3> QED BY <2>1, <3>1, FlushTypes
  <2>3. /\ ms' = "open" \/ ms' = ms
        /\ chase' = TRUE \/ chase' = chase
        /\ UNCHANGED closed /\ UNCHANGED ws /\ UNCHANGED feed /\ UNCHANGED inbox
        /\ UNCHANGED retry /\ UNCHANGED waitingInit /\ UNCHANGED upsets /\ UNCHANGED cut
    BY <1>6 DEF Player!SourceOpen, Player!UpdateEnd, Player!deviceVars
  <2> QED BY <2>2, <2>3 DEF PlayerTypes
<1>7. CASE Player!Evict
  <2>1. sb' = "updating"
    BY <1>7 DEF Player!Evict
  <2>2. /\ UNCHANGED closed /\ UNCHANGED ws /\ UNCHANGED feed /\ UNCHANGED inbox
        /\ UNCHANGED retry /\ UNCHANGED chase /\ UNCHANGED ms /\ UNCHANGED queue
        /\ UNCHANGED waitingInit /\ UNCHANGED appended /\ UNCHANGED upsets /\ UNCHANGED cut
    BY <1>7 DEF Player!Evict, Player!deviceVars
  <2> QED BY <2>1, <2>2 DEF PlayerTypes, Buffers
<1>8. CASE Player!Accept
  <2>1. /\ ws' = "open" /\ feed' = "open"
        /\ UNCHANGED closed /\ UNCHANGED inbox /\ UNCHANGED retry /\ UNCHANGED upsets
        /\ UNCHANGED chase /\ UNCHANGED ms /\ UNCHANGED sb /\ UNCHANGED queue
        /\ UNCHANGED waitingInit /\ UNCHANGED appended /\ UNCHANGED cut
    BY <1>8 DEF Player!Accept, Player!sourceVars, Player!Device!Open
  <2> QED BY <2>1 DEF PlayerTypes
<1>9. CASE Player!SendInit \/ Player!SendFragment
  <2>1. /\ UNCHANGED closed /\ UNCHANGED ws /\ UNCHANGED retry /\ UNCHANGED upsets
        /\ UNCHANGED chase /\ UNCHANGED ms /\ UNCHANGED sb /\ UNCHANGED queue
        /\ UNCHANGED waitingInit /\ UNCHANGED appended /\ UNCHANGED cut
    BY <1>9 DEF Player!SendInit, Player!SendFragment, Player!Send, Player!sourceVars
  <2>2. feed' = "init" \/ feed' = "flow"
    BY <1>9 DEF Player!SendInit, Player!SendFragment, Player!Send, Player!Device!Describe,
                Player!Device!Flow
  <2>3. PICK msgs \in {<<"codec", "init">>, <<"fragment">>} :
          inbox' = inbox \o msgs /\ Len(inbox) + Len(msgs) <= MaxInbox
    BY <1>9 DEF Player!SendInit, Player!SendFragment, Player!Send
  <2>4. msgs \in Seq({"codec", "init", "fragment"})
    <3>1. <<"codec", "init">> \in Seq({"codec", "init", "fragment"})
      OBVIOUS
    <3>2. <<"fragment">> \in Seq({"codec", "init", "fragment"})
      OBVIOUS
    <3> QED BY <2>3, <3>1, <3>2
  <2>5. /\ inbox' \in Seq({"codec", "init", "fragment"})
        /\ Len(inbox') = Len(inbox) + Len(msgs)
    <3>1. inbox \in Seq({"codec", "init", "fragment"})
      BY DEF PlayerTypes
    <3> QED BY ONLY <2>3, <2>4, <3>1, ConcatProperties
  <2>6. Len(inbox') <= MaxInbox
    BY <2>3, <2>5
  <2> QED BY <2>1, <2>2, <2>5, <2>6 DEF PlayerTypes
<1>10. CASE Player!Fail
  <2>1. /\ upsets' = upsets + 1 /\ upsets < MaxUpsets /\ ws' = "lost" /\ feed' = "shut"
        /\ UNCHANGED closed /\ UNCHANGED inbox /\ UNCHANGED retry
        /\ UNCHANGED chase /\ UNCHANGED ms /\ UNCHANGED sb /\ UNCHANGED queue
        /\ UNCHANGED waitingInit /\ UNCHANGED appended /\ UNCHANGED cut
    BY <1>10 DEF Player!Fail, Player!sourceVars
  <2>2. upsets' \in 0 .. MaxUpsets
    BY <1>0, <2>1
  <2> QED BY <2>1, <2>2 DEF PlayerTypes
<1>11. CASE UNCHANGED Player!playerVars
  BY <1>11 DEF Player!playerVars, PlayerTypes
<1> QED
  BY <1>1, <1>2, <1>3, <1>4, <1>5, <1>6, <1>7, <1>8, <1>9, <1>10, <1>11 DEF Player!Next

\* The two ends as the checks run them: each keeps its types beside the other
EndsInv == IInv /\ RestTypes /\ PlayerTypes

LEMMA EndsInit == MCInit => EndsInv
<1> SUFFICES ASSUME MCInit PROVE EndsInv
  OBVIOUS
<1>1. Init /\ Player!Init
  BY DEF MCInit
<1>2. PlayerTypes
  <2>1. /\ closed = FALSE /\ retry = FALSE /\ upsets = 0 /\ ws = "connecting"
        /\ feed = "shut" /\ inbox = <<>> /\ chase = FALSE /\ ms = "none" /\ sb = "none"
        /\ queue = <<>> /\ waitingInit = TRUE /\ appended = 0 /\ cut = FALSE
    BY <1>1 DEF Player!Init, Player!Device!Init
  <2>2. 0 \in 0 .. MaxUpsets /\ 0 \in 0 .. 2
    BY PlayerAssumption
  <2> QED BY <2>1, <2>2, EmptyFits DEF PlayerTypes, Buffers
<1> QED BY <1>1, <1>2, InitOK, InitRest DEF EndsInv

LEMMA EndsStep ==
    ASSUME EndsInv, [MCNext]_vars
    PROVE  EndsInv'
<1>1. [Next]_previewVars
  BY DEF MCNext, vars
<1>2. [Player!Next]_Player!playerVars
  BY DEF MCNext, vars, endVars, Player!playerVars
<1> QED BY <1>1, <1>2, NextOK, NextRest, PlayerTypesKept DEF EndsInv

\* Every variable of the device and of the player stays in its type, whatever
\* sockets, packets, policies, messages and failures come, and the player's
\* queue within its cap (web_service.c, LivePreviewPlayer.vue).
THEOREM PreviewTypesKept == MCSpec => []PreviewTypeOK
<1>1. EndsInv /\ [MCNext]_vars => EndsInv'
  BY EndsStep
<1>2. PlayerTypes => Player!TypeOK
  BY DEF PlayerTypes, Player!TypeOK, Player!Device!Stages, Buffers, Segments
<1>3. EndsInv => PreviewTypeOK
  BY <1>2, TypesFromInv DEF EndsInv, PreviewTypeOK
<1> QED BY EndsInit, <1>1, <1>3, PTL DEF MCSpec
=============================================================================
