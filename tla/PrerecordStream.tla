-------------------------- MODULE PrerecordStream --------------------------
(***************************************************************************)
(* The pre-record ring under the stream that fills it: an encoder of a     *)
(* fixed frame rate with a key frame at least every Gop frames, more often *)
(* when one is requested, and events that flush the ring into a new clip.  *)
(*                                                                         *)
(* The ring's limits (RING_CAP entries, PreSec seconds) and the encoder's  *)
(* settings (web API: up to 30 frames per second, Gop up to 300) are       *)
(* chosen apart from each other.  Whether an event clip starts before its  *)
(* event depends on both.                                                  *)
(***************************************************************************)
EXTENDS PrerecordRing

CONSTANTS
  Fps,              (* frames per second of the main stream                *)
  Gop,              (* main_gop: greatest distance between two key frames  *)
  Stalls,           (* may the stream pause, as it does while asleep?      *)
  MaxNow            (* bound of the model                                  *)

ASSUME StreamAssumption ==
  /\ {Fps, Gop} \subseteq Nat \ {0}
  /\ Stalls \in BOOLEAN
  /\ MaxNow \in Nat

VARIABLES
  now,              (* time(NULL)                                          *)
  thisSec,          (* frames delivered in this second                     *)
  sinceKey,         (* frames since the last key frame, that one included  *)
  stalled,          (* seconds without a frame since the last flush?       *)
  ring,
  captured          (* history: what was pushed since the last flush       *)

vars == <<now, thisSec, sinceKey, stalled, ring, captured>>

Init ==
  /\ now = 1 /\ thisSec = 0 /\ sinceKey = 0 /\ stalled = FALSE
  /\ ring = <<>> /\ captured = <<>>

Frame(key) == [id |-> Len(captured) + 1, key |-> key]

(* on_packet: the frame is pushed, whatever else happens to it.            *)
Capture(key) ==
  /\ thisSec < Fps
  /\ sinceKey \in {0, Gop} => key
  /\ thisSec' = thisSec + 1
  /\ sinceKey' = IF key THEN 1 ELSE sinceKey + 1
  /\ ring' = Pushed(ring, Frame(key), now)
  /\ captured' = Append(captured, [frame |-> Frame(key), wall |-> now])
  /\ UNCHANGED <<now, stalled>>

(* An event opens a clip: flush_prerecord_locked empties the ring.         *)
Flush ==
  /\ ring # <<>>
  /\ ring' = <<>>
  /\ captured' = <<>>
  /\ stalled' = FALSE
  /\ UNCHANGED <<now, thisSec, sinceKey>>

(* The next second; the stream has delivered Fps frames, or it stalls.     *)
Tick ==
  /\ now < MaxNow
  /\ thisSec = Fps \/ Stalls
  /\ now' = now + 1
  /\ thisSec' = 0
  /\ stalled' = (stalled \/ thisSec < Fps)
  /\ UNCHANGED <<sinceKey, ring, captured>>

Next == (\E key \in BOOLEAN : Capture(key)) \/ Flush \/ Tick

Spec == Init /\ [][Next]_vars

-----------------------------------------------------------------------------
(* What an event would write now.                                          *)
Start == FlushFrames(ring, now)

(* Number of captured entries that are no longer in the ring.              *)
Dropped == Len(captured) - Len(ring)

(* The ring is the tail of what was captured, in order and without a gap,  *)
(* never full, never longer than PreSec; and it has dropped no entry but   *)
(* those that are too old or too many, however the stream pauses.          *)
RingIsTail ==
  /\ Dropped >= 0
  /\ ring = From(captured, Dropped + 1)
  /\ Len(ring) < RING_CAP
  /\ ring # <<>> => ring[1].wall >= ring[Len(ring)].wall - PreSec
  /\ \A i \in 1 .. Dropped :
       captured[i].wall < now - PreSec \/ Len(captured) - i >= RING_CAP - 1

(* An event clip starts with a key frame, ends with the newest frame, and  *)
(* leaves no frame out in between.                                         *)
StartIsWhole ==
  Start # <<>> =>
    /\ Start[1].key
    /\ Start[Len(Start)] = captured[Len(captured)].frame
    /\ \A i \in 1 .. Len(Start) : Start[i].id = Start[1].id + i - 1

(* "No opening picture is lost": once the stream has run steadily for a    *)
(* group of pictures since the last event, an event finds a start, and it  *)
(* reaches as far back as the ring's key frames do.                        *)
NoLostStart ==
  ~stalled /\ Len(captured) >= Gop =>
    /\ Start # <<>>
    /\ \A i \in 1 .. Len(ring) :
         ring[i].frame.key /\ ring[i].wall >= now - PreSec
           => Start[1].id <= ring[i].frame.id
=============================================================================
