--------------------------- MODULE PrerecordRing ---------------------------
(***************************************************************************)
(* The pre-record ring of record_service.c: the last few seconds of the    *)
(* main stream, kept so that an event clip can start before its event.     *)
(*                                                                         *)
(* ring_push_locked appends an encoded frame and trims from the front;     *)
(* flush_prerecord_locked picks the frame an event clip starts with.  The  *)
(* frames' bytes, and with them the RING_BYTES_MAX limit, are abstracted   *)
(* away: RING_CAP stands for whichever of the two limits bites first.      *)
(*                                                                         *)
(* An entry is [frame |-> the encoded frame, wall |-> the second it was    *)
(* pushed]; a frame has at least a field key (it is an IDR frame).         *)
(***************************************************************************)
EXTENDS Integers, Sequences

CONSTANTS
  RING_CAP,  (* entries of the ring's array                                *)
  PreSec     (* cfg.pre_record_sec: seconds of stream worth keeping        *)

ASSUME RingAssumption ==
  /\ RING_CAP \in Nat \ {0}
  /\ PreSec \in Nat \ {0}

(* The part of s that starts at index i. *)
From(s, i) == SubSeq(s, i, Len(s))

(* The least element of a non-empty set of naturals. *)
Least(S) == CHOOSE m \in S : \A n \in S : m <= n

(* The greatest element of a non-empty set of naturals. *)
Greatest(S) == CHOOSE m \in S : \A n \in S : n <= m

(* Trim with a defect: it keeps a stale front as long as there is room.    *)
TrimFullOnly(ring, now) ==
  IF Len(ring) < RING_CAP THEN ring ELSE From(ring, Len(ring) - RING_CAP + 2)

(* ring_trim_locked pops the front while the ring is full or its front is  *)
(* older than the cutoff.  Its exception, which would keep a key frame at  *)
(* the front, asks for a ring that is not full and a front that is not old *)
(* inside a test that one of the two holds: it never applies.              *)
Stays(ring, i, now) ==
  /\ Len(ring) - i + 1 < RING_CAP
  /\ ring[i].wall >= now - PreSec

Trim(ring, now) ==
  LET kept == {i \in 1 .. Len(ring) : Stays(ring, i, now)}
  IN  IF kept = {} THEN <<>> ELSE From(ring, Least(kept))

(* ring_push_locked pops until an entry is free, appends, and trims.  When *)
(* the copy of the frame cannot be allocated it leaves after the popping.  *)
Popped(ring) ==
  IF Len(ring) >= RING_CAP THEN From(ring, Len(ring) - RING_CAP + 2) ELSE ring

Pushed(ring, f, now) ==
  Trim(Append(Popped(ring), [frame |-> f, wall |-> now]), now)

(* FlushStart with a defect: it takes the last key frame of the window.    *)
FlushStartLate(ring, now) ==
  LET keys == {i \in 1 .. Len(ring) : ring[i].frame.key}
  IN  IF keys # {} THEN Greatest(keys) ELSE 1

(* The first key frame of the window, or else the last key frame before    *)
(* it, or else the front.                                                  *)
FlushStart(ring, now) ==
  LET keys   == {i \in 1 .. Len(ring) : ring[i].frame.key}
      recent == {i \in keys : ring[i].wall >= now - PreSec}
  IN  IF recent # {} THEN Least(recent)
      ELSE IF keys # {} THEN Greatest(keys)
      ELSE 1

(* FlushFrames with a defect: whatever is in front is flushed.             *)
FlushFramesUnchecked(ring, now) ==
  LET start == FlushStart(ring, now)
  IN  [i \in 1 .. Len(ring) - start + 1 |-> ring[start + i - 1].frame]

(* What flush_prerecord_locked offers to the mux queue: nothing unless the *)
(* flush starts with a key frame.                                          *)
FlushFrames(ring, now) ==
  LET start == FlushStart(ring, now)
  IN  IF ring = <<>> \/ ~ring[start].frame.key THEN <<>>
      ELSE [i \in 1 .. Len(ring) - start + 1 |-> ring[start + i - 1].frame]
=============================================================================
