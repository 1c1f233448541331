----------------------------- MODULE ClipStore -----------------------------
(***************************************************************************)
(* What the recorder promises about footage, without threads, queue, muxer *)
(* or files: a numbered list of clips of which at most the last one is     *)
(* open.  An open clip only grows, starting with a key frame; a clip that  *)
(* ends is kept as it is, or forgotten if nothing was recorded; and a kept *)
(* clip changes in one way only, by being destroyed as a whole when space  *)
(* is reclaimed or its name is reused.                                     *)
(***************************************************************************)
EXTENDS Integers, Sequences

VARIABLE clips   \* sequence of [phase, frames]

Phases == {"open", "kept", "empty", "gone"}
Last == Len(clips)
SomeOpen == \E n \in 1 .. Last : clips[n].phase = "open"

(* new continues old, and what it starts with is a key frame.              *)
Grows(old, new) ==
  /\ Len(old) <= Len(new)
  /\ \A i \in 1 .. Len(old) : new[i] = old[i]
  /\ new # <<>> => new[1].frame.key

Destroyed(old, new) ==
  /\ old.phase \in {"kept", "open"}
  /\ new = [phase |-> "gone", frames |-> <<>>]

(* Every clip but n stays as it is or is destroyed.                        *)
OthersSurvive(n) ==
  \A m \in 1 .. Last \ {n} :
    clips'[m] = clips[m] \/ Destroyed(clips[m], clips'[m])

Init == clips = <<>>

(* A new clip, possibly with its pre-recorded start.                       *)
Open ==
  /\ ~SomeOpen
  /\ Len(clips') = Last + 1
  /\ OthersSurvive(0)
  /\ \/ clips'[Last + 1].phase = "open" /\ Grows(<<>>, clips'[Last + 1].frames)
     \/ clips'[Last + 1].phase = "gone"

Record ==
  /\ SomeOpen
  /\ Len(clips') = Last
  /\ OthersSurvive(Last)
  /\ clips'[Last].phase = "open"
  /\ Grows(clips[Last].frames, clips'[Last].frames)

Finish ==
  /\ SomeOpen
  /\ Len(clips') = Last
  /\ OthersSurvive(Last)
  /\ clips'[Last].frames = clips[Last].frames
  /\ clips'[Last].phase = IF clips[Last].frames = <<>> THEN "empty" ELSE "kept"

Destroy ==
  /\ Len(clips') = Last
  /\ OthersSurvive(0)

Next == Open \/ Record \/ Finish \/ Destroy

Spec == Init /\ [][Next]_clips
=============================================================================
