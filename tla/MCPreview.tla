------------------------------ MODULE MCPreview ------------------------------
(***************************************************************************)
(* The two ends of the live preview, each on its own: a behaviour is the    *)
(* device's or the player's, chosen at the start.  They meet in PreviewFeed *)
(* only: the device keeps its promise on every socket (FeedsKept), and the  *)
(* player comes to play from a device that keeps it (Plays).                *)
(* Preview.cfg and PreviewIdle.cfg.                                         *)
(***************************************************************************)
EXTENDS PreviewServer

CONSTANTS Cap, Keep, MaxInbox, MaxUpsets   \* LivePlayer

\* A cut leaves the queue shorter
ASSUME PlayerAssumption ==
    /\ Cap \in Nat /\ Keep \in 0 .. Cap
    /\ MaxInbox \in Nat /\ MaxUpsets \in Nat

VARIABLES
    end,   \* the end this behaviour is of
    closed, ws, feed, inbox, retry, chase, ms, sb, queue, waitingInit, appended, upsets, cut

Player == INSTANCE LivePlayer

endVars == <<closed, ws, feed, inbox, retry, chase, ms, sb, queue, waitingInit, appended,
             upsets, cut>>
vars == <<end, previewVars, endVars>>

MCInit ==
    /\ end \in {"device", "player"}
    /\ Init /\ (end = "device" \/ (policy = "motion" /\ ~detect))
    /\ Player!Init

MCNext ==
    /\ UNCHANGED end
    /\ IF end = "device" THEN Next ELSE UNCHANGED previewVars
    /\ IF end = "player" THEN Player!Next ELSE UNCHANGED endVars

\* The player's fairness only: nothing the device promises here is about time
MCSpec == MCInit /\ [][MCNext]_vars /\ (end = "player" => Player!Fairness)

-----------------------------------------------------------------------------
PreviewTypeOK == TypeOK /\ Player!TypeOK

\* LivePlayer: a socket or the timer for the next one, and neither once it is
\* off the page.
OneAttempt == Player!OneAttempt

\* LivePlayer: the player comes to play and plays on.
Plays == end = "player" => Player!Plays
=============================================================================
