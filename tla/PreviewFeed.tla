---------------------------- MODULE PreviewFeed ----------------------------
(***************************************************************************)
(* What the device promises on one preview socket: first the codec and the  *)
(* init segment, then fragments, the first of them a key frame; nothing     *)
(* before the socket is open and nothing after it is shut.                  *)
(***************************************************************************)
VARIABLE feed   \* how far the feed of the socket has come

Stages == {"shut", "open", "init", "flow"}

Init == feed = "shut"

Open == feed = "shut" /\ feed' = "open"

\* The codec and the init segment, in one step with the first fragments or not
Describe == feed = "open" /\ feed' = "init"
DescribeAndFlow == feed = "open" /\ feed' = "flow"

Flow == feed \in {"init", "flow"} /\ feed' = "flow"

Shut == feed # "shut" /\ feed' = "shut"

Next == Open \/ Describe \/ DescribeAndFlow \/ Flow \/ Shut

Spec == Init /\ [][Next]_feed
=============================================================================
