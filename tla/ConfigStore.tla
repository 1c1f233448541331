----------------------------- MODULE ConfigStore -----------------------------
(***************************************************************************)
(* config_service.c: one JSON tree in memory, one file.  A request handler *)
(* (record_config_save, network_set, the password change, ...) sets the    *)
(* keys of its section one after the other and calls config_save, which    *)
(* writes a temporary file and renames it.  The process may be killed and  *)
(* the power cut between any two steps, and the file system is 2.2 MB and  *)
(* fills up (ipc_watchdog.sh).                                             *)
(*                                                                         *)
(* Abstracted: a request gives every key of its section the same value,    *)
(* its number, so that a value tells which request it comes from; 0 is the *)
(* default.  A file holds every key there is, so merging it over the       *)
(* defaults gives its values.  All writers are the one thread that runs    *)
(* the web server or the command; readers take no part.                    *)
(***************************************************************************)
EXTENDS Integers

CONSTANTS
  Keys,             (* the keys                                            *)
  Sections,         (* sets of keys that one handler sets together         *)
  MaxRequests       (* bound of the model: requests                        *)

ASSUME ConfigAssumption ==
  /\ Sections \subseteq SUBSET Keys
  /\ \A s, t \in Sections : s = t \/ s \cap t = {}
  /\ MaxRequests \in Nat

VARIABLES
  tree,      \* g_root
  user,      \* the file named g_user_path, as a running process sees it
  durable,   \* the file that name stands for after a power cut
  tmp,       \* the file named <g_user_path>.tmp
  pc,        \* where the writing thread is; "down": no process
  section,   \* the section being saved
  todo,      \* its keys still to set
  number,    \* requests so far
  accepted,  \* history: for each section the last request answered with
             \* success, unless its file may have been lost since
  half       \* history: sections a setter has failed in

vars == <<tree, user, durable, tmp, pc, section, todo, number, accepted, half>>
files == <<user, durable, tmp>>

Defaults == [k \in Keys |-> 0]
NothingAccepted == [s \in Sections |-> 0]

(* A file: is there one, and is its text complete; is it on the flash; and *)
(* (history) has fflush or fsync failed on it?                             *)
NoFile == [kind |-> "none", tree |-> Defaults, synced |-> TRUE, failed |-> FALSE]
Written(kind, t) == [kind |-> kind, tree |-> t, synced |-> FALSE, failed |-> FALSE]
EmptyFile == Written("torn", Defaults)

(* What a power cut leaves of a file.                                      *)
AfterCut(f) == IF f.synced THEN {f} ELSE {f, [f EXCEPT !.kind = "torn"]}

(* config_init: text that cJSON cannot parse is as good as no file.        *)
Loaded(f) == IF f.kind = "whole" THEN f.tree ELSE Defaults

-----------------------------------------------------------------------------
Init ==
  /\ tree = Defaults /\ user = NoFile /\ durable = NoFile /\ tmp = NoFile
  /\ pc = "down" /\ section = {} /\ todo = {}
  /\ number = 0 /\ accepted = NothingAccepted /\ half = {}

Boot ==
  /\ pc = "down"
  /\ tree' = Loaded(user)
  /\ pc' = "idle"
  /\ UNCHANGED <<files, section, todo, number, accepted, half>>

(* A handler has validated its input and starts to set.                    *)
Request(s) ==
  /\ pc = "idle" /\ number < MaxRequests
  /\ section' = s /\ todo' = s
  /\ number' = number + 1
  /\ pc' = "set"
  /\ UNCHANGED <<tree, files, accepted, half>>

(* config_set_string, config_set_int, config_set_bool.                     *)
SetKey(k) ==
  /\ pc = "set" /\ k \in todo
  /\ tree' = [tree EXCEPT ![k] = number]
  /\ todo' = todo \ {k}
  /\ UNCHANGED <<files, pc, section, number, accepted, half>>

(* The handler's chain of || ends with the first failure.                  *)
SetKeyFails ==
  /\ pc = "set" /\ todo # {}
  /\ half' = half \cup {section}
  /\ pc' = "idle"
  /\ UNCHANGED <<tree, files, section, todo, number, accepted>>

(* fopen(tmp, "wb"); before it cJSON_Print.  OpenTmp with a defect: the    *)
(* tree is saved key by key.                                               *)
OpenTmpEarly ==
  /\ pc = "set"
  /\ tmp' = EmptyFile
  /\ pc' = "write"
  /\ UNCHANGED <<tree, user, durable, section, todo, number, accepted, half>>

OpenTmp ==
  /\ pc = "set" /\ todo = {}
  /\ tmp' = EmptyFile
  /\ pc' = "write"
  /\ UNCHANGED <<tree, user, durable, section, todo, number, accepted, half>>

OpenTmpFails ==
  /\ pc = "set" /\ todo = {}
  /\ pc' = "idle"
  /\ UNCHANGED <<tree, files, section, todo, number, accepted, half>>

(* fwrite, of which the last block stays in the buffer until fflush.       *)
Write ==
  /\ pc = "write"
  /\ tmp' = Written("whole", tree)
  /\ pc' = "flush"
  /\ UNCHANGED <<tree, user, durable, section, todo, number, accepted, half>>

(* The short count is noticed after fclose.                                *)
WriteShort ==
  /\ pc = "write"
  /\ tmp' = NoFile
  /\ pc' = "idle"
  /\ UNCHANGED <<tree, user, durable, section, todo, number, accepted, half>>

(* fflush and fsync.  With a defect: fsync is left out.                    *)
FlushUnsynced ==
  /\ pc = "flush"
  /\ pc' = "rename"
  /\ UNCHANGED <<tree, files, section, todo, number, accepted, half>>

Flush ==
  /\ pc = "flush"
  /\ tmp' = [tmp EXCEPT !.synced = TRUE]
  /\ pc' = "rename"
  /\ UNCHANGED <<tree, user, durable, section, todo, number, accepted, half>>

(* No space for the last block, or an error of the flash: nobody notices.  *)
FlushFails ==
  /\ pc = "flush"
  /\ \E kind \in {tmp.kind, "torn"} :
       tmp' = [tmp EXCEPT !.kind = kind, !.failed = TRUE]
  /\ pc' = "rename"
  /\ UNCHANGED <<tree, user, durable, section, todo, number, accepted, half>>

Rename ==
  /\ pc = "rename"
  /\ user' = tmp /\ tmp' = NoFile
  /\ accepted' = IF tmp.failed THEN NothingAccepted
                               ELSE [accepted EXCEPT ![section] = number]
  /\ pc' = "idle"
  /\ UNCHANGED <<tree, durable, section, todo, number, half>>

(* With a defect: a failed rename is not reported.                         *)
RenameFailsQuietly ==
  /\ pc = "rename"
  /\ tmp' = NoFile
  /\ accepted' = [accepted EXCEPT ![section] = number]
  /\ pc' = "idle"
  /\ UNCHANGED <<tree, user, durable, section, todo, number, half>>

RenameFails ==
  /\ pc = "rename"
  /\ tmp' = NoFile
  /\ pc' = "idle"
  /\ UNCHANGED <<tree, user, durable, section, todo, number, accepted, half>>

(* system_factory_reset: whether or not unlink works, the tree is reloaded.*)
FactoryReset ==
  /\ pc = "idle"
  /\ user' \in {NoFile, user}
  /\ tree' = Loaded(user')
  /\ accepted' = IF user' = NoFile THEN NothingAccepted ELSE accepted
  /\ UNCHANGED <<durable, tmp, pc, section, todo, number, half>>

(* The watchdog kills the process: files keep what the kernel has.         *)
Kill ==
  /\ pc # "down"
  /\ pc' = "down"
  /\ UNCHANGED <<tree, files, section, todo, number, accepted, half>>

(* The file system writes its directory back; nobody asks it to.           *)
Commit ==
  /\ durable' = user
  /\ UNCHANGED <<tree, user, tmp, pc, section, todo, number, accepted, half>>

(* A power cut: the directory goes back to what the flash has, so that the *)
(* last answers are forgotten, and so may be the text of unsynced files.   *)
PowerCut ==
  /\ user' \in AfterCut(durable)
  /\ durable' = user'
  /\ tmp' \in {NoFile} \cup AfterCut(tmp)
  /\ pc' = "down"
  /\ accepted' = NothingAccepted
  /\ UNCHANGED <<tree, section, todo, number, half>>

Next ==
  \/ Boot \/ OpenTmp \/ OpenTmpFails \/ Write \/ WriteShort
  \/ SetKeyFails \/ Flush \/ FlushFails \/ Rename \/ RenameFails
  \/ FactoryReset \/ Kill \/ Commit \/ PowerCut
  \/ \E s \in Sections : Request(s)
  \/ \E k \in Keys : SetKey(k)

Spec == Init /\ [][Next]_vars

-----------------------------------------------------------------------------
File == [kind : {"none", "torn", "whole"}, tree : [Keys -> 0 .. MaxRequests],
         synced : BOOLEAN, failed : BOOLEAN]

TypeOK ==
  /\ tree \in [Keys -> 0 .. MaxRequests]
  /\ user \in File /\ durable \in File /\ tmp \in File
  /\ pc \in {"down", "idle", "set", "write", "flush", "rename"}
  /\ section \in Sections \cup {{}} /\ todo \subseteq section
  /\ number \in 0 .. MaxRequests
  /\ accepted \in [Sections -> 0 .. MaxRequests]
  /\ half \subseteq Sections

(* "Atomic save to user path (temp + rename)": whenever the next process   *)
(* starts it finds a file it can read, if there is one.                    *)
SaveIsAtomic == user.kind # "torn"

(* So it is, killed or cut off at any point, unless fflush or fsync failed *)
(* on this very file, at which config_save does not look.                  *)
AtomicIfFlushed == user.kind = "torn" => user.failed

(* The file holds no request by halves: never a new salt with an old       *)
(* password hash, a static address with the mode of before; except in a    *)
(* section where a setter once ran out of memory, which leaves its keys in *)
(* the tree for the next save.                                             *)
SectionsWhole ==
  \A s \in Sections \ half : \A k, l \in s : user.tree[k] = user.tree[l]

(* A handler that looks at config_save's result and answers with success   *)
(* has its values on file, killed or not, until a later request, a factory *)
(* reset, a power cut (the directory is not synced) or a save that could   *)
(* not be flushed takes them away.                                         *)
AcceptedIsSaved ==
  \A s \in Sections : accepted[s] > 0 =>
    user.kind = "whole" /\ \A k \in s : user.tree[k] >= accepted[s]
=============================================================================
