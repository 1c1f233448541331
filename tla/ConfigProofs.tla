----------------------------- MODULE ConfigProofs -----------------------------
(***************************************************************************)
(* What the configuration file is worth after any kills and power cuts,    *)
(* for any sections and any number of requests.                            *)
(***************************************************************************)
EXTENDS ConfigStore, TLAPS

(* A file that is torn, or could become so in a power cut, was not flushed.*)
Good(f) == f.synced \/ f.failed
Readable(f) == f.kind = "torn" => f.failed

FilesGood ==
  /\ Good(user) /\ Readable(user)
  /\ Good(durable) /\ Readable(durable)
  /\ pc = "flush" => tmp.kind = "whole" /\ ~tmp.failed
  /\ pc = "rename" => Good(tmp) /\ Readable(tmp) /\ (tmp.failed \/ tmp.kind = "whole")

Even(s, t) == \A k, l \in s : t[k] = t[l]

(* Where a request leaves its section's keys.                              *)
Setting ==
  /\ pc \in {"set", "write", "flush", "rename"} =>
       /\ section \in Sections /\ todo \subseteq section
       /\ \A k \in section \ todo : tree[k] = number
  /\ pc \in {"write", "flush", "rename"} => todo = {}
  /\ pc \in {"flush", "rename"} => tmp.tree = tree

Whole ==
  \A s \in Sections \ half :
    /\ Even(s, user.tree) /\ Even(s, durable.tree)
    /\ pc # "down" => Even(s, tree) \/ (pc = "set" /\ s = section)

Kept ==
  \A s \in Sections :
    /\ accepted[s] <= number
    /\ accepted[s] > 0 =>
         /\ user.kind = "whole"
         /\ \A k \in s : user.tree[k] >= accepted[s]
         /\ pc # "down" => \A k \in s : tree[k] >= accepted[s]

IInv == TypeOK /\ FilesGood /\ Setting /\ Whole /\ Kept

-----------------------------------------------------------------------------
(* What is known of the files the actions create.                          *)
LEMMA NoFileFacts ==
  ASSUME MaxRequests \in Nat
  PROVE  /\ Defaults \in [Keys -> 0 .. MaxRequests]
         /\ NoFile \in File /\ Good(NoFile) /\ Readable(NoFile)
         /\ NoFile.kind = "none" /\ NoFile.tree = Defaults
BY DEF Defaults, NoFile, File, Good, Readable

LEMMA WrittenFacts ==
  ASSUME NEW t \in [Keys -> 0 .. MaxRequests],
         NEW kind \in {"none", "torn", "whole"}
  PROVE  /\ Written(kind, t) \in File /\ Written(kind, t).kind = kind
         /\ Written(kind, t).tree = t /\ ~Written(kind, t).failed
BY DEF Written, File

(* A power cut does not touch what was flushed.                            *)
LEMMA CutFacts ==
  ASSUME NEW f \in File, NEW g \in AfterCut(f)
  PROVE  /\ g \in File /\ g.tree = f.tree
         /\ Good(f) => Good(g)
         /\ Good(f) /\ Readable(f) => Readable(g)
BY DEF AfterCut, File, Good, Readable

LEMMA LoadedFacts ==
  ASSUME MaxRequests \in Nat, NEW f \in File
  PROVE  /\ Loaded(f) \in [Keys -> 0 .. MaxRequests]
         /\ f.kind = "whole" => Loaded(f) = f.tree
         /\ \A s \in SUBSET Keys : Even(s, f.tree) => Even(s, Loaded(f))
BY DEF Loaded, File, Defaults, Even

LEMMA Initially == Init => IInv
<1>. SUFFICES ASSUME Init
              PROVE  IInv
  OBVIOUS
<1>1. TypeOK
  BY NoFileFacts, ConfigAssumption DEF Init, TypeOK, NothingAccepted
<1>2. FilesGood /\ Setting
  BY NoFileFacts, ConfigAssumption DEF Init, FilesGood, Setting
<1>3. Whole /\ Kept
  BY NoFileFacts, ConfigAssumption DEF Init, Whole, Kept, Even, Defaults,
     NothingAccepted
<1>4. QED
  BY <1>1, <1>2, <1>3 DEF IInv

(* Types, action by action.                                                *)
LEMMA TypesStep == TypeOK /\ Setting /\ [Next]_vars => TypeOK'
<1>. SUFFICES ASSUME TypeOK, Setting, [Next]_vars
              PROVE  TypeOK'
  OBVIOUS
<1>1. CASE Boot
  BY <1>1, LoadedFacts, ConfigAssumption DEF Boot, TypeOK, files
<1>2. CASE OpenTmp
  BY <1>2, WrittenFacts, NoFileFacts, ConfigAssumption DEF OpenTmp,
     EmptyFile, TypeOK
<1>3. CASE OpenTmpFails
  BY <1>3 DEF OpenTmpFails, TypeOK, files
<1>4. CASE Write
  BY <1>4, WrittenFacts, ConfigAssumption DEF Write, TypeOK
<1>5. CASE WriteShort
  BY <1>5, NoFileFacts, ConfigAssumption DEF WriteShort, TypeOK
<1>6. CASE SetKeyFails
  <2>1. section \in Sections
    BY <1>6 DEF SetKeyFails, Setting
  <2>2. QED
    BY <1>6, <2>1 DEF SetKeyFails, TypeOK, files
<1>7. CASE Flush
  BY <1>7 DEF Flush, TypeOK, File
<1>8. CASE FlushFails
  BY <1>8 DEF FlushFails, TypeOK, File
<1>9. CASE Rename
  <2>1. tmp' \in File /\ user' \in File
    <3>1. user' = tmp /\ tmp' = NoFile
      BY <1>9 DEF Rename
    <3>2. NoFile \in File
      BY NoFileFacts, ConfigAssumption
    <3>3. QED
      BY <3>1, <3>2 DEF TypeOK
  <2>2. accepted' \in [Sections -> 0 .. MaxRequests]
    <3>1. /\ number \in 0 .. MaxRequests
          /\ accepted \in [Sections -> 0 .. MaxRequests]
      BY DEF TypeOK
    <3>2. \/ accepted' = NothingAccepted
          \/ accepted' = [accepted EXCEPT ![section] = number]
      BY <1>9 DEF Rename
    <3>3. NothingAccepted \in [Sections -> 0 .. MaxRequests]
      BY ConfigAssumption DEF NothingAccepted
    <3>4. QED
      BY <3>1, <3>2, <3>3
  <2>3. QED
    BY <1>9, <2>1, <2>2 DEF Rename, TypeOK
<1>10. CASE RenameFails
  BY <1>10, NoFileFacts, ConfigAssumption DEF RenameFails, TypeOK
<1>11. CASE FactoryReset
  <2>1. user' \in File
    BY <1>11, NoFileFacts, ConfigAssumption DEF FactoryReset, TypeOK
  <2>2. tree' \in [Keys -> 0 .. MaxRequests]
    BY <1>11, <2>1, LoadedFacts, ConfigAssumption DEF FactoryReset
  <2>3. accepted' \in [Sections -> 0 .. MaxRequests]
    BY <1>11, ConfigAssumption DEF FactoryReset, TypeOK, NothingAccepted
  <2>4. QED
    BY <1>11, <2>1, <2>2, <2>3 DEF FactoryReset, TypeOK
<1>12. CASE Kill
  BY <1>12 DEF Kill, TypeOK, files
<1>13. CASE Commit
  BY <1>13 DEF Commit, TypeOK, files
<1>14. CASE PowerCut
  <2>1. user' \in File /\ durable' \in File
    BY <1>14, CutFacts DEF PowerCut, TypeOK
  <2>2. tmp' \in File
    BY <1>14, CutFacts, NoFileFacts, ConfigAssumption DEF PowerCut, TypeOK
  <2>3. accepted' \in [Sections -> 0 .. MaxRequests]
    BY <1>14, ConfigAssumption DEF PowerCut, NothingAccepted
  <2>4. QED
    BY <1>14, <2>1, <2>2, <2>3 DEF PowerCut, TypeOK
<1>15. CASE \E s \in Sections : Request(s)
  BY <1>15, ConfigAssumption DEF Request, TypeOK, files
<1>16. CASE \E k \in Keys : SetKey(k)
  BY <1>16 DEF SetKey, TypeOK, files
<1>17. CASE UNCHANGED vars
  BY <1>17 DEF vars, TypeOK, files
<1>18. QED
  BY <1>1, <1>2, <1>3, <1>4, <1>5, <1>6, <1>7, <1>8, <1>9, <1>10, <1>11,
     <1>12, <1>13, <1>14, <1>15, <1>16, <1>17 DEF Next

(* What can become of the files, action by action.                         *)
LEMMA FilesStep == TypeOK /\ FilesGood /\ [Next]_vars => FilesGood'
<1>. SUFFICES ASSUME TypeOK, FilesGood, [Next]_vars
              PROVE  FilesGood'
  OBVIOUS
<1>1. CASE Boot
  BY <1>1 DEF Boot, FilesGood, files
<1>2. CASE OpenTmp
  BY <1>2 DEF OpenTmp, FilesGood, files
<1>3. CASE OpenTmpFails
  BY <1>3 DEF OpenTmpFails, FilesGood, files
<1>4. CASE Write
  BY <1>4, WrittenFacts, ConfigAssumption DEF Write, FilesGood, TypeOK
<1>5. CASE WriteShort
  BY <1>5 DEF WriteShort, FilesGood, files
<1>6. CASE SetKeyFails
  BY <1>6 DEF SetKeyFails, FilesGood, files
<1>7. CASE Flush
  BY <1>7 DEF Flush, FilesGood, TypeOK, File, Good, Readable
<1>8. CASE FlushFails
  BY <1>8 DEF FlushFails, FilesGood, TypeOK, File, Good, Readable
<1>9. CASE Rename
  BY <1>9 DEF Rename, FilesGood, files
<1>10. CASE RenameFails
  BY <1>10 DEF RenameFails, FilesGood, files
<1>11. CASE FactoryReset
  BY <1>11, NoFileFacts, ConfigAssumption DEF FactoryReset, FilesGood,
     TypeOK
<1>12. CASE Kill
  BY <1>12 DEF Kill, FilesGood, files
<1>13. CASE Commit
  BY <1>13 DEF Commit, FilesGood, files
<1>14. CASE PowerCut
  BY <1>14, CutFacts DEF PowerCut, FilesGood, TypeOK
<1>15. CASE \E s \in Sections : Request(s)
  BY <1>15 DEF Request, FilesGood, files
<1>16. CASE \E k \in Keys : SetKey(k)
  BY <1>16 DEF SetKey, FilesGood, files
<1>17. CASE UNCHANGED vars
  BY <1>17 DEF vars, FilesGood, files
<1>18. QED
  BY <1>1, <1>2, <1>3, <1>4, <1>5, <1>6, <1>7, <1>8, <1>9, <1>10, <1>11,
     <1>12, <1>13, <1>14, <1>15, <1>16, <1>17 DEF Next

(* How far a request has come, action by action.                           *)
LEMMA SettingStep == TypeOK /\ Setting /\ [Next]_vars => Setting'
<1>. SUFFICES ASSUME TypeOK, Setting, [Next]_vars
              PROVE  Setting'
  OBVIOUS
<1>1. CASE Boot
  BY <1>1 DEF Boot, Setting, files
<1>2. CASE OpenTmp
  BY <1>2 DEF OpenTmp, Setting, files
<1>3. CASE OpenTmpFails
  BY <1>3 DEF OpenTmpFails, Setting, files
<1>4. CASE Write
  BY <1>4, WrittenFacts, ConfigAssumption DEF Write, Setting, TypeOK
<1>5. CASE WriteShort
  BY <1>5 DEF WriteShort, Setting, files
<1>6. CASE SetKeyFails
  BY <1>6 DEF SetKeyFails, Setting, files
<1>7. CASE Flush
  BY <1>7 DEF Flush, Setting, TypeOK, File
<1>8. CASE FlushFails
  BY <1>8 DEF FlushFails, Setting, TypeOK, File
<1>9. CASE Rename
  BY <1>9 DEF Rename, Setting, files
<1>10. CASE RenameFails
  BY <1>10 DEF RenameFails, Setting, files
<1>11. CASE FactoryReset
  BY <1>11 DEF FactoryReset, Setting, files
<1>12. CASE Kill
  BY <1>12 DEF Kill, Setting, files
<1>13. CASE Commit
  BY <1>13 DEF Commit, Setting
<1>14. CASE PowerCut
  BY <1>14 DEF PowerCut, Setting, files
<1>15. CASE \E s \in Sections : Request(s)
  BY <1>15 DEF Request, Setting, files
<1>16. CASE \E k \in Keys : SetKey(k)
  BY <1>16 DEF SetKey, Setting, TypeOK
<1>17. CASE UNCHANGED vars
  BY <1>17 DEF vars, Setting, files
<1>18. QED
  BY <1>1, <1>2, <1>3, <1>4, <1>5, <1>6, <1>7, <1>8, <1>9, <1>10, <1>11,
     <1>12, <1>13, <1>14, <1>15, <1>16, <1>17 DEF Next

(* No section is saved by halves, action by action.                        *)
LEMMA WholeStep == TypeOK /\ Setting /\ Whole /\ [Next]_vars => Whole'
<1>. SUFFICES ASSUME TypeOK, Setting, Whole, [Next]_vars
              PROVE  Whole'
  OBVIOUS
<1>1. CASE Boot
  BY <1>1, LoadedFacts, ConfigAssumption DEF Boot, Whole, TypeOK, files
<1>2. CASE OpenTmp
  BY <1>2 DEF OpenTmp, Whole, Setting, Even
<1>3. CASE OpenTmpFails
  BY <1>3 DEF OpenTmpFails, Whole, Setting, Even, files
<1>4. CASE Write
  BY <1>4 DEF Write, Whole, files
<1>5. CASE WriteShort
  BY <1>5 DEF WriteShort, Whole, files
<1>6. CASE SetKeyFails
  BY <1>6 DEF SetKeyFails, Whole, files
<1>7. CASE Flush
  BY <1>7 DEF Flush, Whole, files
<1>8. CASE FlushFails
  BY <1>8 DEF FlushFails, Whole, files
<1>9. CASE Rename
  BY <1>9 DEF Rename, Whole, Setting
<1>10. CASE RenameFails
  BY <1>10 DEF RenameFails, Whole, files
<1>11. CASE FactoryReset
  <2>1. user' \in File /\ \A s \in Sections \ half : Even(s, user'.tree)
    BY <1>11, NoFileFacts, ConfigAssumption DEF FactoryReset, Whole, TypeOK, Even,
       Defaults
  <2>2. \A s \in Sections \ half : Even(s, tree')
    BY <1>11, <2>1, LoadedFacts, ConfigAssumption DEF FactoryReset
  <2>3. QED
    BY <1>11, <2>1, <2>2 DEF FactoryReset, Whole
<1>12. CASE Kill
  BY <1>12 DEF Kill, Whole, files
<1>13. CASE Commit
  BY <1>13 DEF Commit, Whole, files
<1>14. CASE PowerCut
  BY <1>14, CutFacts DEF PowerCut, Whole, TypeOK
<1>15. CASE \E s \in Sections : Request(s)
  BY <1>15 DEF Request, Whole, files
<1>16. CASE \E k \in Keys : SetKey(k)
  <2>. SUFFICES ASSUME NEW s \in Sections \ half
                PROVE  Even(s, tree') \/ s = section
    BY <1>16 DEF SetKey, Whole, files
  <2>1. PICK k \in Keys : SetKey(k)
    BY <1>16
  <2>2. CASE s # section
    <3>1. k \notin s
      BY <2>1, <2>2, ConfigAssumption DEF SetKey, Setting
    <3>2. \A l \in s : tree'[l] = tree[l]
      BY <2>1, <3>1, ConfigAssumption DEF SetKey, TypeOK
    <3>3. QED
      BY <2>1, <2>2, <3>2 DEF SetKey, Whole, Even
  <2>3. QED
    BY <2>2
<1>17. CASE UNCHANGED vars
  BY <1>17 DEF vars, Whole, files
<1>18. QED
  BY <1>1, <1>2, <1>3, <1>4, <1>5, <1>6, <1>7, <1>8, <1>9, <1>10, <1>11,
     <1>12, <1>13, <1>14, <1>15, <1>16, <1>17 DEF Next

(* What has been accepted stays, action by action.                         *)
LEMMA KeptStep ==
  TypeOK /\ FilesGood /\ Setting /\ Kept /\ [Next]_vars => Kept'
<1>. SUFFICES ASSUME TypeOK, FilesGood, Setting, Kept, [Next]_vars
              PROVE  Kept'
  OBVIOUS
<1>1. CASE Boot
  BY <1>1, LoadedFacts, ConfigAssumption DEF Boot, Kept, TypeOK, files
<1>2. CASE OpenTmp
  BY <1>2 DEF OpenTmp, Kept, files
<1>3. CASE OpenTmpFails
  BY <1>3 DEF OpenTmpFails, Kept, files
<1>4. CASE Write
  BY <1>4 DEF Write, Kept, files
<1>5. CASE WriteShort
  BY <1>5 DEF WriteShort, Kept, files
<1>6. CASE SetKeyFails
  BY <1>6 DEF SetKeyFails, Kept, files
<1>7. CASE Flush
  BY <1>7 DEF Flush, Kept, files
<1>8. CASE FlushFails
  BY <1>8 DEF FlushFails, Kept, files
<1>9. CASE Rename
  <2>1. CASE tmp.failed
    BY <1>9, <2>1, ConfigAssumption DEF Rename, Kept, NothingAccepted, TypeOK
  <2>2. CASE ~tmp.failed
    <3>1. tmp.kind = "whole" /\ tmp.tree = tree
      BY <1>9, <2>2 DEF Rename, FilesGood, Setting
    <3>2. \A k \in section : tree[k] = number
      BY <1>9 DEF Rename, Setting
    <3>3. \A s \in Sections : accepted'[s] =
                               IF s = section THEN number ELSE accepted[s]
      BY <1>9, <2>2 DEF Rename, TypeOK
    <3>4. \A s \in Sections : s \subseteq Keys /\ s \subseteq DOMAIN tree
      BY ConfigAssumption DEF TypeOK
    <3>5. number \in Nat /\ \A k \in Keys : tree[k] \in Nat
      BY ConfigAssumption DEF TypeOK
    <3>6. user' = tmp /\ UNCHANGED <<tree, number>> /\ pc # "down"
      BY <1>9 DEF Rename
    <3>7. QED
      BY <3>1, <3>2, <3>3, <3>4, <3>5, <3>6 DEF Kept
  <2>3. QED
    BY <2>1, <2>2
<1>10. CASE RenameFails
  BY <1>10 DEF RenameFails, Kept, files
<1>11. CASE FactoryReset
  <2>1. CASE user' = NoFile
    BY <1>11, <2>1, ConfigAssumption DEF FactoryReset, Kept, NothingAccepted, TypeOK
  <2>2. CASE user' # NoFile
    <3>1. UNCHANGED <<user, number, accepted>> /\ tree' = Loaded(user)
      BY <1>11, <2>2 DEF FactoryReset
    <3>2. QED
      BY <3>1, LoadedFacts, ConfigAssumption DEF Kept, TypeOK
  <2>3. QED
    BY <2>1, <2>2
<1>12. CASE Kill
  BY <1>12 DEF Kill, Kept, files
<1>13. CASE Commit
  BY <1>13 DEF Commit, Kept, files
<1>14. CASE PowerCut
  BY <1>14, ConfigAssumption DEF PowerCut, Kept, NothingAccepted, TypeOK
<1>15. CASE \E s \in Sections : Request(s)
  <2>1. PICK s \in Sections : Request(s)
    BY <1>15
  <2>2. /\ number \in Nat /\ number' = number + 1 /\ pc = "idle"
        /\ UNCHANGED <<tree, files, accepted>>
    BY <2>1, ConfigAssumption DEF Request, TypeOK
  <2>3. \A t \in Sections : accepted[t] \in Nat
    BY ConfigAssumption DEF TypeOK
  <2>4. QED
    BY <2>2, <2>3 DEF Kept, files
<1>16. CASE \E k \in Keys : SetKey(k)
  <2>1. PICK k \in Keys : SetKey(k)
    BY <1>16
  <2>2. \A l \in Keys : tree'[l] = IF l = k THEN number ELSE tree[l]
    BY <2>1 DEF SetKey, TypeOK
  <2>3. pc # "down" /\ UNCHANGED <<user, number, accepted>>
    BY <2>1 DEF SetKey, files
  <2>4. QED
    BY <2>2, <2>3, ConfigAssumption DEF Kept
<1>17. CASE UNCHANGED vars
  BY <1>17 DEF vars, Kept, files
<1>18. QED
  BY <1>1, <1>2, <1>3, <1>4, <1>5, <1>6, <1>7, <1>8, <1>9, <1>10, <1>11,
     <1>12, <1>13, <1>14, <1>15, <1>16, <1>17 DEF Next

-----------------------------------------------------------------------------
LEMMA InductiveInvariant == Spec => []IInv
<1>1. IInv /\ [Next]_vars => IInv'
  BY TypesStep, FilesStep, SettingStep, WholeStep, KeptStep DEF IInv
<1>2. QED
  BY Initially, <1>1, PTL DEF Spec

(* Whatever is killed or cut off, a file config_save has flushed is read   *)
(* as a whole or not at all.                                               *)
THEOREM SaveIsAtomicIfFlushed == Spec => []AtomicIfFlushed
<1>1. IInv => AtomicIfFlushed
  BY DEF IInv, FilesGood, Readable, AtomicIfFlushed
<1>2. QED
  BY <1>1, InductiveInvariant, PTL

(* The file never holds a section of which one key is newer than another.  *)
THEOREM SectionsAlwaysWhole == Spec => []SectionsWhole
<1>1. IInv => SectionsWhole
  BY DEF IInv, Whole, Even, SectionsWhole
<1>2. QED
  BY <1>1, InductiveInvariant, PTL

(* Settings a handler has confirmed are on file.                           *)
THEOREM AcceptedIsAlwaysSaved == Spec => []AcceptedIsSaved
<1>1. IInv => AcceptedIsSaved
  BY DEF IInv, Kept, AcceptedIsSaved
<1>2. QED
  BY <1>1, InductiveInvariant, PTL
=============================================================================
