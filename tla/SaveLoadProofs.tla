--------------------------- MODULE SaveLoadProofs ---------------------------
(***************************************************************************)
(* Proofs about SaveLoad: no crash, failed call or retention loses a       *)
(* commit, the manager's latest snapshot can be read, and a load that      *)
(* finished is complete.                                                   *)
(***************************************************************************)
EXTENDS SaveLoad, WellOrder, SequenceTheorems

-----------------------------------------------------------------------------
(* The inductive invariant of the save system                              *)

SaveTypeInv ==
  /\ committed \in 0 .. MaxTick /\ up \in BOOLEAN
  /\ writer \in {"checkpoint", "manager"}
  /\ entries \in Nat /\ dir \in BOOLEAN
  /\ file \in [Gens -> FileState] /\ temp \in [Gens -> FileState]
  /\ jfile \subseteq Gens /\ call \in Call

\* The disk holds nothing of a tick that was never committed.
DiskInv ==
  /\ \A t \in jfile : t <= committed
  /\ \A g \in Listed : g <= committed

\* What the step of a call knows about the files it is working on.
CallInv ==
  /\ ~up => call = Idle
  /\ call.kind = "append" => call.step = "retain" /\ committed < MaxTick
  /\ call.kind = "checkpoint" => writer = "checkpoint" /\ committed \in Gens
  /\ call.kind = "manager" => writer = "manager" /\ committed \in Gens
  /\ call.step = "write" => call.kind \in {"checkpoint", "manager"}
  /\ call.step = "rename" =>
       call.kind = "manager" /\ temp[committed] = "whole"
  /\ call.step = "retain" => call.kind \in {"append", "checkpoint", "manager"}
  /\ call.step = "truncate" => call.kind = "checkpoint"
  /\ call.kind = "checkpoint" /\ call.step \in {"retain", "truncate"} =>
       file[committed] = "whole"

\* Unreadable files: none through the manager, at most MaxTorn otherwise.
TornInv ==
  /\ writer = "manager" => Torn = {}
  /\ Cardinality(Torn) <= MaxTorn

\* The retention keeps more files than can be unreadable.
Enough == MaxTorn < MaxSnapshots \/ writer = "manager"

\* A file that a retention is about to delete is older than the last commit
\* and, when it keeps enough files, than a complete snapshot.
VictimInv ==
  call.step = "retain" =>
    \A g \in call.victims :
      /\ g < committed
      /\ Enough => \E h \in Whole : h > g

\* Every commit is in a complete snapshot or in the journal file.
CoveredInv ==
  Enough => \A t \in 1 .. committed : t \in jfile \/ \E h \in Whole : t <= h

SaveInv ==
  SaveTypeInv /\ DiskInv /\ CallInv /\ TornInv /\ VictimInv /\ CoveredInv

-----------------------------------------------------------------------------
(* Lemmas about the retention                                              *)

\* There are finitely many generations.
LEMMA GensFinite == IsFiniteSet(Gens)
<1>1. 1 \in Int /\ MaxTick \in Int
  BY SaveAssumption
<1> QED
  BY <1>1, FS_Interval DEF Gens

\* Newer than a victim of the retention are MaxSnapshots files, so that fewer
\* unreadable ones leave another.
LEMMA VictimHasNewer ==
  ASSUME NEW files \in SUBSET Gens, NEW g \in Victims(files),
         NEW bad \in SUBSET Gens, Cardinality(bad) < MaxSnapshots
  PROVE  g \in files /\ \E h \in files \ bad : h > g
<1> DEFINE newer == {h \in files : h > g}
<1>1. g \in files /\ Cardinality(newer) >= MaxSnapshots
  BY DEF Victims
<1>2. IsFiniteSet(bad)
  BY GensFinite, FS_Subset
<1>3. SUFFICES ASSUME newer \subseteq bad PROVE FALSE
  BY <1>1
<1>4. newer \in SUBSET bad
  BY <1>3
<1>5. Cardinality(newer) <= Cardinality(bad) /\ IsFiniteSet(newer)
  BY <1>2, <1>4, FS_Subset
<1>6. Cardinality(newer) \in Nat /\ Cardinality(bad) \in Nat
  BY <1>2, <1>5, FS_CardinalityType
<1> HIDE DEF newer
<1> QED
  BY <1>1, <1>5, <1>6, SaveAssumption

\* A victim is older than some listed file whatever is unreadable.
LEMMA VictimIsOlder ==
  ASSUME NEW files \in SUBSET Gens, NEW g \in Victims(files)
  PROVE  g \in files /\ \E h \in files : h > g
<1>1. Cardinality({}) < MaxSnapshots
  BY FS_EmptySet, SaveAssumption
<1>2. {} \in SUBSET Gens
  OBVIOUS
<1> QED
  BY <1>1, <1>2, VictimHasNewer

\* Sets of files are finite: the cardinality of a smaller one is smaller.
LEMMA TornCount ==
  ASSUME NEW S \in SUBSET Gens, NEW T \in SUBSET S
  PROVE  /\ Cardinality(S) \in Nat /\ Cardinality(T) \in Nat
         /\ Cardinality(T) <= Cardinality(S)
<1>1. IsFiniteSet(S)
  BY GensFinite, FS_Subset
<1>2. IsFiniteSet(T) /\ Cardinality(T) <= Cardinality(S)
  BY <1>1, FS_Subset
<1> QED
  BY <1>1, <1>2, FS_CardinalityType

\* A generation added to a set of files counts one.
LEMMA TornAdd ==
  ASSUME NEW S \in SUBSET Gens, NEW g \in Gens
  PROVE  Cardinality(S \cup {g}) <= Cardinality(S) + 1
<1>1. IsFiniteSet(S)
  BY GensFinite, FS_Subset
<1>2. Cardinality(S) \in Nat
  BY <1>1, FS_CardinalityType
<1>3. Cardinality(S \cup {g}) =
        IF g \in S THEN Cardinality(S) ELSE Cardinality(S) + 1
  BY <1>1, FS_AddElement
<1> QED
  BY <1>2, <1>3

\* Latest is 0 only when no snapshot is listed.
LEMMA NothingListed ==
  ASSUME Latest = 0
  PROVE  Listed = {}
<1>1. SUFFICES ASSUME Listed # {} PROVE FALSE
  OBVIOUS
<1>2. Listed \in SUBSET (0 .. MaxTick) /\ MaxTick \in Nat
  BY SaveAssumption DEF Listed, Gens
<1>3. Latest \in Listed
  BY <1>1, <1>2, MaxIsGreatest DEF Latest
<1> QED
  BY <1>3, SaveAssumption DEF Listed, Gens

\* Only a step of the save system or the start of a loaded game changes the
\* state of the save system.
LEMMA SaveSteps ==
  ASSUME [Next]_vars
  PROVE  SaveStep \/ Resume \/ UNCHANGED saveVars
  BY DEF Next, Play, StartLoad, Load, Skip, StartSimulation, vars

-----------------------------------------------------------------------------
(* Each conjunct is preserved                                              *)

\* An application that resumes has committed up to the newest of what the loaded
\* snapshot and the journal file hold, and the snapshot was whole.
LEMMA ResumeCommit ==
  ASSUME SaveTypeInv, DiskInv, Resume
  PROVE  /\ committed' \in {Latest} \cup jfile
         /\ \A t \in {Latest} \cup jfile : t <= committed'
         /\ Latest \in Gens /\ file[Latest] = "whole"
         /\ \A g \in Listed : g <= Latest
<1>1. Listed \in SUBSET (0 .. MaxTick) /\ MaxTick \in Nat
  BY SaveAssumption DEF Listed, Gens
<1>2. Listed # {} /\ Latest = Max(Listed) /\ file[Latest] = "whole"
  BY DEF Resume, LatestReadable, Latest
<1>3. Latest \in Listed /\ \A g \in Listed : g <= Latest
  BY <1>1, <1>2, MaxIsGreatest
<1>4. Latest \in Gens
  BY <1>3 DEF Listed
<1> DEFINE S == {Latest} \cup jfile
<1>5. S \in SUBSET (0 .. MaxTick) /\ S # {}
  BY <1>4, SaveAssumption DEF SaveTypeInv, Gens
<1>6. Max(S) \in S /\ \A y \in S : Max(S) >= y
  BY <1>1, <1>5, MaxIsGreatest
<1>7. committed' = Max(S)
  BY DEF Resume
<1>8. \A t \in S : t \in Nat
  BY <1>5
<1> HIDE DEF S
<1>9. committed' \in S /\ \A t \in S : t <= committed'
  BY <1>6, <1>7, <1>8
<1> QED
  BY <1>2, <1>3, <1>4, <1>9 DEF S

\* Every step keeps the types of the files and of the call.
LEMMA SaveTypeStep ==
  ASSUME SaveTypeInv, DiskInv, CallInv,
         SaveStep \/ Resume \/ UNCHANGED saveVars
  PROVE  SaveTypeInv'
<1>1. CASE AppendRecord
  BY <1>1, SaveAssumption
     DEF SaveTypeInv, CallInv, Call, Idle, FileState, Gens, Victims, Listed,
         AppendRecord, Append1, Committed, saveVars, memVars, diskVars
<1>2. CASE AppendAtThreshold
  BY <1>2, SaveAssumption
     DEF SaveTypeInv, CallInv, Call, Idle, FileState, Gens, Victims, Listed,
         AppendAtThreshold, Append1, saveVars, memVars, diskVars
<1>3. CASE AppendFails
  BY <1>3, SaveAssumption
     DEF SaveTypeInv, CallInv, Call, Idle, FileState, Gens, Victims, Listed,
         AppendFails, Append1, saveVars, memVars, diskVars
<1>4. CASE BeginCheckpoint
  BY <1>4, SaveAssumption
     DEF SaveTypeInv, CallInv, Call, Idle, FileState, Gens, Victims, Listed,
         BeginCheckpoint, saveVars, memVars, diskVars
<1>5. CASE BeginSave
  BY <1>5, SaveAssumption
     DEF SaveTypeInv, CallInv, Call, Idle, FileState, Gens, Victims, Listed,
         BeginSave, saveVars, memVars, diskVars
<1>6. CASE FinishWrite
  <2>1. Victims(Listed) \in SUBSET Gens
    BY DEF Victims, Listed
  <2>2. call' \in Call
    BY <1>6, <2>1 DEF FinishWrite, SaveTypeInv, Call
  <2>3. /\ file' \in [Gens -> FileState]
        /\ temp' \in [Gens -> FileState]
    BY <1>6 DEF FinishWrite, SaveTypeInv, FileState
  <2> QED
    BY <1>6, <2>2, <2>3 DEF FinishWrite, SaveTypeInv, memVars
<1>7. CASE Rename
  BY <1>7, SaveAssumption
     DEF SaveTypeInv, CallInv, Call, Idle, FileState, Gens, Victims, Listed,
         Rename, saveVars, memVars, diskVars
<1>8. CASE DeleteVictim
  BY <1>8, SaveAssumption
     DEF SaveTypeInv, CallInv, Call, Idle, FileState, Gens, Victims, Listed,
         DeleteVictim, saveVars, memVars, diskVars
<1>9. CASE RetentionDone
  BY <1>9, SaveAssumption
     DEF SaveTypeInv, CallInv, Call, Idle, FileState, Gens, Victims, Listed,
         RetentionDone, Committed, saveVars, memVars, diskVars
<1>10. CASE TruncateJournal
  BY <1>10, SaveAssumption
     DEF SaveTypeInv, CallInv, Call, Idle, FileState, Gens, Victims, Listed,
         TruncateJournal, saveVars, memVars, diskVars
<1>11. CASE CallFails
  BY <1>11, SaveAssumption
     DEF SaveTypeInv, CallInv, Call, Idle, FileState, Gens, Victims, Listed,
         CallFails, saveVars, memVars, diskVars
<1>12. CASE \E t \in Gens : TruncateBefore(t)
  BY <1>12, SaveAssumption
     DEF SaveTypeInv, CallInv, Call, Idle, FileState, Gens, Victims, Listed,
         TruncateBefore, saveVars, memVars, diskVars
<1>13. CASE Crash
  BY <1>13, SaveAssumption
     DEF SaveTypeInv, CallInv, Call, Idle, FileState, Gens, Victims, Listed,
         Crash, saveVars, memVars, diskVars
<1>14. CASE NewGame
  BY <1>14, SaveAssumption
     DEF SaveTypeInv, CallInv, Call, Idle, FileState, Gens, Victims, Listed,
         NewGame, saveVars, memVars, diskVars
<1>15. CASE \E g \in Gens : DeleteTorn(g)
  BY <1>15, SaveAssumption
     DEF SaveTypeInv, CallInv, Call, Idle, FileState, Gens, Victims, Listed,
         DeleteTorn, saveVars, memVars, diskVars
<1>16. CASE Resume
  <2>1. committed' \in Gens
    BY <1>16, ResumeCommit DEF SaveTypeInv
  <2>2. committed' \in 0 .. MaxTick
    BY <2>1 DEF Gens
  <2> QED
    BY <1>16, <2>2 DEF SaveTypeInv, Resume, diskVars
<1>17. CASE UNCHANGED saveVars
  BY <1>17, SaveAssumption
     DEF SaveTypeInv, CallInv, Call, Idle, FileState, Gens, Victims, Listed,
         saveVars, memVars, diskVars
<1> QED
  BY <1>1, <1>2, <1>3, <1>4, <1>5, <1>6, <1>7, <1>8, <1>9, <1>10, <1>11,
     <1>12, <1>13, <1>14, <1>15, <1>16, <1>17
     DEF SaveStep

\* No step puts anything of a later tick than the last commit on the disk.
LEMMA DiskStep ==
  ASSUME SaveTypeInv, DiskInv, CallInv,
         SaveStep \/ Resume \/ UNCHANGED saveVars
  PROVE  DiskInv'
<1>1. CASE AppendRecord
  BY <1>1, SaveAssumption
     DEF SaveTypeInv, DiskInv, CallInv, Call, Idle, FileState, Gens, Victims,
         Listed, AppendRecord, Append1, Committed, saveVars, memVars, diskVars
<1>2. CASE AppendAtThreshold
  BY <1>2, SaveAssumption
     DEF SaveTypeInv, DiskInv, CallInv, Call, Idle, FileState, Gens, Victims,
         Listed, AppendAtThreshold, Append1, saveVars, memVars, diskVars
<1>3. CASE AppendFails
  BY <1>3, SaveAssumption
     DEF SaveTypeInv, DiskInv, CallInv, Call, Idle, FileState, Gens, Victims,
         Listed, AppendFails, Append1, saveVars, memVars, diskVars
<1>4. CASE BeginCheckpoint
  BY <1>4, SaveAssumption
     DEF SaveTypeInv, DiskInv, CallInv, Call, Idle, FileState, Gens, Victims,
         Listed, BeginCheckpoint, saveVars, memVars, diskVars
<1>5. CASE BeginSave
  BY <1>5, SaveAssumption
     DEF SaveTypeInv, DiskInv, CallInv, Call, Idle, FileState, Gens, Victims,
         Listed, BeginSave, saveVars, memVars, diskVars
<1>6. CASE FinishWrite
  BY <1>6, SaveAssumption
     DEF SaveTypeInv, DiskInv, CallInv, Call, Idle, FileState, Gens, Victims,
         Listed, FinishWrite, saveVars, memVars, diskVars
<1>7. CASE Rename
  BY <1>7, SaveAssumption
     DEF SaveTypeInv, DiskInv, CallInv, Call, Idle, FileState, Gens, Victims,
         Listed, Rename, saveVars, memVars, diskVars
<1>8. CASE DeleteVictim
  BY <1>8, SaveAssumption
     DEF SaveTypeInv, DiskInv, CallInv, Call, Idle, FileState, Gens, Victims,
         Listed, DeleteVictim, saveVars, memVars, diskVars
<1>9. CASE RetentionDone
  BY <1>9, SaveAssumption
     DEF SaveTypeInv, DiskInv, CallInv, Call, Idle, FileState, Gens, Victims,
         Listed, RetentionDone, Committed, saveVars, memVars, diskVars
<1>10. CASE TruncateJournal
  BY <1>10, SaveAssumption
     DEF SaveTypeInv, DiskInv, CallInv, Call, Idle, FileState, Gens, Victims,
         Listed, TruncateJournal, saveVars, memVars, diskVars
<1>11. CASE CallFails
  BY <1>11, SaveAssumption
     DEF SaveTypeInv, DiskInv, CallInv, Call, Idle, FileState, Gens, Victims,
         Listed, CallFails, saveVars, memVars, diskVars
<1>12. CASE \E t \in Gens : TruncateBefore(t)
  BY <1>12, SaveAssumption
     DEF SaveTypeInv, DiskInv, CallInv, Call, Idle, FileState, Gens, Victims,
         Listed, TruncateBefore, saveVars, memVars, diskVars
<1>13. CASE Crash
  BY <1>13, SaveAssumption
     DEF SaveTypeInv, DiskInv, CallInv, Call, Idle, FileState, Gens, Victims,
         Listed, Crash, saveVars, memVars, diskVars
<1>14. CASE NewGame
  <2>1. Listed = {}
    BY <1>14, NothingListed DEF NewGame
  <2> QED
    BY <1>14, <2>1 DEF DiskInv, NewGame, Listed
<1>15. CASE \E g \in Gens : DeleteTorn(g)
  BY <1>15, SaveAssumption
     DEF SaveTypeInv, DiskInv, CallInv, Call, Idle, FileState, Gens, Victims,
         Listed, DeleteTorn, saveVars, memVars, diskVars
<1>16. CASE Resume
  <2>1. /\ \A t \in jfile : t <= committed'
        /\ \A g \in Listed : g <= committed'
    <3>1. committed' \in Gens /\ Latest \in Gens /\ Latest <= committed'
      BY <1>16, ResumeCommit DEF SaveTypeInv
    <3>2. \A a, b, c \in Gens : a <= b /\ b <= c => a <= c
      BY SaveAssumption DEF Gens
    <3>3. Listed \subseteq Gens
      BY DEF Listed
    <3> QED
      BY <1>16, ResumeCommit, <3>1, <3>2, <3>3
  <2> QED
    BY <1>16, <2>1 DEF DiskInv, Resume, diskVars, Listed
<1>17. CASE UNCHANGED saveVars
  BY <1>17, SaveAssumption
     DEF SaveTypeInv, DiskInv, CallInv, Call, Idle, FileState, Gens, Victims,
         Listed, saveVars, memVars, diskVars
<1> QED
  BY <1>1, <1>2, <1>3, <1>4, <1>5, <1>6, <1>7, <1>8, <1>9, <1>10, <1>11,
     <1>12, <1>13, <1>14, <1>15, <1>16, <1>17
     DEF SaveStep

\* Every step leaves a call that knows the files it works on.
LEMMA CallStep ==
  ASSUME SaveTypeInv, DiskInv, CallInv, VictimInv,
         SaveStep \/ Resume \/ UNCHANGED saveVars
  PROVE  CallInv'
<1>1. CASE AppendRecord
  BY <1>1, SaveAssumption
     DEF SaveTypeInv, DiskInv, CallInv, VictimInv, Call, Idle, FileState, Gens,
         AppendRecord, Append1, Committed, saveVars, memVars, diskVars
<1>2. CASE AppendAtThreshold
  BY <1>2, SaveAssumption
     DEF SaveTypeInv, DiskInv, CallInv, VictimInv, Call, Idle, FileState, Gens,
         AppendAtThreshold, Append1, saveVars, memVars, diskVars
<1>3. CASE AppendFails
  BY <1>3, SaveAssumption
     DEF SaveTypeInv, DiskInv, CallInv, VictimInv, Call, Idle, FileState, Gens,
         AppendFails, Append1, saveVars, memVars, diskVars
<1>4. CASE BeginCheckpoint
  BY <1>4, SaveAssumption
     DEF SaveTypeInv, DiskInv, CallInv, VictimInv, Call, Idle, FileState, Gens,
         BeginCheckpoint, saveVars, memVars, diskVars
<1>5. CASE BeginSave
  BY <1>5, SaveAssumption
     DEF SaveTypeInv, DiskInv, CallInv, VictimInv, Call, Idle, FileState, Gens,
         BeginSave, saveVars, memVars, diskVars
<1>6. CASE FinishWrite
  <2>1. up /\ call.kind \in {"checkpoint", "manager"} /\ committed \in Gens
    BY <1>6 DEF FinishWrite, CallInv, SaveTypeInv, Idle
  <2>2. CASE call.kind = "checkpoint"
    BY <1>6, <2>1, <2>2 DEF FinishWrite, CallInv, SaveTypeInv, Call
  <2>3. CASE call.kind = "manager"
    BY <1>6, <2>1, <2>3 DEF FinishWrite, CallInv, SaveTypeInv, Call
  <2> QED
    BY <2>1, <2>2, <2>3
<1>7. CASE Rename
  BY <1>7, SaveAssumption
     DEF SaveTypeInv, DiskInv, CallInv, VictimInv, Call, Idle, FileState, Gens,
         Rename, saveVars, memVars, diskVars
<1>8. CASE DeleteVictim
  <2> DEFINE g == Min(call.victims)
  <2>1. call.victims \in SUBSET Gens /\ call.victims # {}
    BY <1>8 DEF DeleteVictim, SaveTypeInv, Call
  <2>2. g \in call.victims
    BY <2>1, MinIsLeast, SaveAssumption DEF Gens
  <2>3. g # committed
    <3>1. g < committed /\ g \in Nat /\ committed \in Nat
      BY <1>8, <2>1, <2>2, SaveAssumption
         DEF VictimInv, DeleteVictim, SaveTypeInv, Gens
    <3> QED
      BY <3>1
  <2>4. /\ file' = [file EXCEPT ![g] = "none"]
        /\ call' = [call EXCEPT !.victims = @ \ {g}]
        /\ UNCHANGED <<committed, up, writer, temp>>
    BY <1>8 DEF DeleteVictim
  <2> HIDE DEF g
  <2> QED
    BY <1>8, <2>3, <2>4
       DEF DeleteVictim, CallInv, SaveTypeInv, Call, Idle
<1>9. CASE RetentionDone
  BY <1>9, SaveAssumption
     DEF SaveTypeInv, DiskInv, CallInv, VictimInv, Call, Idle, FileState, Gens,
         RetentionDone, Committed, saveVars, memVars, diskVars
<1>10. CASE TruncateJournal
  BY <1>10, SaveAssumption
     DEF SaveTypeInv, DiskInv, CallInv, VictimInv, Call, Idle, FileState, Gens,
         TruncateJournal, saveVars, memVars, diskVars
<1>11. CASE CallFails
  BY <1>11, SaveAssumption
     DEF SaveTypeInv, DiskInv, CallInv, VictimInv, Call, Idle, FileState, Gens,
         CallFails, saveVars, memVars, diskVars
<1>12. CASE \E t \in Gens : TruncateBefore(t)
  BY <1>12, SaveAssumption
     DEF SaveTypeInv, DiskInv, CallInv, VictimInv, Call, Idle, FileState, Gens,
         TruncateBefore, saveVars, memVars, diskVars
<1>13. CASE Crash
  BY <1>13, SaveAssumption
     DEF SaveTypeInv, DiskInv, CallInv, VictimInv, Call, Idle, FileState, Gens,
         Crash, saveVars, memVars, diskVars
<1>14. CASE NewGame
  BY <1>14, SaveAssumption
     DEF SaveTypeInv, DiskInv, CallInv, VictimInv, Call, Idle, FileState, Gens,
         NewGame, saveVars, memVars, diskVars
<1>15. CASE \E g \in Gens : DeleteTorn(g)
  BY <1>15, SaveAssumption
     DEF SaveTypeInv, DiskInv, CallInv, VictimInv, Call, Idle, FileState, Gens,
         DeleteTorn, saveVars, memVars, diskVars
<1>16. CASE Resume
  <2>1. call' = Idle /\ up'
    BY <1>16 DEF Resume, CallInv
  <2> QED
    BY <2>1 DEF CallInv, Idle
<1>17. CASE UNCHANGED saveVars
  BY <1>17, SaveAssumption
     DEF SaveTypeInv, DiskInv, CallInv, VictimInv, Call, Idle, FileState, Gens,
         saveVars, memVars, diskVars
<1> QED
  BY <1>1, <1>2, <1>3, <1>4, <1>5, <1>6, <1>7, <1>8, <1>9, <1>10, <1>11,
     <1>12, <1>13, <1>14, <1>15, <1>16, <1>17
     DEF SaveStep

\* Only these actions touch a snapshot file.
LEMMA FileUnchanged ==
  ASSUME SaveStep \/ Resume \/ UNCHANGED saveVars,
         ~BeginCheckpoint, ~FinishWrite, ~Rename, ~DeleteVictim,
         ~(\E g \in Gens : DeleteTorn(g))
  PROVE  file' = file
  BY DEF SaveStep, AppendRecord, AppendAtThreshold, AppendFails, Append1,
         BeginSave, RetentionDone, TruncateJournal, CallFails, TruncateBefore,
         Crash, NewGame, Resume, saveVars, diskVars

\* How an action changes the snapshot files: one becomes unreadable, complete
\* or disappears.
LEMMA FileChange ==
  ASSUME SaveTypeInv, CallInv
  PROVE  /\ BeginCheckpoint =>
              /\ committed \in Gens /\ file[committed] = "none"
              /\ file' = [file EXCEPT ![committed] = "torn"]
         /\ FinishWrite =>
              \/ file' = file
              \/ /\ committed \in Gens
                 /\ file' = [file EXCEPT ![committed] = "whole"]
         /\ Rename =>
              /\ committed \in Gens
              /\ file' = [file EXCEPT ![committed] = "whole"]
         /\ DeleteVictim =>
              /\ Min(call.victims) \in call.victims
              /\ Min(call.victims) \in Gens
              /\ \A g \in call.victims : Min(call.victims) <= g
              /\ file' = [file EXCEPT ![Min(call.victims)] = "none"]
<1>1. BeginCheckpoint =>
        /\ committed \in Gens /\ file[committed] = "none"
        /\ file' = [file EXCEPT ![committed] = "torn"]
  BY DEF BeginCheckpoint
<1>2. FinishWrite => \/ file' = file
                     \/ /\ committed \in Gens
                        /\ file' = [file EXCEPT ![committed] = "whole"]
  BY DEF FinishWrite, CallInv
<1>3. Rename => /\ committed \in Gens
                /\ file' = [file EXCEPT ![committed] = "whole"]
  BY DEF Rename, CallInv
<1>4. ASSUME DeleteVictim
      PROVE  /\ Min(call.victims) \in call.victims
             /\ Min(call.victims) \in Gens
             /\ \A g \in call.victims : Min(call.victims) <= g
             /\ file' = [file EXCEPT ![Min(call.victims)] = "none"]
  <2>1. call.victims \in SUBSET Gens /\ call.victims # {}
    BY <1>4 DEF DeleteVictim, SaveTypeInv, Call
  <2>2. call.victims \in SUBSET Nat
    BY <2>1, SaveAssumption DEF Gens
  <2>3. /\ Min(call.victims) \in call.victims
        /\ \A g \in call.victims : Min(call.victims) <= g
    BY <2>1, <2>2, MinIsLeast
  <2> QED
    BY <1>4, <2>1, <2>3 DEF DeleteVictim
<1> QED
  BY <1>1, <1>2, <1>3, <1>4

\* No step makes more files unreadable than the bound, or any at all through
\* the manager.
LEMMA TornStep ==
  ASSUME SaveTypeInv, CallInv, TornInv,
         SaveStep \/ Resume \/ UNCHANGED saveVars
  PROVE  TornInv'
<1>0. writer' = writer /\ Torn \in SUBSET Gens /\ Cardinality(Torn) \in Nat
  <2>1. writer' = writer
    BY DEF SaveStep, AppendRecord, AppendAtThreshold, AppendFails, Append1,
           BeginCheckpoint, BeginSave, FinishWrite, Rename, DeleteVictim,
           RetentionDone, TruncateJournal, CallFails, TruncateBefore, Crash,
           NewGame, DeleteTorn, Resume, saveVars
  <2>2. Torn \in SUBSET Gens
    BY DEF Torn
  <2> QED
    BY <2>1, <2>2, TornCount
<1>1. ASSUME Torn' \subseteq Torn PROVE TornInv'
  <2>1. Cardinality(Torn') <= Cardinality(Torn) /\ Cardinality(Torn') \in Nat
    BY <1>0, <1>1, TornCount
  <2> QED
    BY <1>0, <1>1, <2>1, SaveAssumption DEF TornInv
<1>2. CASE BeginCheckpoint
  <2>1. Torn' = Torn \cup {committed} /\ committed \in Gens
    BY <1>2, FileChange DEF Torn, SaveTypeInv
  <2>2. Cardinality(Torn') <= Cardinality(Torn) + 1
    BY <1>0, <2>1, TornAdd
  <2>3. Cardinality(Torn') \in Nat
    BY <1>0, <2>1, TornCount
  <2>4. Cardinality(Torn) < MaxTorn /\ writer = "checkpoint"
    BY <1>2 DEF BeginCheckpoint
  <2> QED
    BY <1>0, <2>2, <2>3, <2>4, SaveAssumption DEF TornInv
<1>3. CASE FinishWrite
  <2>1. Torn' \subseteq Torn
    BY <1>3, FileChange DEF Torn, SaveTypeInv
  <2> QED
    BY <1>1, <2>1
<1>4. CASE Rename
  <2>1. Torn' \subseteq Torn
    BY <1>4, FileChange DEF Torn, SaveTypeInv
  <2> QED
    BY <1>1, <2>1
<1>5. CASE DeleteVictim
  <2>1. Torn' \subseteq Torn
    BY <1>5, FileChange DEF Torn, SaveTypeInv
  <2> QED
    BY <1>1, <2>1
<1>6. CASE \E g \in Gens : DeleteTorn(g)
  <2>1. Torn' \subseteq Torn
    BY <1>6 DEF DeleteTorn, Torn, SaveTypeInv
  <2> QED
    BY <1>1, <2>1
<1>7. CASE file' = file
  <2>1. Torn' \subseteq Torn
    BY <1>7 DEF Torn
  <2> QED
    BY <1>1, <2>1
<1> QED
  BY <1>2, <1>3, <1>4, <1>5, <1>6, <1>7, FileUnchanged

\* When the retention keeps enough files, a complete snapshot only disappears
\* when there is a newer one.
LEMMA WholeKept ==
  ASSUME SaveTypeInv, CallInv, VictimInv, Enough,
         SaveStep \/ Resume \/ UNCHANGED saveVars
  PROVE  \A g \in Whole : \E h \in Whole' : g <= h
<1>0. \A g \in Gens : g <= g
  BY SaveAssumption DEF Gens
<1>1. ASSUME Whole \subseteq Whole'
      PROVE  \A g \in Whole : \E h \in Whole' : g <= h
  BY <1>0, <1>1 DEF Whole
<1>2. CASE BeginCheckpoint
  <2>1. Whole \subseteq Whole'
    BY <1>2, FileChange DEF Whole, SaveTypeInv
  <2> QED
    BY <1>1, <2>1
<1>3. CASE FinishWrite
  <2>1. Whole \subseteq Whole'
    BY <1>3, FileChange DEF Whole, SaveTypeInv
  <2> QED
    BY <1>1, <2>1
<1>4. CASE Rename
  <2>1. Whole \subseteq Whole'
    BY <1>4, FileChange DEF Whole, SaveTypeInv
  <2> QED
    BY <1>1, <2>1
<1>5. CASE DeleteVictim
  <2> DEFINE m == Min(call.victims)
  <2>1. /\ m \in call.victims /\ m \in Gens
        /\ file' = [file EXCEPT ![m] = "none"]
    BY <1>5, FileChange
  <2> HIDE DEF m
  <2>2. Whole' = Whole \ {m}
    BY <2>1 DEF Whole, SaveTypeInv
  <2>3. PICK h \in Whole : h > m
    BY <1>5, <2>1 DEF VictimInv, DeleteVictim
  <2>4. h \in Nat /\ m \in Nat /\ h # m /\ m <= h
    BY <2>1, <2>3, SaveAssumption DEF Whole, Gens
  <2>5. ASSUME NEW g \in Whole PROVE \E k \in Whole' : g <= k
    <3>1. CASE g = m
      BY <2>2, <2>4, <3>1
    <3>2. CASE g # m
      BY <1>0, <2>2, <3>2 DEF Whole
    <3> QED
      BY <3>1, <3>2
  <2> QED
    BY <2>5
<1>6. CASE \E g \in Gens : DeleteTorn(g)
  <2>1. Whole \subseteq Whole'
    BY <1>6 DEF DeleteTorn, Whole, SaveTypeInv
  <2> QED
    BY <1>1, <2>1
<1>7. CASE file' = file
  <2>1. Whole \subseteq Whole'
    BY <1>7 DEF Whole
  <2> QED
    BY <1>1, <2>1
<1> QED
  BY <1>2, <1>3, <1>4, <1>5, <1>6, <1>7, FileUnchanged

\* Every file a new retention picks is older than the last commit and, when
\* it keeps enough files, than one that is complete once the call goes on.
LEMMA PickedVictims ==
  ASSUME SaveTypeInv, TornInv,
         NEW files \in SUBSET Gens, NEW whole \in SUBSET Gens,
         files \subseteq Torn \cup whole,
         \A g \in files : g <= committed
  PROVE  \A g \in Victims(files) :
           /\ g < committed
           /\ Enough => \E h \in whole : h > g
<1> SUFFICES ASSUME NEW g \in Victims(files)
             PROVE  /\ g < committed
                    /\ Enough => \E h \in whole : h > g
  OBVIOUS
<1>1. g < committed
  <2>1. g \in files /\ \E h \in files : h > g
    BY VictimIsOlder
  <2> QED
    BY <2>1, SaveAssumption DEF SaveTypeInv, Gens
<1>2. ASSUME Enough PROVE \E h \in whole : h > g
  <2>1. Torn \in SUBSET Gens /\ Cardinality(Torn) \in Nat
    BY TornCount DEF Torn
  <2>2. Cardinality(Torn) < MaxSnapshots
    <3>1. CASE MaxTorn < MaxSnapshots
      BY <2>1, <3>1, SaveAssumption DEF TornInv
    <3>2. CASE writer = "manager"
      BY <3>2, FS_EmptySet, SaveAssumption DEF TornInv
    <3> QED
      BY <1>2, <3>1, <3>2 DEF Enough
  <2>3. \E h \in files \ Torn : h > g
    BY <2>1, <2>2, VictimHasNewer
  <2> QED
    BY <2>3
<1> QED
  BY <1>1, <1>2

\* Every step leaves a retention that deletes only what it may.
LEMMA VictimStep ==
  ASSUME SaveTypeInv, DiskInv, CallInv, TornInv, VictimInv,
         SaveStep \/ Resume \/ UNCHANGED saveVars
  PROVE  VictimInv'
<1>0. /\ Listed \in SUBSET Gens /\ Listed = Torn \cup Whole
      /\ Whole \in SUBSET Gens
  BY DEF Listed, Torn, Whole, SaveTypeInv, FileState
<1>1. CASE AppendAtThreshold
  <2>1. /\ call'.victims = Victims(Listed)
        /\ UNCHANGED <<committed, file, writer>>
    BY <1>1 DEF AppendAtThreshold, Append1
  <2>2. Whole' = Whole /\ Enough' = Enough
    BY <2>1 DEF Whole, Enough
  <2>3. \A g \in Victims(Listed) :
          /\ g < committed
          /\ Enough => \E h \in Whole : h > g
    BY <1>0, PickedVictims DEF DiskInv
  <2> QED
    BY <2>1, <2>2, <2>3 DEF VictimInv
<1>2. CASE FinishWrite
  <2>1. CASE call.kind = "checkpoint"
    <3>1. /\ call'.victims = Victims(Listed)
          /\ file' = [file EXCEPT ![committed] = "whole"]
          /\ UNCHANGED <<committed, writer>>
      BY <1>2, <2>1 DEF FinishWrite, SaveTypeInv, Call
    <3>2. Enough' = Enough
      BY <3>1 DEF Enough
    <3>3. Whole \subseteq Whole' /\ Whole' \in SUBSET Gens
      BY <3>1 DEF Whole, SaveTypeInv
    <3>4. \A g \in Victims(Listed) :
            /\ g < committed
            /\ Enough => \E h \in Whole' : h > g
      BY <1>0, <3>3, PickedVictims DEF DiskInv
    <3> QED
      BY <3>1, <3>2, <3>4 DEF VictimInv
  <2>2. CASE call.kind # "checkpoint"
    BY <1>2, <2>2 DEF FinishWrite, VictimInv, SaveTypeInv, Call
  <2> QED
    BY <2>1, <2>2
<1>3. CASE Rename
  <2>1. /\ call'.victims = Victims(Listed \cup {committed})
        /\ UNCHANGED <<committed, writer>>
    BY <1>3 DEF Rename, SaveTypeInv, Call
  <2>2. committed \in Gens /\ file' = [file EXCEPT ![committed] = "whole"]
    BY <1>3, FileChange
  <2>3. Enough' = Enough
    BY <2>1 DEF Enough
  <2>4. /\ Whole \cup {committed} \subseteq Whole'
        /\ Whole' \in SUBSET Gens
        /\ Listed \cup {committed} \in SUBSET Gens
        /\ Listed \cup {committed} \subseteq Torn \cup Whole'
    BY <1>0, <2>2 DEF Whole, SaveTypeInv
  <2>5. \A g \in Listed \cup {committed} : g <= committed
    BY <2>2, SaveAssumption DEF DiskInv, Gens
  <2>6. \A g \in Victims(Listed \cup {committed}) :
          /\ g < committed
          /\ Enough => \E h \in Whole' : h > g
    BY <2>4, <2>5, PickedVictims
  <2> QED
    BY <2>1, <2>3, <2>6 DEF VictimInv
<1>4. CASE DeleteVictim
  <2> DEFINE m == Min(call.victims)
  <2>1. /\ m \in call.victims /\ m \in Gens
        /\ \A g \in call.victims : m <= g
        /\ file' = [file EXCEPT ![m] = "none"]
        /\ call' = [call EXCEPT !.victims = @ \ {m}]
        /\ UNCHANGED <<committed, writer>>
        /\ call.step = "retain"
    BY <1>4, FileChange DEF DeleteVictim
  <2> HIDE DEF m
  <2>2. Enough' = Enough
    BY <2>1 DEF Enough
  <2>3. call'.victims = call.victims \ {m} /\ call.victims \in SUBSET Gens
    BY <2>1 DEF SaveTypeInv, Call
  <2>4. ASSUME NEW g \in call'.victims
        PROVE  g < committed /\ (Enough => \E h \in Whole' : h > g)
    <3>1. g \in call.victims /\ g \in Gens /\ m <= g
      BY <2>1, <2>3, <2>4
    <3>2. g < committed /\ (Enough => \E h \in Whole : h > g)
      BY <2>1, <3>1 DEF VictimInv
    <3>3. \A h \in Whole : h > g => h \in Whole'
      BY <2>1, <3>1, SaveAssumption DEF Whole, SaveTypeInv, Gens
    <3> QED
      BY <3>2, <3>3
  <2> QED
    BY <2>1, <2>2, <2>4 DEF VictimInv
<1>5. CASE RetentionDone
  BY <1>5 DEF RetentionDone, VictimInv, Idle, SaveTypeInv, Call
<1>6. CASE \E g \in Gens : DeleteTorn(g)
  BY <1>6 DEF DeleteTorn, VictimInv, Idle
<1>7. CASE Resume \/ NewGame
  <2>1. call' = call /\ call = Idle
    BY <1>7 DEF Resume, NewGame, CallInv
  <2> QED
    BY <2>1 DEF VictimInv, Idle
<1>8. CASE \/ BeginCheckpoint \/ BeginSave \/ TruncateJournal \/ CallFails
           \/ Crash
  BY <1>8 DEF BeginCheckpoint, BeginSave, TruncateJournal, CallFails, Crash,
              VictimInv, Idle
<1>9. CASE AppendRecord \/ AppendFails
  BY <1>9 DEF AppendRecord, AppendFails, Append1, VictimInv, Idle
<1>10. CASE (\E t \in Gens : TruncateBefore(t)) \/ UNCHANGED saveVars
  BY <1>10 DEF TruncateBefore, saveVars, diskVars, VictimInv, Whole, Enough
<1> QED
  BY <1>1, <1>2, <1>3, <1>4, <1>5, <1>6, <1>7, <1>8, <1>9, <1>10 DEF SaveStep

\* Every step keeps each commit in a complete snapshot or in the journal.
LEMMA CoveredStep ==
  ASSUME SaveTypeInv, DiskInv, CallInv, TornInv, VictimInv, CoveredInv,
         SaveStep \/ Resume \/ UNCHANGED saveVars
  PROVE  CoveredInv'
<1> SUFFICES ASSUME Enough',
                    NEW t \in 1 .. committed'
             PROVE  t \in jfile' \/ \E h \in Whole' : t <= h
  BY DEF CoveredInv
<1>0. writer' = writer
  BY DEF SaveStep, AppendRecord, AppendAtThreshold, AppendFails, Append1,
         BeginCheckpoint, BeginSave, FinishWrite, Rename, DeleteVictim,
         RetentionDone, TruncateJournal, CallFails, TruncateBefore, Crash,
         NewGame, DeleteTorn, Resume, saveVars
<1>1. Enough
  BY <1>0 DEF Enough
<1>2. /\ committed \in Nat /\ committed <= MaxTick /\ MaxTick \in Nat
      /\ \A g \in Gens : g \in Nat
  BY SaveAssumption DEF SaveTypeInv, Gens
<1>3. \A u \in 1 .. committed : u \in jfile \/ \E h \in Whole' : u <= h
  <2> SUFFICES ASSUME NEW u \in 1 .. committed, u \notin jfile
               PROVE  \E h \in Whole' : u <= h
    OBVIOUS
  <2>1. PICK g \in Whole : u <= g
    BY <1>1 DEF CoveredInv
  <2>2. PICK h \in Whole' : g <= h
    BY <1>1, <2>1, WholeKept
  <2>3. u \in Nat /\ g \in Nat /\ h \in Nat
    BY <1>2 DEF Whole
  <2> QED
    BY <2>1, <2>2, <2>3
<1>4. CASE committed' = committed /\ jfile' = jfile
  BY <1>3, <1>4
<1>5. CASE committed' = committed + 1 /\ jfile' = jfile \cup {committed + 1}
  <2>1. t = committed + 1 \/ t \in 1 .. committed
    BY <1>2, <1>5
  <2> QED
    BY <1>3, <1>5, <2>1
<1>6. CASE TruncateJournal
  <2>1. committed' = committed /\ committed \in Gens
        /\ file'[committed] = "whole"
    BY <1>6 DEF TruncateJournal, CallInv
  <2>2. committed \in Whole' /\ t <= committed
    BY <1>2, <2>1 DEF Whole
  <2> QED
    BY <2>2
<1>7. CASE NewGame
  <2>1. committed' = 0
    BY <1>7 DEF NewGame
  <2> QED
    BY <2>1
<1>8. CASE Resume
  <2>1. /\ committed' \in {Latest} \cup jfile
        /\ Latest \in Gens /\ file[Latest] = "whole"
        /\ jfile' = jfile /\ file' = file
    BY <1>8, ResumeCommit DEF Resume, diskVars
  <2>2. Latest \in Whole'
    BY <2>1 DEF Whole
  <2>3. CASE committed' = Latest
    BY <1>2, <2>1, <2>2, <2>3
  <2>4. CASE committed' \in jfile
    <3>1. committed' <= committed /\ committed' \in Nat
      BY <1>2, <2>4 DEF DiskInv, SaveTypeInv
    <3>2. t \in 1 .. committed
      BY <1>2, <3>1
    <3> QED
      BY <1>3, <2>1, <3>2
  <2> QED
    BY <2>1, <2>3, <2>4
<1>9. CASE RetentionDone
  <2>1. \/ committed' = committed /\ jfile' = jfile
        \/ committed' = committed + 1 /\ jfile' = jfile \cup {committed + 1}
    BY <1>9 DEF RetentionDone, Committed
  <2> QED
    BY <1>4, <1>5, <2>1
<1>10. CASE AppendRecord
  BY <1>5, <1>10 DEF AppendRecord, Committed
<1>11. CASE \/ AppendAtThreshold \/ AppendFails
            \/ BeginCheckpoint \/ BeginSave \/ FinishWrite \/ Rename
            \/ DeleteVictim \/ CallFails
            \/ \E u \in Gens : TruncateBefore(u)
            \/ Crash
            \/ \E g \in Gens : DeleteTorn(g)
            \/ UNCHANGED saveVars
  <2>1. committed' = committed /\ jfile' = jfile
    BY <1>11 DEF AppendAtThreshold, AppendFails, BeginCheckpoint,
         BeginSave, FinishWrite, Rename, DeleteVictim, CallFails,
         TruncateBefore, Crash, DeleteTorn, saveVars, diskVars
  <2> QED
    BY <1>4, <2>1
<1> QED
  BY <1>6, <1>7, <1>8, <1>9, <1>10, <1>11 DEF SaveStep

-----------------------------------------------------------------------------
(* The save system loses no commit                                         *)

\* The invariant of the save system holds at the start.
LEMMA SaveInvInit == Init => SaveInv
<1> SUFFICES ASSUME Init PROVE SaveInv
  OBVIOUS
<1> USE DEF Init, SaveInit
<1>1. SaveTypeInv
  <2>1. Idle \in Call
    BY DEF Idle, Call
  <2>2. committed \in 0 .. MaxTick
    BY SaveAssumption
  <2> QED
    BY <2>1, <2>2 DEF SaveTypeInv, FileState
<1>2. DiskInv
  BY DEF DiskInv, Listed
<1>3. CallInv /\ VictimInv
  BY DEF CallInv, VictimInv, Idle
<1>4. TornInv
  <2>1. Torn = {}
    BY DEF Torn
  <2> QED
    BY <2>1, FS_EmptySet, SaveAssumption DEF TornInv
<1>5. CoveredInv
  <2>1. 1 .. committed = {}
    OBVIOUS
  <2> QED
    BY <2>1 DEF CoveredInv
<1> QED
  BY <1>1, <1>2, <1>3, <1>4, <1>5 DEF SaveInv

\* Every step of a session keeps the invariant of the save system.
LEMMA SaveInvNext == SaveInv /\ [Next]_vars => SaveInv'
  BY SaveSteps, SaveTypeStep, DiskStep, CallStep, TornStep, VictimStep,
     CoveredStep DEF SaveInv

\* In every session the save system keeps its inductive invariant.
THEOREM SaveInvariance == Spec => []SaveInv
  BY SaveInvInit, SaveInvNext, PTL DEF Spec

\* The newest of a set of generations, 0 if there is none.
LEMMA NewestIsGreatest ==
  ASSUME NEW W \in SUBSET Gens
  PROVE  LET newest == IF W = {} THEN 0 ELSE Max(W) IN
           /\ newest \in Nat
           /\ W # {} => newest \in W
           /\ \A g \in W : g <= newest
<1>1. W \in SUBSET (0 .. MaxTick) /\ MaxTick \in Nat
  BY SaveAssumption DEF Gens
<1>2. CASE W = {}
  BY <1>2
<1>3. CASE W # {}
  <2>1. Max(W) \in W /\ \A g \in W : Max(W) >= g
    BY <1>1, <1>3, MaxIsGreatest
  <2>0. \A g \in W : g \in Nat
    BY SaveAssumption DEF Gens
  <2>2. Max(W) \in Nat /\ \A g \in W : g \in Nat
    BY <2>0, <2>1
  <2>3. \A g \in W : g <= Max(W)
    BY <2>1, <2>2
  <2> HIDE <1>1
  <2> QED
    BY <1>3, <2>1, <2>2, <2>3
<1> QED
  BY <1>2, <1>3

\* What CoveredInv says in terms of the newest complete snapshot.
LEMMA CoveredRecoverable ==
  SaveInv /\ Enough => Recoverable
<1> SUFFICES ASSUME SaveInv, Enough,
                    NEW t \in 1 .. committed
             PROVE  t <= NewestWhole \/ t \in jfile
  BY DEF Recoverable
<1>1. t \in jfile \/ \E h \in Whole : t <= h
  BY DEF SaveInv, CoveredInv
<1>2. ASSUME NEW h \in Whole, t <= h PROVE t <= NewestWhole
  <2>1. h <= NewestWhole /\ NewestWhole \in Nat
    BY NewestIsGreatest DEF NewestWhole, Whole
  <2>2. h \in Nat /\ t \in Nat
    BY SaveAssumption DEF Whole, Gens, SaveInv, SaveTypeInv
  <2> QED
    BY <1>2, <2>1, <2>2
<1> QED
  BY <1>1, <1>2

\* Recoverable, for every number of ticks, threshold and retention limit: as
\* long as the retention keeps more files than there can be unreadable ones,
\* every commit survives every crash and failed call.  The bound is exact: a
\* run with one unreadable file and a limit of one loses a commit.
THEOREM CommitsRecoverable ==
  ASSUME MaxTorn < MaxSnapshots
  PROVE  Spec => []Recoverable
<1>1. SaveInv => Recoverable
  BY CoveredRecoverable DEF Enough
<1> QED
  BY <1>1, SaveInvariance, PTL

\* ManagerLatestReadable: the temporary file and the rename of save_snapshot
\* never leave an unreadable file under the name of a snapshot.
THEOREM ManagerReadsLatest == Spec => []ManagerLatestReadable
<1>1. SaveInv => ManagerLatestReadable
  <2> SUFFICES ASSUME SaveInv, writer = "manager", Latest # 0
               PROVE  LatestReadable
    BY DEF ManagerLatestReadable
  <2>1. Listed # {} /\ Latest = Max(Listed)
    BY DEF Latest
  <2>2. Listed \in SUBSET (0 .. MaxTick) /\ MaxTick \in Nat
    BY SaveAssumption DEF Listed, Gens
  <2>3. Latest \in Listed
    BY <2>1, <2>2, MaxIsGreatest
  <2>4. Torn = {}
    BY DEF SaveInv, TornInv
  <2>5. file[Latest] = "whole"
    BY <2>3, <2>4 DEF SaveInv, SaveTypeInv, FileState, Listed, Torn
  <2> QED
    BY <2>5 DEF LatestReadable
<1> QED
  BY <1>1, SaveInvariance, PTL

\* RecoveryPointMonotone: under the same condition no step takes the newest
\* complete snapshot away.
THEOREM RecoveryPointKept ==
  ASSUME MaxTorn < MaxSnapshots
  PROVE  Spec => RecoveryPointMonotone
<1>1. SaveInv /\ [Next]_vars => [NewestWhole' >= NewestWhole]_vars
  <2> SUFFICES ASSUME SaveInv, [Next]_vars
               PROVE  NewestWhole' >= NewestWhole
    OBVIOUS
  <2>1. Enough
    BY DEF Enough
  <2>2. \A g \in Whole : \E h \in Whole' : g <= h
    BY <2>1, SaveSteps, WholeKept DEF SaveInv
  <2>3. Whole \in SUBSET Gens /\ Whole' \in SUBSET Gens
    BY DEF Whole
  <2>4. /\ NewestWhole' \in Nat
        /\ \A g \in Whole' : g <= NewestWhole'
    BY <2>3, NewestIsGreatest DEF NewestWhole
  <2>5. /\ NewestWhole \in Nat
        /\ NewestWhole = 0 \/ NewestWhole \in Whole
    BY <2>3, NewestIsGreatest DEF NewestWhole
  <2>6. \A g \in Gens : g \in Nat
    BY SaveAssumption DEF Gens
  <2>7. CASE NewestWhole = 0
    BY <2>4, <2>7
  <2>8. CASE NewestWhole \in Whole
    <3>1. PICK h \in Whole' : NewestWhole <= h
      BY <2>2, <2>8
    <3>2. h <= NewestWhole' /\ h \in Nat
      BY <2>3, <2>4, <2>6
    <3> QED
      BY <2>4, <2>5, <3>1, <3>2
  <2> QED
    BY <2>5, <2>7, <2>8
<1> QED
  BY <1>1, SaveInvariance, PTL DEF Spec, RecoveryPointMonotone

-----------------------------------------------------------------------------
(* The inductive invariant of a load                                       *)

\* The phases up to k have been called in order and returned Ok, the first
\* one perhaps skipped, and have left what the next ones rely on.
Clean(k) ==
  /\ succeeded = (IF skipped THEN 2 ELSE 1) .. k
  /\ IF skipped THEN manifest = NoManifest
     ELSE k >= 1 => manifest \in Manifests /\ manifest # NoManifest
  /\ k >= 2 /\ policy = "Strict" => finalMods \in {m.mods : m \in PassedOn}
  /\ k >= 3 => \E m \in PassedOn : migrated = Migrated(m)
  /\ k >= 4 => /\ GraphAccepts(migrated.relations)
               /\ Range(migrated.tables) \subseteq tables
               /\ NonAuthorityTables \subseteq Derived
  /\ k >= 5 => frozen

LoadTypeInv ==
  /\ current \in 0 .. LastPhase /\ completed \in Seq(1 .. LastPhase)
  /\ gaveUp \in BOOLEAN /\ skipped \in BOOLEAN

\* Before the last phase returns, fewer phases are completed than entered.
LengthInv ==
  LastPhase \notin succeeded =>
    /\ current = 0 => /\ completed = <<>> /\ succeeded = {}
                      /\ manifest = NoManifest /\ ~skipped
    /\ current > 0 => Len(completed) < current

\* A load without an error that completed every phase before the current one
\* is clean.
ProgressInv ==
  /\ StopsOnError /\ ~gaveUp /\ LastPhase \notin succeeded
       /\ current > 0 /\ Len(completed) = current - 1 => Clean(current)
  /\ StopsOnError /\ LastPhase \in succeeded /\ Len(completed) = LastPhase =>
     Clean(LastPhase)

LoadInv == LoadTypeInv /\ LengthInv /\ ProgressInv

\* A new LoadReconstruction has the invariant.
LEMMA BuildKeeps ==
  ASSUME NEW store, NEW p, NEW pipe, Build(store, p, pipe),
         gaveUp' \in BOOLEAN, skipped' = FALSE
  PROVE  LoadInv'
<1>1. /\ current' = 0 /\ completed' = <<>> /\ succeeded' = {}
      /\ manifest' = NoManifest
  BY DEF Build
<1>2. LoadTypeInv'
  <2>1. completed' \in Seq(1 .. LastPhase)
    BY <1>1, EmptySeq
  <2>2. current' \in 0 .. LastPhase
    BY <1>1 DEF LastPhase
  <2>3. skipped' \in BOOLEAN
    OBVIOUS
  <2> QED
    BY <2>1, <2>2, <2>3 DEF LoadTypeInv
<1>3. LengthInv'
  BY <1>1 DEF LengthInv, LastPhase
<1>4. ProgressInv'
  BY <1>1 DEF ProgressInv, LastPhase
<1> QED
  BY <1>2, <1>3, <1>4 DEF LoadInv

\* What LoadLifecycle::advance leaves.
LEMMA AdvanceKeeps ==
  ASSUME LoadTypeInv, LengthInv, LastPhase \notin succeeded, Advance
  PROVE  /\ current \in 0 .. 5 /\ current' = current + 1
         /\ completed' \in Seq(1 .. LastPhase)
         /\ Len(completed') < current'
         /\ Len(completed') = current' - 1 =>
              current = 0 \/ Len(completed) = current - 1
<1>1. current \in 0 .. 5 /\ current' = current + 1
  BY DEF LoadTypeInv, Advance, CanAdvance, LastPhase
<1>2. CASE current = 0
  <2>1. completed' = <<>> /\ Len(completed') = 0
    BY <1>2 DEF Advance, LengthInv
  <2> QED
    BY <1>1, <1>2, <2>1
<1>3. CASE current # 0
  <2>1. completed' = Append(completed, current) /\ current \in 1 .. LastPhase
    BY <1>1, <1>3 DEF Advance, LastPhase
  <2>2. /\ completed' \in Seq(1 .. LastPhase)
        /\ Len(completed') = Len(completed) + 1 /\ Len(completed) \in Nat
    BY <2>1, AppendProperties, LenProperties DEF LoadTypeInv
  <2>3. Len(completed) < current
    BY <1>1, <1>3 DEF LengthInv
  <2> QED
    BY <1>1, <2>2, <2>3
<1> QED
  BY <1>2, <1>3

\* A phase that failed or was called out of turn.
LEMMA ErrorKeeps ==
  ASSUME LoadTypeInv, LengthInv, LastPhase \notin succeeded, Advance,
         succeeded' = succeeded, gaveUp' = TRUE, UNCHANGED skipped
  PROVE  LoadInv'
<1>1. /\ current' \in 1 .. LastPhase /\ completed' \in Seq(1 .. LastPhase)
      /\ Len(completed') < current'
  BY AdvanceKeeps DEF LastPhase
<1>2. current' # 0
  BY <1>1 DEF LastPhase
<1> QED
  BY <1>1, <1>2 DEF LoadInv, LoadTypeInv, LengthInv, ProgressInv

\* A phase before the last that returned Ok, given that it leaves a clean
\* load.
LEMMA EnterKeeps ==
  ASSUME LoadTypeInv, LengthInv, ProgressInv, LastPhase \notin succeeded,
         StopsOnError => ~gaveUp,
         NEW p \in 1 .. 5, Enter(p), gaveUp' \in BOOLEAN, UNCHANGED skipped,
         StopsOnError /\ (current = 0 \/ Len(completed) = current - 1) =>
           Clean(p)'
  PROVE  LoadInv'
<1>1. Advance /\ current + 1 = p /\ succeeded' = succeeded \cup {p}
  BY DEF Enter, Succeed
<1>2. /\ current' = p /\ completed' \in Seq(1 .. LastPhase)
      /\ Len(completed') < current'
      /\ Len(completed') = current' - 1 =>
           current = 0 \/ Len(completed) = current - 1
  BY <1>1, AdvanceKeeps
<1>3. LastPhase \notin succeeded' /\ p > 0 /\ p # 0 /\ p \in 0 .. LastPhase
  BY <1>1 DEF LastPhase
<1>4. LoadTypeInv'
  BY <1>2, <1>3 DEF LoadTypeInv
<1>5. LengthInv'
  BY <1>2, <1>3 DEF LengthInv
<1>6. ProgressInv'
  BY <1>2, <1>3 DEF ProgressInv
<1> QED
  BY <1>4, <1>5, <1>6 DEF LoadInv

\* The clean load that phase p finds.
LEMMA CleanBefore ==
  ASSUME LoadTypeInv, LengthInv, ProgressInv, LastPhase \notin succeeded,
         StopsOnError, ~gaveUp, current > 0,
         Len(completed) = current - 1
  PROVE  Clean(current)
  BY DEF ProgressInv

\* check() under Strict accepts only the mods that were saved.
LEMMA StrictMods ==
  ASSUME NEW stored \in {m.mods : m \in Manifests}, NEW available \in ModSets,
         policy = "Strict", ~ToleranceError(stored, available)
  PROVE  FinalModList(stored, available) = stored
<1>1. /\ Cardinality(available) = Cardinality(stored)
      /\ Missing(stored, available) = {}
      /\ Mismatched(stored, available) = {}
  BY DEF ToleranceError, StrictRejects
<1>2. /\ IsFiniteSet(available) /\ IsFiniteSet(stored)
      /\ \A f \in available \cup stored :
           f = [id |-> f.id, version |-> f.version]
  BY SessionAssumption
<1>3. stored \subseteq available
  <2> SUFFICES ASSUME NEW m \in stored PROVE m \in available
    OBVIOUS
  <2>1. PICK a \in available : a.id = m.id
    BY <1>1 DEF Missing, Ids
  <2>2. a.version = m.version
    BY <1>1, <2>1 DEF Mismatched
  <2>3. a = m
    BY <1>2, <2>1, <2>2
  <2> QED
    BY <2>3
<1>4. available = stored
  BY <1>1, <1>2, <1>3, FS_Subset
<1> QED
  BY <1>1, <1>4 DEF FinalModList

\* The first five phases keep the invariant.
LEMMA DeserializeKeeps ==
  ASSUME LoadInv, LastPhase \notin succeeded, StopsOnError => ~gaveUp,
         gaveUp' = (gaveUp \/ succeeded' = succeeded), UNCHANGED skipped,
         NEW m \in Manifests \cup {NoManifest}, SnapshotDeserialize(m)
  PROVE  LoadInv'
<1> USE DEF LoadInv
<1>0. gaveUp' \in BOOLEAN
  BY DEF LoadTypeInv
<1>1. CASE Fail(1)
  BY <1>1, ErrorKeeps DEF Fail, LoadTypeInv
<1>2. CASE Enter(1) /\ manifest' = m /\ m # NoManifest
  <2>1. current = 0
    BY <1>2 DEF Enter, LoadTypeInv
  <2>2. succeeded = {} /\ ~skipped'
    BY <2>1 DEF LengthInv
  <2>3. Clean(1)'
    BY <1>2, <2>2 DEF Clean, Enter, Succeed
  <2> QED
    BY <1>0, <1>2, <2>3, EnterKeeps
<1> QED
  BY <1>1, <1>2 DEF SnapshotDeserialize

\* Phase 2, mod_coordination, keeps the account of the phases.
LEMMA CoordinationKeeps ==
  ASSUME LoadInv, LastPhase \notin succeeded, StopsOnError => ~gaveUp,
         gaveUp' = (gaveUp \/ succeeded' = succeeded), UNCHANGED skipped,
         NEW m \in PassedOn, NEW available \in ModSets,
         ModCoordination(m.mods, available)
  PROVE  LoadInv'
<1> USE DEF LoadInv
<1>0. gaveUp' \in BOOLEAN
  BY DEF LoadTypeInv
<1>1. CASE Fail(2)
  BY <1>1, ErrorKeeps DEF Fail, LoadTypeInv
<1>2. CASE /\ ~ToleranceError(m.mods, available)
           /\ Enter(2)
           /\ finalMods' = FinalModList(m.mods, available)
           /\ UNCHANGED <<manifest, migrated, frozen, policy, pipelined,
                          tables, tiers>>
  <2>1. current = 1
    BY <1>2 DEF Enter, LoadTypeInv
  <2>2. ASSUME StopsOnError, Len(completed) = current - 1
        PROVE  Clean(2)'
    <3>1. Clean(1)
      BY <2>1, <2>2, CleanBefore
    <3>2. succeeded' = (IF skipped THEN 2 ELSE 1) .. 2
      BY <1>2, <3>1 DEF Clean, Enter, Succeed
    <3>3. PassedOn' = PassedOn
      BY <1>2 DEF PassedOn
    <3>4. m \in Manifests
      BY <3>1 DEF Clean, PassedOn
    <3>5. policy = "Strict" => finalMods' = m.mods
      BY <1>2, <3>4, StrictMods
    <3> QED
      BY <1>2, <3>1, <3>2, <3>3, <3>5 DEF Clean
  <2>3. current # 0
    BY <2>1
  <2> QED
    BY <1>0, <1>2, <2>2, <2>3, EnterKeeps
<1> QED
  BY <1>1, <1>2 DEF ModCoordination

\* Phase 3, schema_migration.
LEMMA MigrationKeeps ==
  ASSUME LoadInv, LastPhase \notin succeeded, StopsOnError => ~gaveUp,
         gaveUp' = (gaveUp \/ succeeded' = succeeded), UNCHANGED skipped,
         NEW m \in PassedOn, SchemaMigration(m)
  PROVE  LoadInv'
<1> USE DEF LoadInv
<1>0. gaveUp' \in BOOLEAN
  BY DEF LoadTypeInv
<1>1. CASE Fail(3)
  BY <1>1, ErrorKeeps DEF Fail, LoadTypeInv
<1>2. CASE /\ Enter(3)
           /\ migrated' = Migrated(m)
           /\ UNCHANGED <<manifest, finalMods, frozen, policy, pipelined,
                          tables, tiers>>
  <2>1. current = 2
    BY <1>2 DEF Enter, LoadTypeInv
  <2>2. ASSUME StopsOnError, Len(completed) = current - 1
        PROVE  Clean(3)'
    <3>1. Clean(2)
      BY <2>1, <2>2, CleanBefore
    <3>2. succeeded' = (IF skipped THEN 2 ELSE 1) .. 3
      BY <1>2, <3>1 DEF Clean, Enter, Succeed
    <3>3. PassedOn' = PassedOn
      BY <1>2 DEF PassedOn
    <3>4. \E n \in PassedOn' : migrated' = Migrated(n)'
      BY <1>2, <3>3 DEF Migrated
    <3> QED
      BY <1>2, <3>1, <3>2, <3>3, <3>4 DEF Clean
  <2>3. current # 0
    BY <2>1
  <2> QED
    BY <1>0, <1>2, <2>2, <2>3, EnterKeeps
<1> QED
  BY <1>1, <1>2 DEF SchemaMigration

\* Phase 4, content_compilation.
LEMMA CompilationKeeps ==
  ASSUME LoadInv, LastPhase \notin succeeded, StopsOnError => ~gaveUp,
         gaveUp' = (gaveUp \/ succeeded' = succeeded), UNCHANGED skipped,
         ContentCompilation
  PROVE  LoadInv'
<1> USE DEF LoadInv
<1>0. gaveUp' \in BOOLEAN
  BY DEF LoadTypeInv
<1>1. CASE Advance /\ UNCHANGED succeeded
  BY <1>1, ErrorKeeps DEF LoadTypeInv
<1>2. CASE /\ GraphAccepts(migrated.relations)
           /\ Enter(4)
           /\ Created(Range(migrated.tables))
           /\ UNCHANGED <<outputs, policy, pipelined>>
  <2>1. current = 3
    BY <1>2 DEF Enter, LoadTypeInv
  <2>2. ASSUME StopsOnError, Len(completed) = current - 1
        PROVE  Clean(4)'
    <3>1. Clean(3)
      BY <2>1, <2>2, CleanBefore
    <3>2. succeeded' = (IF skipped THEN 2 ELSE 1) .. 4
      BY <1>2, <3>1 DEF Clean, Enter, Succeed
    <3>3. UNCHANGED <<manifest, migrated, finalMods, policy, pipelined>>
      BY <1>2 DEF outputs
    <3>4. PassedOn' = PassedOn /\ \A m : Migrated(m)' = Migrated(m)
      BY <3>3 DEF PassedOn, Migrated
    <3>5. Range(migrated.tables)' \subseteq tables'
      BY <1>2, <3>3 DEF Created
    <3>6. NonAuthorityTables' \subseteq Derived
      BY <1>2, <3>3 DEF Created, NonAuthorityTables
    <3>7. GraphAccepts(migrated.relations)'
      BY <1>2, <3>3
    <3> QED
      BY <3>1, <3>2, <3>3, <3>4, <3>5, <3>6, <3>7 DEF Clean
  <2>3. current # 0
    BY <2>1
  <2> QED
    BY <1>0, <1>2, <2>2, <2>3, EnterKeeps
<1> QED
  BY <1>1, <1>2 DEF ContentCompilation, Fail

\* Phase 5, schema_freeze.
LEMMA FreezeKeeps ==
  ASSUME LoadInv, LastPhase \notin succeeded, StopsOnError => ~gaveUp,
         gaveUp' = (gaveUp \/ succeeded' = succeeded), UNCHANGED skipped,
         SchemaFreeze
  PROVE  LoadInv'
<1> USE DEF LoadInv
<1>0. gaveUp' \in BOOLEAN
  BY DEF LoadTypeInv
<1>1. current = 4 /\ Enter(5)
  BY DEF Enter, LoadTypeInv, SchemaFreeze
<1>2. ASSUME StopsOnError, Len(completed) = current - 1
      PROVE  Clean(5)'
  <2>1. Clean(4)
    BY <1>1, <1>2, CleanBefore
  <2>2. succeeded' = (IF skipped THEN 2 ELSE 1) .. 5
    BY <1>1, <2>1 DEF Clean, Enter, Succeed
  <2>3. UNCHANGED <<manifest, migrated, finalMods, policy, pipelined, tables,
                    tiers>>
    BY DEF SchemaFreeze
  <2>4. PassedOn' = PassedOn /\ \A m : Migrated(m)' = Migrated(m)
    BY <2>3 DEF PassedOn, Migrated
  <2>5. NonAuthorityTables' = NonAuthorityTables
    BY <2>3 DEF NonAuthorityTables
  <2> QED
    BY <2>1, <2>2, <2>3, <2>4, <2>5 DEF Clean, SchemaFreeze
<1>3. current # 0
  BY <1>1
<1> QED
  BY <1>0, <1>1, <1>2, <1>3, EnterKeeps

\* finish() after the sixth phase: six completed phases mean that none but
\* the first was skipped.
LEMMA StartKeeps ==
  ASSUME LoadInv, LastPhase \notin succeeded, StopsOnError => ~gaveUp,
         gaveUp' \in BOOLEAN, UNCHANGED skipped, SimulationStart
  PROVE  LoadInv'
<1> USE DEF LoadInv
<1> DEFINE c == Append(completed, current)
<1>1. current = 5 /\ current' = 0 /\ succeeded' = succeeded \cup {6}
  BY DEF SimulationStart, LoadTypeInv, LastPhase, Succeed
<1>2. completed \in Seq(1 .. LastPhase) /\ 5 \in 1 .. LastPhase
      /\ 6 \in 1 .. LastPhase
  BY DEF LoadTypeInv, LastPhase
<1>3. /\ c \in Seq(1 .. LastPhase)
      /\ Len(c) = Len(completed) + 1 /\ Len(completed) \in Nat
  BY <1>1, <1>2, AppendProperties, LenProperties
<1>4. completed' = c \/ completed' = Append(c, 6)
  BY DEF SimulationStart, LastPhase
<1> HIDE DEF c
<1>5. Append(c, 6) \in Seq(1 .. LastPhase) /\ Len(Append(c, 6)) = Len(c) + 1
  BY <1>2, <1>3, AppendProperties
<1>6. Len(completed) < 5
  BY <1>1 DEF LengthInv
<1>7. LastPhase \in succeeded' /\ completed' \in Seq(1 .. LastPhase)
  BY <1>1, <1>3, <1>4, <1>5 DEF LastPhase
<1>8. ASSUME StopsOnError, Len(completed') = LastPhase
      PROVE  Clean(LastPhase)'
  <2>0. \/ Len(completed') = Len(completed) + 1
        \/ Len(completed') = Len(completed) + 1 + 1
    BY <1>3, <1>4, <1>5
  <2>1. Len(completed) = current - 1
    <3>1. ASSUME NEW n \in Nat, NEW n1, n < 5, n1 = 6,
                 n1 = n + 1 \/ n1 = n + 1 + 1
          PROVE  n = 4
      BY <3>1
    <3>2. Len(completed') = 6
      BY <1>8 DEF LastPhase
    <3>3. Len(completed) = 4
      BY <1>3, <1>6, <2>0, <3>1, <3>2
    <3> QED
      BY <1>1, <3>3
  <2>2. Clean(5)
    BY <1>1, <1>8, <2>1, CleanBefore
  <2>3. succeeded' = (IF skipped THEN 2 ELSE 1) .. LastPhase
    BY <1>1, <2>2 DEF Clean, LastPhase
  <2>4. UNCHANGED <<manifest, migrated, finalMods, frozen, policy, pipelined,
                    tables, tiers>>
    BY DEF SimulationStart, outputs
  <2>5. PassedOn' = PassedOn /\ \A m : Migrated(m)' = Migrated(m)
    BY <2>4 DEF PassedOn, Migrated
  <2>6. NonAuthorityTables' = NonAuthorityTables
    BY <2>4 DEF NonAuthorityTables
  <2> QED
    BY <2>2, <2>3, <2>4, <2>5, <2>6 DEF Clean, LastPhase
<1>9. LoadTypeInv'
  BY <1>1, <1>7 DEF LoadTypeInv, LastPhase
<1> QED
  BY <1>7, <1>8, <1>9 DEF LengthInv, ProgressInv

\* skip_to_phase leaves a phase that is never completed, unless it is the
\* first one and nothing has been read.
LEMMA SkipKeeps ==
  ASSUME LoadInv, LastPhase \notin succeeded, UNCHANGED gaveUp,
         skipped' = TRUE, NEW p \in 1 .. LastPhase, SkipToPhase(p)
  PROVE  LoadInv'
<1> USE DEF LoadInv
<1>1. /\ current' = p /\ UNCHANGED <<completed, manifest, succeeded>>
      /\ current = 0 \/ current < p
  BY DEF SkipToPhase, outputs
<1>2. p > 0 /\ p # 0 /\ p \in 0 .. LastPhase /\ current \in 0 .. LastPhase
      /\ Len(completed) \in Nat
  BY LenProperties DEF LastPhase, LoadTypeInv
<1>3. CASE current = 0
  <2>1. completed = <<>> /\ manifest = NoManifest /\ succeeded = {}
    BY <1>3 DEF LengthInv
  <2>2. Len(completed') = 0
    BY <1>1, <2>1
  <2>3. Len(completed') < p /\ (Len(completed') = p - 1 => p = 1)
    BY <2>2
  <2>4. Clean(1)'
    BY <1>1, <2>1 DEF Clean
  <2>5. LoadTypeInv' /\ LengthInv'
    BY <1>1, <1>2, <2>3 DEF LoadTypeInv, LengthInv
  <2>6. ProgressInv'
    BY <1>1, <2>3, <2>4 DEF ProgressInv
  <2> QED
    BY <2>5, <2>6
<1>4. CASE current # 0
  <2>1. Len(completed) < current /\ current < p
    BY <1>1, <1>2, <1>4 DEF LengthInv, LastPhase
  <2>2. Len(completed') < p /\ Len(completed') # p - 1
    BY <1>1, <1>2, <2>1 DEF LastPhase
  <2> QED
    BY <1>1, <1>2, <2>2 DEF LoadTypeInv, LengthInv, ProgressInv
<1> QED
  BY <1>3, <1>4

\* A step that leaves the load alone keeps its invariant.
LEMMA IdleKeeps ==
  ASSUME LoadInv, UNCHANGED <<loadVars, sessionVars>>
  PROVE  LoadInv'
<1>1. /\ LoadTypeInv' = LoadTypeInv /\ LengthInv' = LengthInv
  BY DEF LoadTypeInv, LengthInv, loadVars, sessionVars
<1>2. \A k : Clean(k)' = Clean(k)
  BY DEF Clean, Migrated, NonAuthorityTables, PassedOn, loadVars, sessionVars
<1>3. ProgressInv'
  BY <1>2 DEF LoadInv, ProgressInv, loadVars, sessionVars
<1> QED
  BY <1>1, <1>3 DEF LoadInv

\* A call of the application to the load in progress.
LEMMA LoadCallKeeps ==
  ASSUME LoadInv, Load
  PROVE  LoadInv'
<1>0. /\ LastPhase \notin succeeded /\ (StopsOnError => ~gaveUp)
      /\ gaveUp' = (gaveUp \/ succeeded' = succeeded)
      /\ gaveUp' \in BOOLEAN /\ UNCHANGED skipped
  BY DEF Load, LoadInv, LoadTypeInv
<1>1. ASSUME NEW m \in Manifests,
             SnapshotDeserialize(IF LatestReadable THEN m ELSE NoManifest)
      PROVE  LoadInv'
  <2> DEFINE read == IF LatestReadable THEN m ELSE NoManifest
  <2>1. read \in Manifests \cup {NoManifest} /\ SnapshotDeserialize(read)
    BY <1>1
  <2> HIDE DEF read
  <2> QED
    BY <1>0, <2>1, DeserializeKeeps
<1>2. ASSUME NEW m \in PassedOn, NEW available \in ModSets,
             ModCoordination(m.mods, available)
      PROVE  LoadInv'
  BY <1>0, <1>2, CoordinationKeeps
<1>3. ASSUME NEW m \in PassedOn, SchemaMigration(m)
      PROVE  LoadInv'
  BY <1>0, <1>3, MigrationKeeps
<1>4. CASE ContentCompilation
  BY <1>0, <1>4, CompilationKeeps
<1>5. CASE SchemaFreeze
  BY <1>0, <1>5, FreezeKeeps
<1>6. CASE SimulationStart
  BY <1>0, <1>6, StartKeeps
<1>7. ASSUME NEW p \in 1 .. LastPhase, WrongPhase(p)
      PROVE  LoadInv'
  <2>1. Advance /\ succeeded' = succeeded
    BY <1>7 DEF WrongPhase
  <2> QED
    BY <1>0, <2>1, ErrorKeeps DEF LoadInv
<1> QED
  BY <1>1, <1>2, <1>3, <1>4, <1>5, <1>6, <1>7 DEF Load, LoadCall

\* The invariant of a load holds at the start and in every step.
LEMMA LoadInvInit == Init => LoadInv
<1> SUFFICES ASSUME Init PROVE LoadInv
  OBVIOUS
<1>1. /\ current = 0 /\ completed = <<>> /\ succeeded = {}
      /\ manifest = NoManifest /\ gaveUp = FALSE /\ skipped = FALSE
  BY DEF Init, LoadInit
<1>2. LoadTypeInv
  <2>1. completed \in Seq(1 .. LastPhase)
    BY <1>1, EmptySeq
  <2>2. current \in 0 .. LastPhase
    BY <1>1 DEF LastPhase
  <2>3. gaveUp \in BOOLEAN /\ skipped \in BOOLEAN
    BY <1>1
  <2> QED
    BY <2>1, <2>2, <2>3 DEF LoadTypeInv
<1>3. LengthInv
  BY <1>1 DEF LengthInv, LastPhase
<1>4. ProgressInv
  BY <1>1 DEF ProgressInv, LastPhase
<1> QED
  BY <1>2, <1>3, <1>4 DEF LoadInv

\* Every step of the session, of the loader or not, keeps the account of the
\* phases.
LEMMA LoadInvNext == LoadInv /\ [Next]_vars => LoadInv'
<1> SUFFICES ASSUME LoadInv, [Next]_vars PROVE LoadInv'
  OBVIOUS
<1>1. CASE Play \/ UNCHANGED vars
  BY <1>1, IdleKeeps DEF Play, vars, sessionVars
<1>2. CASE StartLoad
  BY <1>2, BuildKeeps DEF StartLoad
<1>3. CASE Load
  BY <1>3, LoadCallKeeps
<1>4. CASE Skip
  BY <1>4, SkipKeeps DEF Skip
<1>5. CASE StartSimulation
  <2>1. gaveUp' \in BOOLEAN /\ skipped' = FALSE /\ Build({}, "Warn", FALSE)
    BY <1>5 DEF StartSimulation, LoadInv, LoadTypeInv
  <2> QED
    BY <2>1, BuildKeeps
<1> QED
  BY <1>1, <1>2, <1>3, <1>4, <1>5 DEF Next

\* In every session the load in progress keeps its inductive invariant.
THEOREM LoadInvariance == Spec => []LoadInv
  BY LoadInvInit, LoadInvNext, PTL DEF Spec

-----------------------------------------------------------------------------
(* The relation graph of a finished load has no cycle                      *)

Closed(R, edges) == \A d \in edges : d[1] \in R => d[2] \in R

\* The steps of the walk from a to b are edges.
Follows(walk, edges, a, b) ==
  \A i \in a + 1 .. b : \E d \in edges : d[1] = walk[i - 1] /\ d[2] = walk[i]

\* A walk that starts in a set closed under the edges, and cannot leave it by
\* the one edge added, stays in it.
LEMMA WalkStays ==
  ASSUME NEW R, NEW edges, NEW e, e[1] \notin R, Closed(R, edges),
         NEW a \in Nat, NEW b \in Nat, NEW walk, walk[a] \in R,
         Follows(walk, edges \cup {e}, a, b)
  PROVE  \A i \in a .. b : walk[i] \in R
<1> DEFINE S == {i \in a .. b : walk[i] \notin R}
<1>1. SUFFICES ASSUME S # {} PROVE FALSE
  OBVIOUS
<1>2. S \in SUBSET Nat
  OBVIOUS
<1>3. PICK k \in S : \A j \in S : k <= j
  BY <1>1, <1>2, LeastExists
<1>4. k # a
  OBVIOUS
<1>5. k \in a + 1 .. b /\ k - 1 \in a .. b /\ ~ (k <= k - 1)
  BY <1>4
<1>6. walk[k - 1] \in R
  BY <1>3, <1>5
<1>7. PICK d \in edges \cup {e} : d[1] = walk[k - 1] /\ d[2] = walk[k]
  BY <1>5 DEF Follows
<1>8. d \in edges
  BY <1>6, <1>7
<1>9. walk[k] \in R
  BY <1>6, <1>7, <1>8 DEF Closed
<1> QED
  BY <1>9

\* What the first relations of a manifest are.
LEMMA PrefixEdges ==
  ASSUME NEW X, NEW rels \in Seq(X), NEW k \in 1 .. Len(rels)
  PROVE  /\ Range(SubSeq(rels, 1, k - 1)) = {rels[i] : i \in 1 .. k - 1}
         /\ IsFiniteSet(Range(SubSeq(rels, 1, k - 1)))
<1>1. Len(rels) \in Nat /\ k - 1 \in 0 .. Len(rels)
  OBVIOUS
<1> DEFINE s == SubSeq(rels, 1, k - 1)
<1>2. /\ DOMAIN s = 1 .. k - 1
      /\ \A i \in 1 .. k - 1 : s[i] = rels[i]
  OBVIOUS
<1> HIDE DEF s
<1>3. Range(s) = {rels[i] : i \in 1 .. k - 1}
  BY <1>2 DEF Range
<1> DEFINE h == [i \in 1 .. k - 1 |-> rels[i]]
<1>4. h \in Surjection(1 .. k - 1, Range(s))
  BY <1>3 DEF Surjection
<1>5. IsFiniteSet(1 .. k - 1)
  BY <1>1, FS_Interval
<1>6. IsFiniteSet(Range(s))
  BY <1>4, <1>5, FS_Surjection
<1> QED
  BY <1>3, <1>6 DEF s

\* A graph that add_edge accepted edge by edge has no closed walk: the last
\* edge accepted of those on the walk would have closed it.
LEMMA AcceptedIsAcyclic ==
  ASSUME NEW X, NEW rels \in Seq(X),
         \A e \in Range(rels) : e = <<e[1], e[2]>>,
         GraphAccepts(rels),
         NEW n \in Nat, n >= 1, NEW walk, walk[0] = walk[n],
         \A i \in 1 .. n : <<walk[i - 1], walk[i]>> \in Range(rels)
  PROVE  FALSE
<1> DEFINE Edge(i) == <<walk[i - 1], walk[i]>>
           L == Len(rels)
<1>1. /\ L \in Nat /\ DOMAIN rels = 1 .. L
      /\ Range(rels) = {rels[i] : i \in 1 .. L}
  <2>1. L \in Nat /\ DOMAIN rels = 1 .. L
    OBVIOUS
  <2> QED
    BY <2>1 DEF Range
<1> DEFINE D == {k \in 0 .. L : \A i \in 1 .. n : \E j \in 1 .. k :
                                  rels[j] = Edge(i)}
<1>2. D \in SUBSET Nat /\ L \in D
  <2>1. \A i \in 1 .. n : \E j \in 1 .. L : rels[j] = Edge(i)
    BY <1>1
  <2>2. L \in 0 .. L /\ D \in SUBSET Nat
    BY <1>1
  <2> QED
    BY <2>1, <2>2
<1>3. PICK k \in D : \A j \in D : k <= j
  BY <1>2, LeastExists
<1>4. k # 0
  <2>1. 1 \in 1 .. n
    OBVIOUS
  <2>2. PICK j \in 1 .. k : rels[j] = Edge(1)
    BY <2>1
  <2> QED
    BY <2>2
<1>5. k \in 1 .. L /\ k - 1 \in 0 .. L /\ ~ (k <= k - 1)
  BY <1>1, <1>4
<1>6. k - 1 \notin D
  BY <1>3, <1>5
<1>7. PICK p \in 1 .. n : ~ \E j \in 1 .. k - 1 : rels[j] = Edge(p)
  BY <1>5, <1>6
<1>8. rels[k] = Edge(p)
  <2>1. PICK j \in 1 .. k : rels[j] = Edge(p)
    OBVIOUS
  <2>2. j = k
    BY <1>5, <1>7, <2>1
  <2> QED
    BY <2>1, <2>2
<1> DEFINE E == Range(SubSeq(rels, 1, k - 1))
           e == rels[k]
<1>9. E = {rels[i] : i \in 1 .. k - 1} /\ IsFiniteSet(E)
  BY <1>5, PrefixEdges
<1>10. ~ WouldCreateCycle(E, e)
  BY <1>1, <1>5 DEF GraphAccepts
<1>11. e[1] = walk[p - 1] /\ e[2] = walk[p]
  BY <1>8
<1>12. \A i \in 1 .. n : \E d \in E \cup {e} :
         d[1] = walk[i - 1] /\ d[2] = walk[i]
  <2> SUFFICES ASSUME NEW i \in 1 .. n
               PROVE  \E d \in E \cup {e} :
                        d[1] = walk[i - 1] /\ d[2] = walk[i]
    OBVIOUS
  <2>1. PICK j \in 1 .. k : rels[j] = Edge(i)
    OBVIOUS
  <2>2. rels[j] \in E \cup {e}
    <3>1. j = k \/ j \in 1 .. k - 1
      BY <1>1, <1>5
    <3> QED
      BY <1>9, <3>1
  <2>3. rels[j][1] = walk[i - 1] /\ rels[j][2] = walk[i]
    BY <2>1
  <2> QED
    BY <2>2, <2>3
<1> HIDE DEF E, e, D
<1>13. PICK R : R = Reached(E, e[2])
  OBVIOUS
<1>16. /\ e[2] \in R /\ e[1] \notin R
       /\ Closed(R, E)
  BY <1>9, <1>10, <1>13, ReachedIsClosed DEF Closed, WouldCreateCycle
<1>17. \A i \in p .. n : walk[i] \in R
  <2>1. \A i \in p + 1 .. n : i \in 1 .. n
    OBVIOUS
  <2>2. Follows(walk, E \cup {e}, p, n)
    BY <1>12, <2>1 DEF Follows
  <2>3. p \in Nat /\ walk[p] \in R
    BY <1>11, <1>16
  <2> QED
    BY <1>16, <2>2, <2>3, WalkStays
<1>18. walk[0] \in R
  BY <1>17
<1>19. \A i \in 0 .. p - 1 : walk[i] \in R
  <2>1. \A i \in 0 + 1 .. p - 1 : i \in 1 .. n
    OBVIOUS
  <2>2. Follows(walk, E \cup {e}, 0, p - 1)
    BY <1>12, <2>1 DEF Follows
  <2>3. 0 \in Nat /\ p - 1 \in Nat
    OBVIOUS
  <2> QED
    BY <1>16, <1>18, <2>2, <2>3, WalkStays
<1>20. walk[p - 1] \in R
  BY <1>19
<1> QED
  BY <1>11, <1>16, <1>20

\* LoadIsComplete, for every set of manifests, mods and migrations: six
\* completed phases without an error, the first perhaps skipped, leave a frozen
\* registry, the migrated schema with all its tables and tiers, an acyclic
\* relation graph and, under Strict, the mods of the manifest passed on.
THEOREM FinishedLoadIsComplete == Spec => []LoadIsComplete
<1>1. LoadInv => LoadIsComplete
  <2> SUFFICES ASSUME LoadInv, IsFinished, StopsOnError
               PROVE  LoadIsComplete
    BY DEF LoadIsComplete
  <2>1. Clean(LastPhase)
    <3>1. Len(completed) = 6
      BY DEF IsFinished, LastPhase
    <3>2. LastPhase \in succeeded
      <4>1. SUFFICES ASSUME LastPhase \notin succeeded PROVE FALSE
        OBVIOUS
      <4>2. current # 0
        <5>1. SUFFICES ASSUME completed = <<>> PROVE FALSE
          BY <4>1 DEF LoadInv, LengthInv
        <5> QED
          BY <3>1, <5>1
      <4>3. current \in 1 .. 6 /\ current > 0
        BY <4>2 DEF LoadInv, LoadTypeInv, LastPhase
      <4>4. Len(completed) < current
        BY <4>1, <4>3 DEF LoadInv, LengthInv
      <4> QED
        BY <3>1, <4>3, <4>4
    <3> QED
      BY <3>1, <3>2 DEF LoadInv, ProgressInv, LastPhase
  <2>2. /\ succeeded = (IF skipped THEN 2 ELSE 1) .. LastPhase /\ frozen
        /\ policy = "Strict" => finalMods \in {m.mods : m \in PassedOn}
        /\ \E m \in PassedOn : migrated = Migrated(m)
        /\ GraphAccepts(migrated.relations)
        /\ Range(migrated.tables) \subseteq tables
        /\ NonAuthorityTables \subseteq Derived
    BY <2>1 DEF Clean, LastPhase
  <2>0. PICK mf \in PassedOn : migrated = Migrated(mf)
    BY <2>2
  <2>9. mf \in Manifests
    BY <2>1, <2>0 DEF Clean, PassedOn, LastPhase
  <2>3. /\ mf = [version |-> mf.version, tables |-> mf.tables,
                 relations |-> mf.relations, mods |-> mf.mods]
        /\ mf.relations \in Seq(Range(mf.relations))
        /\ \A e \in Range(mf.relations) : e = <<e[1], e[2]>>
    BY <2>9, SessionAssumption
  <2>4. /\ pipelined => migrated.version = TargetVersion
        /\ migrated.relations = mf.relations
    BY <2>0, <2>3 DEF Migrated
  <2> DEFINE edges == Range(migrated.relations)
  <2>5. Cardinality(edges) \in Nat
    <3>1. PICK r : r = mf.relations
      OBVIOUS
    <3>2. r \in Seq(Range(r))
      BY <2>3, <3>1
    <3>3. Len(r) \in Nat /\ DOMAIN r = 1 .. Len(r)
      BY <3>2
    <3>4. r \in Surjection(1 .. Len(r), Range(r))
      BY <3>2, <3>3 DEF Surjection, Range
    <3>5. IsFiniteSet(1 .. Len(r))
      BY <3>3, FS_Interval
    <3> QED
      BY <2>4, <3>1, <3>4, <3>5, FS_Surjection, FS_CardinalityType
  <2>6. ASSUME NEW t \in Range(migrated.tables),
               NEW n \in 1 .. Cardinality(edges),
               NEW walk \in [0 .. n -> Range(migrated.tables)],
               walk[0] = t, walk[n] = t,
               \A i \in 1 .. n : <<walk[i - 1], walk[i]>> \in edges
        PROVE  FALSE
    <3>1. n \in Nat /\ n >= 1
      BY <2>5
    <3>2. PICK r : r = mf.relations
      OBVIOUS
    <3>3. /\ r \in Seq(Range(r)) /\ \A e \in Range(r) : e = <<e[1], e[2]>>
          /\ GraphAccepts(r) /\ edges = Range(r)
      BY <2>2, <2>3, <2>4, <3>2
    <3> QED
      BY <2>6, <3>1, <3>3, AcceptedIsAcyclic
  <2> QED
    BY <2>2, <2>4, <2>6 DEF LoadIsComplete
<1> QED
  BY <1>1, LoadInvariance, PTL

-----------------------------------------------------------------------------
(* The records a replay needs                                              *)

Newest(g) == g \in Whole /\ \A h \in Whole : h <= g

\* The save journal holds ticks, and the one of an append in progress.
InnerInv ==
  /\ inner \in Seq(Gens)
  /\ call.kind = "append" => up /\ committed + 1 \in Range(inner)

\* A retention deletes from the oldest end.
OldestInv ==
  call.step = "retain" =>
    \A v \in call.victims : \A h \in Listed : h < v => h \in call.victims

\* The records after the newest complete snapshot are in the journal file
\* and in the save journal of the running process.
LogInv ==
  \A g \in Gens : Newest(g) =>
    \A t \in g + 1 .. committed : t \in jfile /\ (up => t \in Range(inner))

ReplayInv == InnerInv /\ OldestInv /\ LogInv

\* An ascending sequence of a finite set has all its members.
LEMMA AscendingOnto ==
  ASSUME NEW S, IsFiniteSet(S), NEW s \in Ascending(S)
  PROVE  s \in Seq(S) /\ \A x \in S : \E i \in DOMAIN s : s[i] = x
<1> DEFINE c == Cardinality(S)
           D == 1 .. c
<1>1. c \in Nat
  BY FS_CardinalityType
<1>2. s \in [1 .. c -> S] /\ \A i, j \in 1 .. c : s[i] = s[j] => i = j
  BY DEF Ascending, SetToSeqs
<1>3. Cardinality(1 .. c) = c
  <2>1. c \in Int /\ 1 \in Int /\ (1 > c => c = 0) /\ (~(1 > c) => c - 1 + 1 = c)
    BY <1>1
  <2> QED
    BY <2>1, FS_Interval
<1>4. /\ Cardinality(D) = Cardinality(S) /\ s \in [D -> S]
      /\ \A i, j \in D : s[i] = s[j] => i = j
  BY <1>2, <1>3
<1>5. s \in Seq(S)
  BY <1>1, <1>2
<1> HIDE DEF D, c
<1>6. \A x \in S : \E i \in D : s[i] = x
  BY <1>4, InjectionOnto
<1> QED
  BY <1>4, <1>5, <1>6

\* The records after a tick survive a truncate_before of that tick, and the
\* read-back of the journal file has them all.
LEMMA TruncationKeeps ==
  ASSUME NEW t \in Gens, inner \in Seq(Gens), TruncateBefore(t)
  PROVE  /\ inner' \in Seq(Gens)
         /\ \A r \in Range(inner) : r >= t => r \in Range(inner')
<1> DEFINE S == {i \in DOMAIN inner : inner[i] >= t}
<1>1. PICK kept \in Ascending(S) : inner' = [k \in DOMAIN kept |-> inner[kept[k]]]
  BY DEF TruncateBefore
<1>2. DOMAIN inner = 1 .. Len(inner) /\ Len(inner) \in Nat /\ S \subseteq 1 .. Len(inner)
  OBVIOUS
<1>3. IsFiniteSet(S)
  <2>1. 1 \in Int /\ Len(inner) \in Int
    BY <1>2
  <2>2. IsFiniteSet(1 .. Len(inner))
    BY <2>1, FS_Interval
  <2> QED
    BY <1>2, <2>2, FS_Subset
<1>4. kept \in Seq(S) /\ \A x \in S : \E i \in DOMAIN kept : kept[i] = x
  BY <1>3, AscendingOnto
<1>5. inner' \in Seq(Gens)
  <2>1. DOMAIN kept = 1 .. Len(kept) /\ Len(kept) \in Nat
        /\ \A k \in 1 .. Len(kept) : kept[k] \in 1 .. Len(inner)
    BY <1>2, <1>4
  <2>2. \A i \in 1 .. Len(inner) : inner[i] \in Gens
    OBVIOUS
  <2>3. inner' \in [1 .. Len(kept) -> Gens]
    BY <1>1, <2>1, <2>2
  <2> QED
    BY <2>1, <2>3
<1>6. ASSUME NEW r \in Range(inner), r >= t PROVE r \in Range(inner')
  <2>1. PICK i \in DOMAIN inner : inner[i] = r
    BY DEF Range
  <2>2. i \in S
    BY <1>6, <2>1
  <2>3. PICK k \in DOMAIN kept : kept[k] = i
    BY <1>4, <2>2
  <2> HIDE DEF S
  <2>4. k \in DOMAIN inner' /\ inner'[k] = r
    BY <1>1, <2>1, <2>3
  <2> QED
    BY <2>4 DEF Range
<1> QED
  BY <1>5, <1>6

\* The records a resumed application has read back are the ones of the journal
\* file past its snapshot.
LEMMA ReadBack ==
  ASSUME SaveTypeInv, Resume
  PROVE  /\ inner' \in Seq(Gens)
         /\ \A t \in jfile : t > Latest => t \in Range(inner')
<1> DEFINE S == {t \in jfile : t > Latest}
<1>1. inner' \in Ascending(S)
  BY DEF Resume
<1>2. S \subseteq Gens /\ IsFiniteSet(S)
  BY GensFinite, FS_Subset DEF SaveTypeInv
<1>3. inner' \in Seq(S) /\ \A x \in S : \E i \in DOMAIN inner' : inner'[i] = x
  BY <1>1, <1>2, AscendingOnto
<1>4. inner' \in Seq(Gens)
  <2> HIDE DEF S
  <2>1. Len(inner') \in Nat /\ inner' \in [1 .. Len(inner') -> S]
    BY <1>3
  <2>2. inner' \in [1 .. Len(inner') -> Gens]
    BY <1>2, <2>1
  <2> QED
    BY <2>1, <2>2
<1> QED
  BY <1>3, <1>4 DEF Range

\* An append adds its record and keeps the others.
LEMMA AppendKeeps ==
  ASSUME SaveTypeInv, inner \in Seq(Gens), Append1
  PROVE  /\ inner' \in Seq(Gens) /\ committed + 1 \in Range(inner')
         /\ \A r \in Range(inner) : r \in Range(inner')
<1>1. committed + 1 \in Gens /\ inner' = Append(inner, committed + 1)
  BY SaveAssumption DEF Append1, SaveTypeInv, Gens
<1>2. inner' \in Seq(Gens)
  BY <1>1
<1>3. /\ Len(inner) \in Nat /\ DOMAIN inner = 1 .. Len(inner)
      /\ DOMAIN inner' = 1 .. Len(inner) + 1 /\ inner'[Len(inner) + 1] = committed + 1
      /\ \A i \in 1 .. Len(inner) : inner'[i] = inner[i]
  BY <1>1
<1>4. Len(inner) + 1 \in DOMAIN inner' /\ \A i \in DOMAIN inner : i \in DOMAIN inner'
  BY <1>3
<1> QED
  BY <1>2, <1>3, <1>4 DEF Range

\* Every step keeps the save journal in order.
LEMMA InnerStep ==
  ASSUME SaveTypeInv, DiskInv, CallInv, InnerInv,
         SaveStep \/ Resume \/ UNCHANGED saveVars
  PROVE  InnerInv'
<1>1. CASE AppendRecord \/ AppendFails
  <2>1. call' = call /\ call = Idle
    BY <1>1 DEF AppendRecord, AppendFails, Append1
  <2>2. inner' \in Seq(Gens)
    BY <1>1, AppendKeeps DEF AppendRecord, AppendFails, InnerInv
  <2> QED
    BY <2>1, <2>2 DEF InnerInv, Idle
<1>2. CASE AppendAtThreshold
  <2>1. up' /\ committed' = committed
    BY <1>2 DEF AppendAtThreshold, Append1
  <2> QED
    BY <1>2, <2>1, AppendKeeps DEF AppendAtThreshold, InnerInv
<1>3. CASE Resume
  <2>1. call' = call /\ call = Idle
    BY <1>3 DEF Resume, CallInv
  <2> QED
    BY <1>3, <2>1, ReadBack DEF InnerInv, Idle
<1>4. CASE \E t \in Gens : TruncateBefore(t)
  <2>1. call' = call /\ call = Idle
    BY <1>4 DEF TruncateBefore
  <2>2. inner' \in Seq(Gens)
    BY <1>4, TruncationKeeps DEF InnerInv
  <2> QED
    BY <2>1, <2>2 DEF InnerInv, Idle
<1>5. CASE Crash
  <2>1. inner' = <<>> /\ call' = Idle
    BY <1>5 DEF Crash
  <2> QED
    BY <2>1 DEF InnerInv, Idle
<1>6. CASE TruncateJournal \/ CallFails
  <2>1. inner' = inner /\ call' = Idle
    BY <1>6 DEF TruncateJournal, CallFails, memVars
  <2> QED
    BY <2>1 DEF InnerInv, Idle
<1>7. CASE RetentionDone
  <2>1. inner' = inner
    BY <1>7 DEF RetentionDone
  <2>2. call'.kind # "append"
    <3>1. CASE call.kind = "append" \/ call.kind = "manager"
      BY <1>7, <3>1 DEF RetentionDone, Idle
    <3>2. CASE call.kind # "append" /\ call.kind # "manager"
      <4>1. call' = [call EXCEPT !.step = "truncate"]
        BY <1>7, <3>2 DEF RetentionDone
      <4> QED
        BY <3>2, <4>1 DEF SaveTypeInv, Call
    <3> QED
      BY <3>1, <3>2
  <2> QED
    BY <2>1, <2>2 DEF InnerInv
<1>8. CASE DeleteVictim
  <2>1. /\ inner' = inner /\ committed' = committed /\ up' = up
        /\ call' = [call EXCEPT !.victims = @ \ {Min(call.victims)}]
    BY <1>8 DEF DeleteVictim, memVars
  <2>2. call'.kind = call.kind
    BY <2>1 DEF SaveTypeInv, Call
  <2> QED
    BY <2>1, <2>2 DEF InnerInv
<1>9. CASE BeginCheckpoint \/ BeginSave \/ FinishWrite \/ Rename
  <2>1. inner' = inner
    BY <1>9 DEF BeginCheckpoint, BeginSave, FinishWrite, Rename, memVars
  <2>2. call'.kind # "append"
    <3>1. CASE BeginCheckpoint \/ BeginSave
      BY <3>1 DEF BeginCheckpoint, BeginSave
    <3>2. CASE FinishWrite \/ Rename
      <4>1. call.kind \in {"checkpoint", "manager"}
        BY <3>2 DEF FinishWrite, Rename, CallInv
      <4>2. call'.kind = call.kind
        BY <3>2 DEF FinishWrite, Rename, SaveTypeInv, Call
      <4> QED
        BY <4>1, <4>2
    <3> QED
      BY <1>9, <3>1, <3>2
  <2> QED
    BY <2>1, <2>2 DEF InnerInv
<1>10. CASE NewGame \/ \E g \in Gens : DeleteTorn(g)
  <2>1. inner' = inner /\ call' = call /\ call = Idle
    BY <1>10 DEF NewGame, DeleteTorn, memVars, CallInv
  <2> QED
    BY <2>1 DEF InnerInv, Idle
<1>11. CASE UNCHANGED saveVars
  BY <1>11 DEF InnerInv, saveVars, memVars
<1> QED
  BY <1>1, <1>2, <1>3, <1>4, <1>5, <1>6, <1>7, <1>8, <1>9, <1>10, <1>11 DEF SaveStep

\* What is older than a victim of the retention is a victim.
LEMMA VictimsOldest ==
  ASSUME NEW files \in SUBSET Gens, NEW v \in Victims(files), NEW h \in files, h < v
  PROVE  h \in Victims(files)
<1> DEFINE newer(x) == {k \in files : k > x}
<1>1. \A k \in files : k \in Nat
  BY SaveAssumption DEF Gens
<1>2. v \in files /\ Cardinality(newer(v)) >= MaxSnapshots
  BY DEF Victims
<1>3. newer(v) \subseteq newer(h)
  BY <1>1, <1>2
<1>4. IsFiniteSet(newer(h))
  BY GensFinite, FS_Subset
<1>5. /\ Cardinality(newer(v)) <= Cardinality(newer(h))
      /\ Cardinality(newer(v)) \in Nat /\ Cardinality(newer(h)) \in Nat
  <2>1. IsFiniteSet(newer(v))
    BY <1>3, <1>4, FS_Subset
  <2> HIDE DEF newer
  <2> QED
    BY <1>3, <1>4, <2>1, FS_Subset, FS_CardinalityType
<1>6. Cardinality(newer(h)) >= MaxSnapshots
  BY <1>2, <1>5, SaveAssumption
<1> QED
  BY <1>6 DEF Victims

\* Every step leaves a retention that deletes from the oldest end.
LEMMA OldestStep ==
  ASSUME SaveTypeInv, DiskInv, CallInv, OldestInv,
         SaveStep \/ Resume \/ UNCHANGED saveVars
  PROVE  OldestInv'
<1>0. Listed \in SUBSET Gens /\ \A g \in Gens : g \in Nat
  BY SaveAssumption DEF Listed, Gens
<1>1. CASE AppendAtThreshold
  <2>1. call'.victims = Victims(Listed) /\ file' = file
    BY <1>1 DEF AppendAtThreshold, Append1
  <2>2. Listed' = Listed
    BY <2>1 DEF Listed
  <2> QED
    BY <1>0, <2>1, <2>2, VictimsOldest DEF OldestInv
<1>2. CASE FinishWrite
  <2>1. CASE call.kind = "checkpoint"
    <3>1. /\ call'.victims = Victims(Listed) /\ committed \in Gens
          /\ file' = [file EXCEPT ![committed] = "whole"]
      BY <1>2, <2>1 DEF FinishWrite, SaveTypeInv, Call, CallInv
    <3>2. Listed' = Listed \cup {committed}
      BY <3>1 DEF Listed, SaveTypeInv
    <3>3. ASSUME NEW v \in Victims(Listed), NEW h \in Listed', h < v
          PROVE  h \in Victims(Listed)
      <4>1. v \in Listed /\ v <= committed /\ v \in Nat /\ committed \in Nat
        BY <1>0, <3>1 DEF Victims, DiskInv
      <4>2. h # committed
        BY <3>3, <4>1
      <4>3. h \in Listed
        BY <3>2, <4>2
      <4> QED
        BY <1>0, <3>3, <4>3, VictimsOldest
    <3> QED
      BY <3>1, <3>3 DEF OldestInv
  <2>2. CASE call.kind # "checkpoint"
    <3>1. call'.step = "rename"
      BY <1>2, <2>2 DEF FinishWrite, SaveTypeInv, Call
    <3> QED
      BY <3>1 DEF OldestInv
  <2> QED
    BY <2>1, <2>2
<1>3. CASE Rename
  <2>1. /\ call'.victims = Victims(Listed \cup {committed}) /\ committed \in Gens
        /\ file' = [file EXCEPT ![committed] = "whole"]
    BY <1>3, FileChange DEF Rename, SaveTypeInv, Call
  <2>2. Listed' = Listed \cup {committed}
    BY <2>1 DEF Listed, SaveTypeInv
  <2>3. Listed \cup {committed} \in SUBSET Gens
    BY <1>0, <2>1
  <2> QED
    BY <2>1, <2>2, <2>3, VictimsOldest DEF OldestInv
<1>4. CASE DeleteVictim
  <2> DEFINE m == Min(call.victims)
  <2>1. /\ call.step = "retain" /\ m \in Gens /\ file' = [file EXCEPT ![m] = "none"]
        /\ call' = [call EXCEPT !.victims = @ \ {m}]
    BY <1>4, FileChange DEF DeleteVictim
  <2> HIDE DEF m
  <2>2. call'.victims = call.victims \ {m}
    BY <2>1 DEF SaveTypeInv, Call
  <2>3. Listed' = Listed \ {m}
    BY <2>1 DEF Listed, SaveTypeInv
  <2> QED
    BY <2>1, <2>2, <2>3 DEF OldestInv
<1>5. CASE RetentionDone
  <2>1. call'.step # "retain"
    BY <1>5 DEF RetentionDone, Idle, SaveTypeInv, Call
  <2> QED
    BY <2>1 DEF OldestInv
<1>6. CASE BeginCheckpoint \/ BeginSave \/ TruncateJournal \/ CallFails \/ Crash
  <2>1. call'.step # "retain"
    BY <1>6 DEF BeginCheckpoint, BeginSave, TruncateJournal, CallFails, Crash, Idle
  <2> QED
    BY <2>1 DEF OldestInv
<1>7. CASE \/ AppendRecord \/ AppendFails \/ NewGame \/ Resume
           \/ \E t \in Gens : TruncateBefore(t)
           \/ \E g \in Gens : DeleteTorn(g)
  <2>1. call' = call /\ call = Idle
    BY <1>7 DEF AppendRecord, AppendFails, Append1, NewGame, Resume, TruncateBefore,
       DeleteTorn, CallInv
  <2> QED
    BY <2>1 DEF OldestInv, Idle
<1>8. CASE UNCHANGED saveVars
  BY <1>8 DEF OldestInv, Listed, saveVars, diskVars
<1> QED
  BY <1>1, <1>2, <1>3, <1>4, <1>5, <1>6, <1>7, <1>8 DEF SaveStep

\* Every step keeps the records after the newest complete snapshot.
LEMMA LogStep ==
  ASSUME SaveTypeInv, DiskInv, CallInv, ReplayInv,
         SaveStep \/ Resume \/ UNCHANGED saveVars
  PROVE  LogInv'
<1>0. /\ \A g \in Gens : g \in Nat /\ committed \in Nat /\ MaxTick \in Nat
      /\ Whole \in SUBSET Gens /\ Whole \subseteq Listed
  BY SaveAssumption DEF Gens, Whole, Listed, SaveTypeInv
<1> SUFFICES ASSUME NEW g \in Gens, Newest(g)', NEW t \in g + 1 .. committed'
             PROVE  t \in jfile' /\ (up' => t \in Range(inner'))
  BY DEF LogInv
<1>1. g \in Nat /\ t \in Nat /\ t > g /\ t <= committed'
  <2>1. committed' \in 0 .. MaxTick
    BY SaveTypeStep DEF SaveTypeInv
  <2> QED
    BY <1>0, <2>1
<1>2. ASSUME Newest(g), t <= committed
      PROVE  t \in jfile /\ (up => t \in Range(inner))
  <2>1. t \in g + 1 .. committed
    BY <1>0, <1>1, <1>2
  <2> QED
    BY <1>2, <2>1 DEF ReplayInv, LogInv
<1>3. CASE BeginCheckpoint \/ \E x \in Gens : DeleteTorn(x)
  <2>1. Whole' = Whole
    BY <1>3 DEF BeginCheckpoint, DeleteTorn, Whole, SaveTypeInv
  <2>2. /\ committed' = committed /\ jfile' = jfile /\ up' = up /\ inner' = inner
    BY <1>3 DEF BeginCheckpoint, DeleteTorn, memVars
  <2> QED
    BY <1>1, <1>2, <2>1, <2>2 DEF Newest
<1>4. CASE FinishWrite \/ Rename
  <2>1. committed' = committed /\ jfile' = jfile /\ up' = up /\ inner' = inner
    BY <1>4 DEF FinishWrite, Rename, memVars
  <2>2. CASE file' = file
    <3>1. Whole' = Whole
      BY <2>2 DEF Whole
    <3> QED
      BY <1>1, <1>2, <2>1, <3>1 DEF Newest
  <2>3. CASE committed \in Gens /\ file' = [file EXCEPT ![committed] = "whole"]
    <3>1. committed \in Whole'
      BY <2>3 DEF Whole, SaveTypeInv
    <3>2. committed <= g
      BY <3>1 DEF Newest
    <3> QED
      BY <1>0, <1>1, <2>1, <3>2
  <2> QED
    BY <1>4, <2>2, <2>3, FileChange
<1>5. CASE DeleteVictim
  <2> DEFINE m == Min(call.victims)
  <2>1. /\ call.step = "retain" /\ m \in call.victims /\ m \in Gens
        /\ \A x \in call.victims : m <= x /\ x \in Gens
        /\ file' = [file EXCEPT ![m] = "none"]
    BY <1>5, FileChange DEF DeleteVictim, SaveTypeInv, Call
  <2>2. committed' = committed /\ jfile' = jfile /\ up' = up /\ inner' = inner
    BY <1>5 DEF DeleteVictim, memVars
  <2> HIDE DEF m
  <2>3. Whole' = Whole \ {m}
    BY <2>1 DEF Whole, SaveTypeInv
  <2>4. g \in Whole /\ g # m /\ \A h \in Whole : h # m => h <= g
    BY <2>3 DEF Newest
  <2>5. m <= g
    <3>1. SUFFICES ASSUME g < m PROVE FALSE
      BY <1>0, <2>1
    <3>2. g \in call.victims
      BY <1>0, <2>1, <2>4, <3>1 DEF ReplayInv, OldestInv
    <3> QED
      BY <1>0, <2>1, <3>1, <3>2
  <2>6. Newest(g)
    BY <2>4, <2>5 DEF Newest
  <2> QED
    BY <1>1, <1>2, <2>2, <2>6
<1>6. CASE file' = file
  <2>0. Whole' = Whole /\ Newest(g)
    BY <1>6 DEF Whole, Newest
  <2>1. CASE AppendRecord
    <3>1. /\ committed' = committed + 1 /\ jfile' = jfile \cup {committed + 1} /\ up
      BY <2>1 DEF AppendRecord, Append1, Committed
    <3>2. /\ committed + 1 \in Range(inner')
          /\ \A r \in Range(inner) : r \in Range(inner')
      BY <2>1, AppendKeeps DEF AppendRecord, ReplayInv, InnerInv
    <3>3. t = committed + 1 \/ t <= committed
      BY <1>0, <1>1, <3>1
    <3> QED
      BY <1>2, <2>0, <3>1, <3>2, <3>3
  <2>2. CASE AppendAtThreshold \/ AppendFails
    <3>1. committed' = committed /\ jfile' = jfile /\ up' = up
      BY <2>2 DEF AppendAtThreshold, AppendFails, Append1
    <3>2. \A r \in Range(inner) : r \in Range(inner')
      BY <2>2, AppendKeeps DEF AppendAtThreshold, AppendFails, ReplayInv, InnerInv
    <3> QED
      BY <1>1, <1>2, <2>0, <3>1, <3>2
  <2>3. CASE RetentionDone
    <3>1. inner' = inner /\ up' = up
      BY <2>3 DEF RetentionDone
    <3>2. CASE call.kind = "append"
      <4>1. /\ committed' = committed + 1 /\ jfile' = jfile \cup {committed + 1}
            /\ committed + 1 \in Range(inner)
        BY <2>3, <3>2 DEF RetentionDone, Committed, ReplayInv, InnerInv
      <4>2. t = committed + 1 \/ t <= committed
        BY <1>0, <1>1, <4>1
      <4> QED
        BY <1>2, <2>0, <3>1, <4>1, <4>2
    <3>3. CASE call.kind # "append"
      <4>1. committed' = committed /\ jfile' = jfile
        BY <2>3, <3>3 DEF RetentionDone
      <4> QED
        BY <1>1, <1>2, <2>0, <3>1, <4>1
    <3> QED
      BY <3>2, <3>3
  <2>4. CASE TruncateJournal
    <3>1. committed' = committed /\ committed \in Whole
      BY <2>4 DEF TruncateJournal, CallInv, Whole
    <3>2. committed <= g
      BY <2>0, <3>1 DEF Newest
    <3> QED
      BY <1>0, <1>1, <3>1, <3>2
  <2>5. CASE \E x \in Gens : TruncateBefore(x)
    <3>1. PICK x \in Gens : TruncateBefore(x)
      BY <2>5
    <3>2. /\ committed' = committed /\ jfile' = jfile /\ up' = up /\ x \in Whole
      BY <3>1 DEF TruncateBefore, diskVars
    <3>3. t >= x
      <4>1. x <= g /\ x \in Nat
        BY <1>0, <2>0, <3>2 DEF Newest
      <4> QED
        BY <1>1, <4>1
    <3>4. \A r \in Range(inner) : r >= x => r \in Range(inner')
      BY <3>1, TruncationKeeps DEF ReplayInv, InnerInv
    <3> QED
      BY <1>1, <1>2, <2>0, <3>2, <3>3, <3>4
  <2>6. CASE Crash
    <3>1. committed' = committed /\ jfile' = jfile /\ ~up'
      BY <2>6 DEF Crash, diskVars
    <3> QED
      BY <1>1, <1>2, <2>0, <3>1
  <2>7. CASE NewGame
    <3>1. committed' = 0
      BY <2>7 DEF NewGame
    <3> QED
      BY <1>1, <3>1
  <2>8. CASE Resume
    <3>1. /\ committed' \in {Latest} \cup jfile
          /\ Latest \in Gens /\ file[Latest] = "whole" /\ jfile' = jfile
      BY <2>8, ResumeCommit DEF Resume, diskVars
    <3>2. Latest \in Whole /\ Latest <= g /\ Latest \in Nat
      BY <1>0, <2>0, <3>1 DEF Newest, Whole
    <3>3. t > Latest
      BY <1>1, <3>2
    <3>4. t <= committed
      <4>1. committed' # Latest
        BY <1>1, <3>2
      <4>2. committed' \in jfile
        BY <3>1, <4>1
      <4>3. committed' <= committed /\ committed' \in Nat
        BY <1>0, <4>2 DEF DiskInv, SaveTypeInv
      <4> QED
        BY <1>0, <1>1, <4>3
    <3>5. t \in jfile
      BY <1>2, <2>0, <3>4
    <3>6. t \in Range(inner')
      BY <2>8, <3>3, <3>5, ReadBack
    <3> QED
      BY <3>1, <3>5, <3>6
  <2>9. CASE BeginSave \/ CallFails \/ UNCHANGED saveVars
    <3>1. committed' = committed /\ jfile' = jfile /\ up' = up /\ inner' = inner
      BY <2>9 DEF BeginSave, CallFails, saveVars, memVars, diskVars
    <3> QED
      BY <1>1, <1>2, <2>0, <3>1
  <2> QED
    BY <1>3, <1>4, <1>5, <2>1, <2>2, <2>3, <2>4, <2>5, <2>6, <2>7, <2>8, <2>9 DEF SaveStep
<1> QED
  BY <1>3, <1>4, <1>5, <1>6, FileUnchanged

\* The records a replay needs are there, in every session.
THEOREM ReplayInvariance == Spec => []ReplayInv
<1>1. Init => ReplayInv
  <2>1. SUFFICES ASSUME Init PROVE ReplayInv
    OBVIOUS
  <2>2. inner = <<>> /\ call = Idle /\ Whole = {}
    BY <2>1 DEF Init, SaveInit, Whole
  <2>3. InnerInv /\ OldestInv
    BY <2>2 DEF InnerInv, OldestInv, Idle
  <2>4. LogInv
    BY <2>2 DEF LogInv, Newest
  <2> QED
    BY <2>3, <2>4 DEF ReplayInv
<1>2. SaveInv /\ ReplayInv /\ [Next]_vars => ReplayInv'
  BY SaveSteps, InnerStep, OldestStep, LogStep DEF SaveInv, ReplayInv
<1> QED
  BY <1>1, <1>2, SaveInvariance, PTL DEF Spec

-----------------------------------------------------------------------------
(* The hash of a replay                                                    *)
(*                                                                         *)
(* LiveHash and ReplayDiffs fold the hashes of the records in an order     *)
(* that FoldFunction leaves open.  The folds below are those, on every     *)
(* subset of their domain; addition modulo HashMod makes them independent  *)
(* of the order, which is what lets the replayed hash be compared with the *)
(* live one.                                                               *)

\* The quotient and the remainder by HashMod.
LEMMA ModFacts ==
  ASSUME NEW n \in Nat
  PROVE  /\ n % HashMod \in 0 .. HashMod - 1 /\ n \div HashMod \in Nat
         /\ n = HashMod * (n \div HashMod) + (n % HashMod)
<1>1. HashMod \in Nat \ {0}
  BY SaveAssumption
<1> QED
  BY <1>1, SMTT(20)

\* The remainder is unique.
LEMMA ModUnique ==
  ASSUME NEW M \in Nat \ {0}, NEW q1 \in Int, NEW q2 \in Int,
         NEW r1 \in 0 .. M - 1, NEW r2 \in 0 .. M - 1,
         M * q1 + r1 = M * q2 + r2
  PROVE  r1 = r2
<1>1. M * (q1 - q2) = r2 - r1
  BY SMTT(20)
<1>2. CASE q1 - q2 >= 1
  <2>1. M * (q1 - q2) >= M
    BY <1>2, SMTT(20)
  <2> QED
    BY <1>1, <2>1
<1>3. CASE q1 - q2 <= -1
  <2>1. M * (q1 - q2) <= -M
    BY <1>3, SMTT(20)
  <2> QED
    BY <1>1, <2>1
<1>4. CASE q1 = q2
  BY <1>4
<1> QED
  BY <1>2, <1>3, <1>4

\* Reducing a summand does not change the reduced sum.
LEMMA ModAdd ==
  ASSUME NEW a \in Nat, NEW n \in Nat
  PROVE  (a + (n % HashMod)) % HashMod = (a + n) % HashMod
<1> DEFINE r == n % HashMod
           q == n \div HashMod
<1>0. HashMod \in Nat \ {0}
  BY SaveAssumption
<1>1. r \in 0 .. HashMod - 1 /\ q \in Nat /\ n = HashMod * q + r
  BY ModFacts
<1> HIDE DEF r, q
<1>2. a + r \in Nat /\ a + n \in Nat
  BY <1>0, <1>1
<1> DEFINE r1 == (a + r) % HashMod
           q1 == (a + r) \div HashMod
           r2 == (a + n) % HashMod
           q2 == (a + n) \div HashMod
<1>3. r1 \in 0 .. HashMod - 1 /\ q1 \in Nat /\ a + r = HashMod * q1 + r1
  BY <1>2, ModFacts
<1>4. r2 \in 0 .. HashMod - 1 /\ q2 \in Nat /\ a + n = HashMod * q2 + r2
  BY <1>2, ModFacts
<1> HIDE DEF r1, r2, q1, q2
<1>5. HashMod * q2 + r2 = HashMod * (q1 + q) + r1
  <2>1. a + n = HashMod * q1 + r1 + HashMod * q
    BY <1>0, <1>1, <1>3
  <2>2. HashMod * (q1 + q) = HashMod * q1 + HashMod * q
    BY <1>0, <1>1, <1>3
  <2> QED
    BY <1>0, <1>1, <1>3, <1>4, <2>1, <2>2
<1>6. q1 + q \in Int /\ q2 \in Int
  BY <1>1, <1>3, <1>4
<1>7. r2 = r1
  BY <1>0, <1>3, <1>4, <1>5, <1>6, ModUnique
<1> QED
  BY <1>7 DEF r1, r2, r

\* Two hashes may be added in either order.
LEMMA ModSwap ==
  ASSUME NEW a \in Nat, NEW b \in Nat, NEW c \in Nat
  PROVE  (a + ((b + c) % HashMod)) % HashMod = (b + ((a + c) % HashMod)) % HashMod
<1> DEFINE x == b + c
           y == a + c
<1>1. x \in Nat /\ y \in Nat /\ a + x = b + y
  OBVIOUS
<1> HIDE DEF x, y
<1>2. (a + (x % HashMod)) % HashMod = (a + x) % HashMod
  BY <1>1, ModAdd
<1>3. (b + (y % HashMod)) % HashMod = (b + y) % HashMod
  BY <1>1, ModAdd
<1>4. (a + (x % HashMod)) % HashMod = (b + (y % HashMod)) % HashMod
  BY <1>1, <1>2, <1>3
<1> QED
  BY <1>4 DEF x, y

\* One step of a fold, and the fold itself: the body of FoldFunction.
FoldStep(f, base, fun, s) ==
  IF s = {} THEN base
  ELSE LET x == CHOOSE x \in s : TRUE IN (fun[x] + f[s \ {x}]) % HashMod

HashFold(f, base, fun, D) == f = [s \in SUBSET D |-> FoldStep(f, base, fun, s)]

\* A set without one of its members.
LEMMA Without ==
  ASSUME NEW D, IsFiniteSet(D), NEW s \in SUBSET D, NEW x \in s
  PROVE  /\ s \ {x} \in SUBSET D
         /\ Cardinality(s) \in Nat /\ Cardinality(s \ {x}) \in Nat
         /\ Cardinality(s \ {x}) = Cardinality(s) - 1
<1>1. IsFiniteSet(s)
  BY FS_Subset
<1>2. IsFiniteSet(s \ {x}) /\ Cardinality(s \ {x}) = Cardinality(s) - 1
  BY <1>1, FS_RemoveElement
<1> QED
  BY <1>1, <1>2, FS_CardinalityType

\* The fold over a finite domain exists.
LEMMA FoldExists ==
  ASSUME NEW base, NEW fun, NEW D, IsFiniteSet(D)
  PROVE  \E f : HashFold(f, base, fun, D)
<1> DEFINE Upto(f, k) == /\ f = [s \in SUBSET D |-> f[s]]
                         /\ \A s \in SUBSET D : Cardinality(s) <= k =>
                              f[s] = FoldStep(f, base, fun, s)
           Bad == {k \in Nat : ~ \E f : Upto(f, k)}
<1>1. \A s \in SUBSET D : Cardinality(s) \in Nat /\ Cardinality(s) <= Cardinality(D)
  BY FS_Subset, FS_CardinalityType
<1>2. Cardinality(D) \in Nat
  BY FS_CardinalityType
<1>3. Bad = {}
  <2>1. SUFFICES ASSUME Bad # {} PROVE FALSE
    OBVIOUS
  <2>2. Bad \in SUBSET Nat
    OBVIOUS
  <2>3. PICK k \in Bad : \A y \in Bad : k <= y
    <3> HIDE DEF Bad
    <3> QED
      BY <2>1, <2>2, LeastExists
  <2>4. k # 0
    <3>1. SUFFICES ASSUME k = 0 PROVE FALSE
      OBVIOUS
    <3> DEFINE f == [s \in SUBSET D |-> base]
    <3>2. \A s \in SUBSET D : Cardinality(s) <= 0 => s = {}
      BY <1>1, FS_EmptySet, FS_Subset
    <3>3. Upto(f, 0)
      BY <3>2 DEF FoldStep
    <3> QED
      BY <2>3, <3>1, <3>3
  <2>5. k - 1 \in Nat /\ k - 1 \notin Bad
    <3>1. k \in Nat
      BY <2>3
    <3> HIDE DEF Bad
    <3> QED
      BY <2>3, <2>4, <3>1
  <2>6. PICK f : Upto(f, k - 1)
    BY <2>5
  <2> DEFINE g == [s \in SUBSET D |-> FoldStep(f, base, fun, s)]
  <2>7. ASSUME NEW s \in SUBSET D, Cardinality(s) <= k
        PROVE  g[s] = FoldStep(g, base, fun, s)
    <3>1. CASE s = {}
      BY <3>1 DEF FoldStep
    <3>2. CASE s # {}
      <4> DEFINE x == CHOOSE x \in s : TRUE
      <4>1. x \in s
        BY <3>2
      <4> HIDE DEF x
      <4>2. /\ s \ {x} \in SUBSET D /\ Cardinality(s \ {x}) <= k - 1
        BY <2>3, <2>7, <4>1, Without
      <4>3. g[s \ {x}] = FoldStep(f, base, fun, s \ {x})
        BY <4>2
      <4>4. f[s \ {x}] = FoldStep(f, base, fun, s \ {x})
        BY <2>6, <4>2
      <4>5. g[s \ {x}] = f[s \ {x}]
        BY <4>3, <4>4
      <4> HIDE DEF g
      <4>6. FoldStep(g, base, fun, s) = FoldStep(f, base, fun, s)
        BY <3>2, <4>5 DEF FoldStep, x
      <4> QED
        BY <4>6 DEF g
    <3> QED
      BY <3>1, <3>2
  <2>8. Upto(g, k)
    BY <2>7
  <2> QED
    BY <2>3, <2>8
<1>4. PICK f : Upto(f, Cardinality(D))
  BY <1>2, <1>3
<1>5. \A s \in SUBSET D : f[s] = FoldStep(f, base, fun, s)
  BY <1>1, <1>4
<1> QED
  BY <1>4, <1>5 DEF HashFold

\* What a fold computes, without the order in which it does.
Additive(f, base, fun, D) ==
  /\ f[{}] = base
  /\ \A s \in SUBSET D : f[s] \in 0 .. HashMod - 1
  /\ \A s \in SUBSET D : \A x \in s : f[s] = (fun[x] + f[s \ {x}]) % HashMod

\* The fold gives the same whichever member comes first.
LEMMA OrderFree ==
  ASSUME NEW base \in 0 .. HashMod - 1, NEW D, IsFiniteSet(D),
         NEW fun \in [D -> Nat], NEW f, HashFold(f, base, fun, D)
  PROVE  Additive(f, base, fun, D)
<1>0. HashMod \in Nat \ {0}
  BY SaveAssumption
<1>1. \A s \in SUBSET D : f[s] = FoldStep(f, base, fun, s)
  BY DEF HashFold
<1>2. f[{}] = base
  BY <1>1 DEF FoldStep
<1> DEFINE Bad == {k \in Nat : \E s \in SUBSET D :
                     /\ Cardinality(s) = k
                     /\ ~ /\ f[s] \in 0 .. HashMod - 1
                          /\ \A x \in s : f[s] = (fun[x] + f[s \ {x}]) % HashMod}
<1>3. Bad = {}
  <2>1. SUFFICES ASSUME Bad # {} PROVE FALSE
    OBVIOUS
  <2>2. Bad \in SUBSET Nat
    OBVIOUS
  <2>3. PICK k \in Bad : \A y \in Bad : k <= y
    <3> HIDE DEF Bad
    <3> QED
      BY <2>1, <2>2, LeastExists
  <2>4. PICK s \in SUBSET D :
          /\ Cardinality(s) = k
          /\ ~ /\ f[s] \in 0 .. HashMod - 1
               /\ \A x \in s : f[s] = (fun[x] + f[s \ {x}]) % HashMod
    BY <2>3
  <2>5. s # {}
    BY <1>0, <1>2, <2>4
  <2> DEFINE c == CHOOSE x \in s : TRUE
  <2>6. c \in s
    BY <2>5
  <2>7. f[s] = (fun[c] + f[s \ {c}]) % HashMod
    BY <1>1, <2>5 DEF FoldStep
  <2> HIDE DEF c
  <2>8. ASSUME NEW x \in s
        PROVE  /\ s \ {x} \in SUBSET D /\ f[s \ {x}] \in Nat
               /\ \A y \in s \ {x} :
                    f[s \ {x}] = (fun[y] + f[(s \ {x}) \ {y}]) % HashMod
    <3>1. /\ s \ {x} \in SUBSET D /\ Cardinality(s \ {x}) \in Nat
          /\ Cardinality(s \ {x}) < k /\ k \in Nat
      <4>1. /\ s \ {x} \in SUBSET D
            /\ Cardinality(s) \in Nat /\ Cardinality(s \ {x}) \in Nat
            /\ Cardinality(s \ {x}) = Cardinality(s) - 1
        BY Without
      <4> QED
        BY <2>4, <4>1
    <3>2. Cardinality(s \ {x}) \notin Bad
      <4> HIDE DEF Bad
      <4> QED
        BY <2>3, <3>1
    <3>3. /\ f[s \ {x}] \in 0 .. HashMod - 1
          /\ \A y \in s \ {x} :
               f[s \ {x}] = (fun[y] + f[(s \ {x}) \ {y}]) % HashMod
      BY <3>1, <3>2
    <3>4. f[s \ {x}] \in Nat
      <4> DEFINE v == f[s \ {x}]
      <4>1. v \in 0 .. HashMod - 1
        BY <3>3
      <4> HIDE DEF v
      <4>2. v \in Nat
        BY <1>0, <4>1
      <4> QED
        BY <4>2 DEF v
    <3> QED
      BY <3>1, <3>3, <3>4
  <2>9. f[s] \in 0 .. HashMod - 1
    <3>1. fun[c] \in Nat /\ f[s \ {c}] \in Nat
      BY <2>6, <2>8
    <3>2. fun[c] + f[s \ {c}] \in Nat
      BY <3>1
    <3> QED
      BY <2>7, <3>2, ModFacts
  <2>10. ASSUME NEW x \in s
         PROVE  f[s] = (fun[x] + f[s \ {x}]) % HashMod
    <3>1. CASE x = c
      BY <2>7, <3>1
    <3>2. CASE x # c
      <4> DEFINE r == (s \ {x}) \ {c}
      <4>1. r = (s \ {c}) \ {x}
        OBVIOUS
      <4>2. f[s \ {c}] = (fun[x] + f[r]) % HashMod
        <5>1. x \in s \ {c}
          BY <3>2
        <5>2. f[s \ {c}] = (fun[x] + f[(s \ {c}) \ {x}]) % HashMod
          BY <2>6, <2>8, <5>1
        <5> QED
          BY <4>1, <5>2
      <4>3. f[s \ {x}] = (fun[c] + f[r]) % HashMod
        BY <2>6, <2>8, <3>2
      <4>4. f[r] \in Nat
        <5>1. r \in SUBSET D /\ Cardinality(r) \in Nat /\ Cardinality(r) < k /\ k \in Nat
          <6>1. /\ s \ {x} \in SUBSET D /\ Cardinality(s) \in Nat
                /\ Cardinality(s \ {x}) = Cardinality(s) - 1
            BY Without
          <6>2. c \in s \ {x}
            BY <2>6, <3>2
          <6>3. /\ r \in SUBSET D /\ Cardinality(r) \in Nat
                /\ Cardinality(r) = Cardinality(s \ {x}) - 1
            <7> DEFINE w == s \ {x}
            <7>1. w \in SUBSET D /\ c \in w
              BY <6>1, <6>2
            <7> HIDE DEF w
            <7>2. /\ w \ {c} \in SUBSET D /\ Cardinality(w \ {c}) \in Nat
                  /\ Cardinality(w \ {c}) = Cardinality(w) - 1
              BY <7>1, Without
            <7> QED
              BY <7>2 DEF w
          <6> QED
            BY <2>4, <6>1, <6>3
        <5>2. Cardinality(r) \notin Bad
          <6> HIDE DEF Bad
          <6> QED
            BY <2>3, <5>1
        <5>3. f[r] \in 0 .. HashMod - 1
          <6> HIDE DEF r
          <6> QED
            BY <5>1, <5>2
        <5> QED
          BY <1>0, <5>3
      <4> HIDE DEF r
      <4>5. fun[x] \in Nat /\ fun[c] \in Nat
        BY <2>6
      <4>6. (fun[c] + ((fun[x] + f[r]) % HashMod)) % HashMod
              = (fun[x] + ((fun[c] + f[r]) % HashMod)) % HashMod
        BY <4>4, <4>5, ModSwap
      <4> QED
        BY <2>7, <4>2, <4>3, <4>6
    <3> QED
      BY <3>1, <3>2
  <2> QED
    BY <2>4, <2>9, <2>10
<1>4. ASSUME NEW s \in SUBSET D
      PROVE  /\ f[s] \in 0 .. HashMod - 1
             /\ \A x \in s : f[s] = (fun[x] + f[s \ {x}]) % HashMod
  <2>1. Cardinality(s) \in Nat
    BY FS_Subset, FS_CardinalityType
  <2> QED
    BY <1>3, <2>1
<1> QED
  BY <1>2, <1>4 DEF Additive

\* LiveHash is a fold, over the ticks.
LEMMA LiveFold ==
  ASSUME NEW t \in 0 .. MaxTick
  PROVE  \E f : /\ HashFold(f, 0, [u \in 1 .. t |-> RecordHash[u]], 1 .. t)
               /\ LiveHash(t) = f[1 .. t]
<1> DEFINE fun == [u \in 1 .. t |-> RecordHash[u]]
           D == 1 .. t
           fold == CHOOSE f : HashFold(f, 0, fun, D)
<1>1. IsFiniteSet(D)
  BY FS_Interval, SaveAssumption
<1>2. HashFold(fold, 0, fun, D)
  <2> HIDE DEF fun, D
  <2> QED
    BY <1>1, FoldExists
<1>3. LiveHash(t) = fold[D]
  BY DEF LiveHash, FoldFunction, FoldFunctionOnSet, MapThenFoldSet, HashFold, FoldStep
<1> QED
  BY <1>2, <1>3

\* So is ReplayDiffs, over the records of the save journal.
LEMMA ReplayFold ==
  ASSUME NEW base, NEW records, IsFiniteSet(DOMAIN records)
  PROVE  \E f : /\ HashFold(f, LiveHash(base),
                            [i \in DOMAIN records |->
                               IF records[i] > base THEN RecordHash[records[i]] ELSE 0],
                            DOMAIN records)
               /\ ReplayDiffs(base, records) = f[DOMAIN records]
<1> DEFINE fun == [i \in DOMAIN records |->
                     IF records[i] > base THEN RecordHash[records[i]] ELSE 0]
           D == DOMAIN records
           live == LiveHash(base)
           fold == CHOOSE f : HashFold(f, live, fun, D)
<1>1. HashFold(fold, live, fun, D)
  <2>1. IsFiniteSet(D)
    OBVIOUS
  <2> HIDE DEF fun, D, live
  <2> QED
    BY <2>1, FoldExists
<1>2. ReplayDiffs(base, records) = fold[D]
  <2> HIDE DEF live
  <2>1. DOMAIN fun = D
    OBVIOUS
  <2> QED
    BY <2>1 DEF ReplayDiffs, FoldFunction, FoldFunctionOnSet, MapThenFoldSet, HashFold, FoldStep, live
<1> QED
  BY <1>1, <1>2

\* A fold of the ticks up to l agrees with one of the ticks up to n.
LEMMA FoldsAgree ==
  ASSUME NEW l \in 0 .. MaxTick, NEW n \in 0 .. MaxTick, l <= n, NEW v, NEW w,
         HashFold(v, 0, [u \in 1 .. l |-> RecordHash[u]], 1 .. l),
         HashFold(w, 0, [u \in 1 .. n |-> RecordHash[u]], 1 .. n)
  PROVE  v[1 .. l] = w[1 .. l]
<1> DEFINE L == 1 .. l
           N == 1 .. n
           fl == [u \in 1 .. l |-> RecordHash[u]]
           fn == [u \in 1 .. n |-> RecordHash[u]]
           Bad == {k \in Nat : \E s \in SUBSET L : Cardinality(s) = k /\ v[s] # w[s]}
<1>0. HashMod \in Nat \ {0} /\ MaxTick \in Nat /\ 0 \in 0 .. HashMod - 1
  BY SaveAssumption
<1>1. /\ IsFiniteSet(L) /\ IsFiniteSet(N) /\ L \subseteq N
      /\ fl \in [L -> Nat] /\ fn \in [N -> Nat] /\ \A u \in L : fl[u] = fn[u]
      /\ HashFold(v, 0, fl, L) /\ HashFold(w, 0, fn, N)
  <2>1. L \subseteq N /\ N \subseteq 1 .. MaxTick
    BY <1>0
  <2>2. IsFiniteSet(L) /\ IsFiniteSet(N)
    BY <1>0, FS_Interval
  <2> QED
    BY <2>1, <2>2, HashAssumption
<1> HIDE DEF L, N, fl, fn
<1>2. /\ v[{}] = 0
      /\ \A s \in SUBSET L : v[s] \in 0 .. HashMod - 1
      /\ \A s \in SUBSET L : \A x \in s : v[s] = (fl[x] + v[s \ {x}]) % HashMod
  <2>1. Additive(v, 0, fl, L)
    BY <1>0, <1>1, OrderFree
  <2> QED
    BY <2>1 DEF Additive
<1>3. /\ w[{}] = 0
      /\ \A s \in SUBSET N : w[s] \in 0 .. HashMod - 1
      /\ \A s \in SUBSET N : \A x \in s : w[s] = (fn[x] + w[s \ {x}]) % HashMod
  <2>1. Additive(w, 0, fn, N)
    BY <1>0, <1>1, OrderFree
  <2> QED
    BY <2>1 DEF Additive
<1>4. Bad = {}
  <2>1. SUFFICES ASSUME Bad # {} PROVE FALSE
    OBVIOUS
  <2>2. Bad \in SUBSET Nat
    OBVIOUS
  <2>3. PICK k \in Bad : \A y \in Bad : k <= y
    <3> HIDE DEF Bad
    <3> QED
      BY <2>1, <2>2, LeastExists
  <2>4. PICK s \in SUBSET L : Cardinality(s) = k /\ v[s] # w[s]
    BY <2>3
  <2>5. PICK x : x \in s
    BY <1>2, <1>3, <2>4
  <2>6. /\ s \ {x} \in SUBSET L /\ Cardinality(s) \in Nat
        /\ Cardinality(s \ {x}) \in Nat /\ Cardinality(s \ {x}) = Cardinality(s) - 1
    BY <1>1, <2>5, Without
  <2>7. Cardinality(s \ {x}) \notin Bad
    <3> HIDE DEF Bad
    <3> QED
      BY <2>3, <2>4, <2>6
  <2>8. v[s \ {x}] = w[s \ {x}]
    BY <2>6, <2>7
  <2>9. v[s] = (fl[x] + v[s \ {x}]) % HashMod
    BY <1>2, <2>5
  <2>10. w[s] = (fn[x] + w[s \ {x}]) % HashMod
    <3>1. s \in SUBSET N
      BY <1>1
    <3> QED
      BY <1>3, <2>5, <3>1
  <2> QED
    BY <1>1, <2>4, <2>5, <2>8, <2>9, <2>10
<1>5. L \in SUBSET L /\ Cardinality(L) \in Nat
  BY <1>1, FS_CardinalityType
<1>6. v[L] = w[L]
  BY <1>4, <1>5
<1> QED
  BY <1>6 DEF L

\* Replaying distinct records up to the last commit, every one past the
\* snapshot among them, gives the live hash.
LEMMA ReplayGivesLive ==
  ASSUME NEW l \in 0 .. MaxTick, NEW n \in 0 .. MaxTick, l <= n,
         NEW records \in Seq(1 .. n), IsInjective(records),
         \A t \in l + 1 .. n : t \in Range(records)
  PROVE  ReplayDiffs(l, records) = LiveHash(n)
<1> DEFINE D == DOMAIN records
           N == 1 .. n
           fn == [u \in 1 .. n |-> RecordHash[u]]
           fun == [i \in DOMAIN records |->
                     IF records[i] > l THEN RecordHash[records[i]] ELSE 0]
           Done(s) == (1 .. l) \cup {t \in N : t > l /\ \E i \in s : records[i] = t}
<1>0. HashMod \in Nat \ {0} /\ MaxTick \in Nat /\ 0 \in 0 .. HashMod - 1
  BY SaveAssumption
<1>1. /\ IsFiniteSet(D) /\ IsFiniteSet(N)
      /\ \A i \in D : records[i] \in N
      /\ \A i, j \in D : records[i] = records[j] => i = j
  <2>1. D = 1 .. Len(records) /\ Len(records) \in Nat
    OBVIOUS
  <2>2. IsFiniteSet(D) /\ IsFiniteSet(N)
    BY <1>0, <2>1, FS_Interval
  <2>3. \A i \in D : records[i] \in N
    BY <2>1
  <2> QED
    BY <2>2, <2>3 DEF IsInjective
<1>2. PICK v : /\ HashFold(v, 0, [u \in 1 .. l |-> RecordHash[u]], 1 .. l)
               /\ LiveHash(l) = v[1 .. l]
  BY LiveFold
<1>3. PICK w : /\ HashFold(w, 0, [u \in 1 .. n |-> RecordHash[u]], 1 .. n)
               /\ LiveHash(n) = w[1 .. n]
  BY LiveFold
<1>4. PICK r : HashFold(r, LiveHash(l), fun, D) /\ ReplayDiffs(l, records) = r[D]
  BY <1>1, ReplayFold
<1>5. LiveHash(l) = w[1 .. l]
  BY <1>2, <1>3, FoldsAgree
<1>6. fn \in [N -> Nat] /\ HashFold(w, 0, fn, N)
  <2>1. N \subseteq 1 .. MaxTick
    BY <1>0
  <2> QED
    BY <1>3, <2>1, HashAssumption
<1>7. /\ w[{}] = 0
      /\ \A s \in SUBSET N : w[s] \in 0 .. HashMod - 1
      /\ \A s \in SUBSET N : \A x \in s : w[s] = (fn[x] + w[s \ {x}]) % HashMod
  <2> HIDE DEF N, fn
  <2>1. Additive(w, 0, fn, N)
    BY <1>0, <1>1, <1>6, OrderFree
  <2> QED
    BY <2>1 DEF Additive
<1>8. fun \in [D -> Nat]
  <2>1. N \subseteq 1 .. MaxTick
    BY <1>0
  <2> QED
    BY <1>1, <2>1, HashAssumption
<1>9. LiveHash(l) \in 0 .. HashMod - 1
  <2>1. 1 .. l \in SUBSET N
    OBVIOUS
  <2> QED
    BY <1>5, <1>7, <2>1
<1>10. /\ r[{}] = LiveHash(l)
       /\ \A s \in SUBSET D : r[s] \in 0 .. HashMod - 1
       /\ \A s \in SUBSET D : \A x \in s : r[s] = (fun[x] + r[s \ {x}]) % HashMod
  <2> HIDE DEF D, fun
  <2>1. Additive(r, LiveHash(l), fun, D)
    BY <1>1, <1>4, <1>8, <1>9, OrderFree
  <2> QED
    BY <2>1 DEF Additive
<1> DEFINE Bad == {k \in Nat : \E s \in SUBSET D : Cardinality(s) = k /\ r[s] # w[Done(s)]}
<1>11. Bad = {}
  <2>1. SUFFICES ASSUME Bad # {} PROVE FALSE
    OBVIOUS
  <2>2. Bad \in SUBSET Nat
    OBVIOUS
  <2>3. PICK k \in Bad : \A y \in Bad : k <= y
    <3> HIDE DEF Bad
    <3> QED
      BY <2>1, <2>2, LeastExists
  <2>4. PICK s \in SUBSET D : Cardinality(s) = k /\ r[s] # w[Done(s)]
    BY <2>3
  <2>5. s # {}
    <3>1. Done({}) = 1 .. l
      OBVIOUS
    <3> QED
      BY <1>5, <1>10, <2>4, <3>1
  <2>6. PICK x : x \in s
    BY <2>5
  <2>7. /\ s \ {x} \in SUBSET D /\ Cardinality(s) \in Nat
        /\ Cardinality(s \ {x}) \in Nat /\ Cardinality(s \ {x}) = Cardinality(s) - 1
    <3> HIDE DEF D
    <3> QED
      BY <1>1, <2>6, Without
  <2>8. Cardinality(s \ {x}) \notin Bad
    <3> HIDE DEF Bad
    <3> QED
      BY <2>3, <2>4, <2>7
  <2>9. r[s \ {x}] = w[Done(s \ {x})]
    <3> HIDE DEF Done
    <3> QED
      BY <2>7, <2>8
  <2>10. r[s] = (fun[x] + r[s \ {x}]) % HashMod
    BY <1>10, <2>6
  <2>11. /\ x \in D /\ records[x] \in N /\ Done(s) \in SUBSET N
         /\ Done(s \ {x}) \in SUBSET N
    BY <1>1, <2>6
  <2>12. CASE records[x] > l
    <3>1. records[x] \in Done(s)
      BY <2>6, <2>11, <2>12
    <3>2. Done(s) \ {records[x]} = Done(s \ {x})
      <4>1. \A i \in s : i # x => records[i] # records[x]
        BY <1>1, <2>11
      <4>2. records[x] \notin 1 .. l
        BY <2>11, <2>12
      <4> QED
        BY <2>6, <4>1, <4>2
    <3>3. w[Done(s)] = (fn[records[x]] + w[Done(s \ {x})]) % HashMod
      <4> DEFINE a == Done(s)
                 y == records[x]
                 b == Done(s \ {x})
      <4>1. a \in SUBSET N /\ y \in a /\ a \ {y} = b
        BY <2>11, <3>1, <3>2
      <4> HIDE DEF Done, fn, N, a, b, y
      <4>2. w[a] = (fn[y] + w[a \ {y}]) % HashMod
        BY <1>7, <4>1
      <4>3. w[a] = (fn[y] + w[b]) % HashMod
        BY <4>1, <4>2
      <4> QED
        BY <4>3 DEF a, b, y
    <3>4. fun[x] = fn[records[x]]
      BY <2>11, <2>12
    <3> HIDE DEF Done, fn, fun
    <3> QED
      BY <2>4, <2>9, <2>10, <3>3, <3>4
  <2>13. CASE ~(records[x] > l)
    <3>1. Done(s) = Done(s \ {x})
      BY <2>6, <2>13
    <3>2. fun[x] = 0
      BY <2>11, <2>13
    <3> DEFINE y == w[Done(s)]
    <3>3. y \in 0 .. HashMod - 1
      <4> HIDE DEF Done
      <4> QED
        BY <1>7, <2>11
    <3>4. r[s] = (0 + y) % HashMod
      BY <2>9, <2>10, <3>1, <3>2
    <3> HIDE DEF y
    <3>5. r[s] = y
      BY <1>0, <3>3, <3>4
    <3> QED
      BY <2>4, <3>5 DEF y
  <2> QED
    BY <2>12, <2>13
<1>12. r[D] = w[Done(D)]
  <2>1. D \in SUBSET D /\ Cardinality(D) \in Nat
    BY <1>1, FS_CardinalityType
  <2> HIDE DEF Done, D
  <2> QED
    BY <1>11, <2>1
<1>13. Done(D) = N
  <2>1. \A t \in N : t > l => \E i \in D : records[i] = t
    BY DEF Range
  <2> QED
    BY <2>1
<1> QED
  BY <1>3, <1>4, <1>12, <1>13

\* CleanReplayMatchesLive, for every number of ticks, threshold, retention
\* limit and hash of the records: as long as the save journal holds one record
\* per tick and none of a failed commit, replaying it over the latest readable
\* snapshot gives the hash of the live state, across checkpoints, crashes and
\* resumes.  Without that condition it is false.
THEOREM CleanReplayHashMatches == Spec => []CleanReplayMatchesLive
<1>1. SaveInv /\ ReplayInv => CleanReplayMatchesLive
  <2> SUFFICES ASSUME SaveInv, ReplayInv, up, call = Idle, LatestReadable,
                      IsInjective(inner), Range(inner) \subseteq 1 .. committed
               PROVE  ReplayDiffs(Latest, inner) = LiveHash(committed)
    BY DEF ReplayMatchesLive, CleanReplayMatchesLive
  <2>1. Listed # {} /\ Latest = Max(Listed) /\ file[Latest] = "whole"
    BY DEF LatestReadable, Latest
  <2>2. Listed \in SUBSET (0 .. MaxTick) /\ MaxTick \in Nat
    BY SaveAssumption DEF Listed, Gens
  <2>3. Latest \in Listed /\ \A g \in Listed : Latest >= g
    BY <2>1, <2>2, MaxIsGreatest
  <2>4. Newest(Latest) /\ Latest \in Gens
    BY <2>1, <2>2, <2>3 DEF Newest, Whole, Listed
  <2>5. Latest <= committed
    BY <2>3 DEF SaveInv, DiskInv
  <2>6. \A t \in Latest + 1 .. committed : t \in Range(inner)
    BY <2>4 DEF ReplayInv, LogInv
  <2>7. inner \in Seq(1 .. committed)
    <3>1. inner \in Seq(Gens)
      BY DEF ReplayInv, InnerInv
    <3>2. \A i \in 1 .. Len(inner) : inner[i] \in 1 .. committed
      BY <3>1 DEF Range
    <3>3. Len(inner) \in Nat /\ inner \in [1 .. Len(inner) -> 1 .. committed]
      BY <3>1, <3>2
    <3> QED
      BY <3>3, SeqDef
  <2>8. Latest \in 0 .. MaxTick /\ committed \in 0 .. MaxTick
    BY <2>2, <2>3 DEF SaveInv, SaveTypeInv
  <2> QED
    BY <2>5, <2>6, <2>7, <2>8, ReplayGivesLive
<1> QED
  BY <1>1, SaveInvariance, ReplayInvariance, PTL
=============================================================================
