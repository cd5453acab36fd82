-------------------------- MODULE CheckpointProofs --------------------------
(***************************************************************************)
(* Proofs about Checkpoint, for any number of ranks, steps and restarts:   *)
(* .complete tells a whole save, the step directories implement            *)
(* CheckpointStore, and before a restart the disk holds the best.          *)
(***************************************************************************)
EXTENDS Checkpoint, FiniteSetTheorems, TLAPS

(* The parts of a save that a barrier separates.                           *)
Making == {"clean", "rmtmp", "failed", "mkdir", "ready"}
Writing == {"write", "written"}
Publishing == {"replace", "meta", "sentinel", "prune", "saved"}
Saving == Making \cup Writing \cup Publishing
Between == {"train", "enter", "done", "trim"}

(* Barriers hold the ranks together: all are between the same two.         *)
OnePhase ==
  \/ \A r \in Ranks : pc[r] = "resume"
  \/ \A r \in Ranks : pc[r] \in Between
  \/ \A r \in Ranks : pc[r] \in Making
  \/ \A r \in Ranks : pc[r] \in Writing
  \/ \A r \in Ranks : pc[r] \in Publishing

(* The .tmp holds what the ranks of this run have written so far, and only *)
(* the directory rank 0 has renamed gets meta data and sentinel.           *)
SavedSoFar ==
  /\ \A s \in Steps : tmp[s].file[Meta] = 0 /\ tmp[s].file[Sentinel] = 0
  /\ \A r \in Ranks : pc[r] = "written"
       => tmp[step].there /\ tmp[step].file[r] = run
  /\ pc[Leader] = "replace"
       => tmp[step].there /\ \A r \in Ranks : tmp[step].file[r] = run
  /\ pc[Leader] \in {"meta", "sentinel"}
       => /\ final[step].there
          /\ final[step].file[Sentinel] = 0
          /\ \A r \in Ranks : final[step].file[r] = run
  /\ pc[Leader] = "sentinel" => final[step].file[Meta] = run
  /\ \A s \in Steps : ~ final[s].there => ~ Complete(final[s])

(* Whoever saves has a step to save.                                       *)
StepInRange ==
  /\ \A r \in Ranks : pc[r] = "enter" => step < MaxSteps
  /\ \A r \in Ranks : pc[r] \in Saving => step \in Steps /\ loss \in Losses

(* The inductive invariant.                                                *)
SaveInv == TypeOK /\ IsFiniteSet(best) /\ StepInRange /\ OnePhase /\ SavedSoFar

(* What the list of the best and the disk have to do with each other in    *)
(* the run that starts over an empty directory.                            *)
Listed == {b.step : b \in best}
There == {s \in Steps : final[s].there}

(* The list has at most Keep entries, of earlier steps, each once.         *)
ListInOrder ==
  /\ Cardinality(best) <= Keep
  /\ \A b \in best : b.step <= step
  /\ \A b, c \in best : b.step = c.step => b = c
  /\ pc[Leader] \in Saving => \A b \in best : b.step < step
  /\ pc[Leader] = "resume" => best = {}

(* The directories are those of the list and, while one is saved or others *)
(* are pruned, those the save has come to; what is listed is whole.        *)
DiskFollowsList ==
  /\ There = Listed \cup (IF pc[Leader] \in {"meta", "sentinel", "prune", "saved"}
                            THEN {step}
                          ELSE IF pc[Leader] = "trim" THEN doomed ELSE {})
  /\ \A s \in Listed : \A f \in Files : final[s].file[f] = 1
  /\ pc[Leader] = "trim" => doomed \cap Listed = {}
  /\ pc[Leader] \in {"replace", "prune"} => doomed = {}
  /\ pc[Leader] \in {"prune", "saved"}
       => \A f \in Files : final[step].file[f] = 1

FirstRunInv == run = 1 => ListInOrder /\ DiskFollowsList


(***************************************************************************)
(* The directories                                                         *)
(***************************************************************************)

(* Writing and removing a file gives directories again.                    *)
LEMMA DirectoryType ==
  /\ Nothing \in Directory /\ Empty \in Directory
  /\ \A d \in Directory, f \in Files :
       /\ Without(d, f) \in Directory
       /\ \A by \in 0..MaxRuns : With(d, f, by) \in Directory
BY CheckpointAssumption DEF Directory, Nothing, Empty, Without, With

(* The shards, meta.json and .complete are different files.                *)
LEMMA FileNames ==
  /\ Leader \in Ranks /\ Ranks \subseteq Files
  /\ Meta \in Files /\ Sentinel \in Files /\ Meta # Sentinel
  /\ Meta \notin Ranks /\ Sentinel \notin Ranks
BY CheckpointAssumption DEF Files

(* No step directory holds step directories: the job starts over.          *)
LEMMA ResumesAtZero == ResumeStep = 0
BY DEF ResumeStep, LatestAmong, StepDirectoriesInside

(* A non-empty set of naturals has a least element.                        *)
LEMMA LeastNatural ==
  ASSUME NEW E \in SUBSET Nat, E # {}
  PROVE  \E i \in E : \A j \in E : i <= j
<1>1. \E i \in E : \A j \in E : <<j, i>> \notin OpToRel(<, Nat)
  BY NatLessThanWellFounded, WFMin
<1>2. ASSUME NEW i \in Nat, NEW j \in Nat, <<j, i>> \notin OpToRel(<, Nat)
      PROVE  i <= j
  <2>1. ~ (j < i)
    BY <1>2 DEF OpToRel
  <2> QED
    BY <2>1
<1> QED
  BY <1>1, <1>2

(* A finite list has a worst checkpoint: one with the fewest worse ones.   *)
LEMMA WorstMember ==
  ASSUME NEW B, IsFiniteSet(B), B # {}, B \subseteq [loss : Nat, step : Nat]
  PROVE  Worst(B) \in B
<1> DEFINE Worse(b) == {c \in B : b.loss < c.loss \/ (b.loss = c.loss /\ b.step < c.step)}
           Numbers == {Cardinality(Worse(b)) : b \in B}
<1>1. ASSUME NEW b \in B
      PROVE  IsFiniteSet(Worse(b)) /\ Cardinality(Worse(b)) \in Nat
  BY FS_Subset, FS_CardinalityType
<1>2. PICK b \in B : \A c \in B : Cardinality(Worse(b)) <= Cardinality(Worse(c))
  <2>1. Numbers \subseteq Nat /\ Numbers # {}
    BY <1>1
  <2>2. PICK i \in Numbers : \A j \in Numbers : i <= j
    BY <2>1, LeastNatural
  <2>3. PICK b \in B : i = Cardinality(Worse(b))
    OBVIOUS
  <2> HIDE DEF Worse
  <2>4. \A c \in B : i <= Cardinality(Worse(c))
    BY <2>2
  <2> QED
    BY <2>3, <2>4
<1>3. ASSUME NEW c \in Worse(b) PROVE FALSE
  <2>1. Worse(c) \subseteq Worse(b) /\ Worse(c) # Worse(b)
    <3>1. \A x, y \in B : x.loss \in Nat /\ x.step \in Nat
      OBVIOUS
    <3>2. c \in B /\ c \notin Worse(c)
      BY <3>1
    <3>3. ASSUME NEW x \in Worse(c) PROVE x \in Worse(b)
      BY <3>1
    <3> QED
      BY <3>2, <3>3
  <2> HIDE DEF Worse
  <2>2. c \in B
    BY DEF Worse
  <2> QED
    BY <1>1, <1>2, <2>1, <2>2, FS_Subset
<1>4. \A c \in B : c.loss < b.loss \/ (c.loss = b.loss /\ c.step <= b.step)
  <2> SUFFICES ASSUME NEW c \in B
               PROVE  c.loss < b.loss \/ (c.loss = b.loss /\ c.step <= b.step)
    OBVIOUS
  <2>1. c.loss \in Nat /\ b.loss \in Nat /\ c.step \in Nat /\ b.step \in Nat
    OBVIOUS
  <2> QED
    BY <1>3, <2>1
<1> QED
  BY <1>4 DEF Worst

(***************************************************************************)
(* A save                                                                  *)
(***************************************************************************)

(* The job starts over an empty save_dir.                                  *)
LEMMA SaveInit == Init => SaveInv
<1> SUFFICES ASSUME Init PROVE SaveInv
  OBVIOUS
<1>1. TypeOK
  BY CheckpointAssumption, DirectoryType DEF Init, TypeOK
<1>2. StepInRange /\ OnePhase
  BY DEF Init, StepInRange, OnePhase, Saving, Making, Writing, Publishing
<1>3. SavedSoFar
  BY FileNames DEF Init, SavedSoFar, Nothing, Complete
<1>4. IsFiniteSet(best)
  BY FS_EmptySet DEF Init
<1> QED
  BY <1>1, <1>2, <1>3, <1>4 DEF SaveInv

(* The list takes the new checkpoint and gives up the worst.               *)
LEMMA SaveDoneKeepsList ==
  ASSUME SaveInv, SaveDone
  PROVE  /\ IsFiniteSet(best')
         /\ best' \subseteq [loss : Losses, step : Steps]
         /\ doomed' \subseteq Steps
<1> DEFINE B == best \cup {[loss |-> loss, step |-> step]}
<1>1. loss \in Losses /\ step \in Steps
  BY CheckpointAssumption
     DEF SaveInv, StepInRange, SaveDone, Barrier, Saving, Publishing
<1>2. B \subseteq [loss : Losses, step : Steps] /\ IsFiniteSet(B) /\ B # {}
  <2>1. best \subseteq [loss : Losses, step : Steps] /\ IsFiniteSet(best)
    BY DEF SaveInv, TypeOK
  <2>2. [loss |-> loss, step |-> step] \in [loss : Losses, step : Steps]
    BY <1>1
  <2>3. IsFiniteSet(B)
    BY <2>1, FS_AddElement
  <2> QED
    BY <2>1, <2>2, <2>3
<1>3. Worst(B) \in B
  <2> HIDE DEF B
  <2>1. B \subseteq [loss : Nat, step : Nat]
    <3>1. Losses \subseteq Nat /\ Steps \subseteq Nat
      BY CheckpointAssumption DEF Steps
    <3> QED
      BY <1>2, <3>1
  <2> QED
    BY <1>2, <2>1, WorstMember
<1>4. IsFiniteSet(B \ {Worst(B)})
  BY <1>2, FS_RemoveElement
<1> QED
  BY <1>2, <1>3, <1>4 DEF SaveDone

(* Only the types.                                                         *)
LEMMA TypeKeeps == SaveInv /\ [Next]_vars => TypeOK'
<1> SUFFICES ASSUME SaveInv, [Next]_vars PROVE TypeOK'
  OBVIOUS
<1> USE CheckpointAssumption, DirectoryType, FileNames
        DEF SaveInv, TypeOK, StepInRange, Steps, Saving, Making, Writing, Publishing
<1>1. ASSUME Resume PROVE TypeOK'
  BY <1>1, ResumesAtZero DEF Resume, Release
<1>2. ASSUME StartWriting PROVE TypeOK'
  BY <1>2 DEF StartWriting, Release
<1>3. ASSUME AllWritten PROVE TypeOK'
  BY <1>3 DEF AllWritten, Release, Barrier
<1>4. ASSUME SaveDone PROVE TypeOK'
  BY <1>4, SaveDoneKeepsList DEF SaveDone, Release
<1>5. ASSUME NEW l \in Losses, Enter(l) PROVE TypeOK'
  BY <1>5 DEF Enter, Release, Barrier
<1>6. ASSUME MakeTmp PROVE TypeOK'
  BY <1>6 DEF MakeTmp, Goto
<1>7. ASSUME Rename PROVE TypeOK'
  BY <1>7 DEF Rename, Goto
<1>8. ASSUME WriteMeta PROVE TypeOK'
  BY <1>8 DEF WriteMeta, Goto
<1>9. ASSUME WriteSentinel PROVE TypeOK'
  BY <1>9 DEF WriteSentinel, Goto, Outdated
<1>10. ASSUME Pruned \/ Trimmed PROVE TypeOK'
  BY <1>10 DEF Pruned, Trimmed, Goto
<1>11. ASSUME NEW s \in Steps, RemoveDirectory(s) PROVE TypeOK'
  BY <1>11 DEF RemoveDirectory
<1>12. ASSUME NEW s \in Steps, NEW f \in Files, Unlink(s, f) PROVE TypeOK'
  BY <1>12 DEF Unlink, volatile
<1>13. ASSUME Restart PROVE TypeOK'
  BY <1>13 DEF Restart
<1>14. ASSUME NEW r \in Ranks, FinishEpoch(r) PROVE TypeOK'
  BY <1>14 DEF FinishEpoch, Goto
<1>15. ASSUME NEW r \in Ranks, Clean(r) PROVE TypeOK'
  <2>1. Present(tmp[step]) \subseteq Files
    BY DEF Present
  <2> QED
    BY <1>15, <2>1 DEF Clean, Goto
<1>16. ASSUME NEW r \in Ranks, RemoveTmp(r) PROVE TypeOK'
  BY <1>16 DEF RemoveTmp, Goto
<1>17. ASSUME NEW r \in Ranks, WriteShard(r) PROVE TypeOK'
  <2>1. step \in Steps /\ With(tmp[step], r, run) \in Directory
    BY <1>17 DEF WriteShard
  <2> QED
    BY <1>17, <2>1 DEF WriteShard, Goto
<1>18. ASSUME NEW r \in Ranks, NEW f \in Files, UnlinkTmp(r, f) PROVE TypeOK'
  BY <1>18 DEF UnlinkTmp, Goto
<1>19. CASE UNCHANGED vars
  BY <1>19 DEF vars
<1> QED
  BY <1>1, <1>2, <1>3, <1>4, <1>5, <1>6, <1>7, <1>8, <1>9, <1>10, <1>11, <1>12,
     <1>13, <1>14, <1>15, <1>16, <1>17, <1>18, <1>19
     DEF Next, Together, LeaderStep, RankStep

(* A barrier brings all ranks into the next part of the save at once, and  *)
(* nobody else changes the step or goes from one part to another.          *)
LEMMA PhaseKeeps == SaveInv /\ [Next]_vars => OnePhase'
<1> SUFFICES ASSUME SaveInv, [Next]_vars PROVE OnePhase'
  OBVIOUS
<1> USE FileNames DEF SaveInv, TypeOK, OnePhase, Making, Writing, Publishing, Between
<1>1. ASSUME Resume PROVE OnePhase'
  BY <1>1 DEF Resume, Barrier, Release
<1>2. ASSUME StartWriting PROVE OnePhase'
  BY <1>2 DEF StartWriting, Barrier, Release
<1>3. ASSUME AllWritten PROVE OnePhase'
  BY <1>3 DEF AllWritten, Barrier, Release
<1>4. ASSUME SaveDone PROVE OnePhase'
  BY <1>4 DEF SaveDone, Barrier, Release
<1>5. ASSUME NEW l \in Losses, Enter(l) PROVE OnePhase'
  BY <1>5 DEF Enter, Barrier, Release
<1>6. ASSUME MakeTmp PROVE OnePhase'
  BY <1>6 DEF MakeTmp, Goto
<1>7. ASSUME Rename PROVE OnePhase'
  BY <1>7 DEF Rename, Goto
<1>8. ASSUME WriteMeta PROVE OnePhase'
  BY <1>8 DEF WriteMeta, Goto
<1>9. ASSUME WriteSentinel PROVE OnePhase'
  BY <1>9 DEF WriteSentinel, Goto
<1>10. ASSUME Pruned PROVE OnePhase'
  BY <1>10 DEF Pruned, Goto
<1>11. ASSUME Trimmed PROVE OnePhase'
  BY <1>11 DEF Trimmed, Goto
<1>12. ASSUME NEW s \in Steps, RemoveDirectory(s) PROVE OnePhase'
  BY <1>12 DEF RemoveDirectory
<1>13. ASSUME NEW s \in Steps, NEW f \in Files, Unlink(s, f) PROVE OnePhase'
  BY <1>13 DEF Unlink, volatile
<1>14. ASSUME Restart PROVE OnePhase'
  BY <1>14 DEF Restart
<1>15. ASSUME NEW r \in Ranks, FinishEpoch(r) PROVE OnePhase'
  BY <1>15 DEF FinishEpoch, Goto
<1>16. ASSUME NEW r \in Ranks, Clean(r) PROVE OnePhase'
  BY <1>16 DEF Clean, Goto
<1>17. ASSUME NEW r \in Ranks, RemoveTmp(r) PROVE OnePhase'
  BY <1>17 DEF RemoveTmp, Goto
<1>18. ASSUME NEW r \in Ranks, WriteShard(r) PROVE OnePhase'
  BY <1>18 DEF WriteShard, Goto
<1>19. ASSUME NEW r \in Ranks, NEW f \in Files, UnlinkTmp(r, f) PROVE OnePhase'
  BY <1>19 DEF UnlinkTmp, Goto
<1>20. CASE UNCHANGED vars
  BY <1>20 DEF vars
<1> QED
  BY <1>1, <1>2, <1>3, <1>4, <1>5, <1>6, <1>7, <1>8, <1>9, <1>10, <1>11,
     <1>12, <1>13, <1>14, <1>15, <1>16, <1>17, <1>18, <1>19, <1>20
     DEF Next, Together, LeaderStep, RankStep

(* A save has a step of the training, and a loss.                          *)
LEMMA RangeKeeps == SaveInv /\ [Next]_vars => StepInRange'
<1> SUFFICES ASSUME SaveInv, [Next]_vars PROVE StepInRange'
  OBVIOUS
<1> USE CheckpointAssumption, FileNames
        DEF SaveInv, TypeOK, StepInRange, OnePhase, Steps, Saving, Making, Writing,
            Publishing, Between
<1>1. ASSUME Resume PROVE StepInRange'
  BY <1>1 DEF Resume, Barrier, Release
<1>2. ASSUME StartWriting PROVE StepInRange'
  BY <1>2 DEF StartWriting, Barrier, Release
<1>3. ASSUME AllWritten PROVE StepInRange'
  BY <1>3 DEF AllWritten, Barrier, Release
<1>4. ASSUME SaveDone PROVE StepInRange'
  BY <1>4 DEF SaveDone, Barrier, Release
<1>5. ASSUME NEW l \in Losses, Enter(l) PROVE StepInRange'
  BY <1>5 DEF Enter, Barrier, Release
<1>6. ASSUME MakeTmp PROVE StepInRange'
  BY <1>6 DEF MakeTmp, Goto
<1>7. ASSUME Rename PROVE StepInRange'
  BY <1>7 DEF Rename, Goto
<1>8. ASSUME WriteMeta PROVE StepInRange'
  BY <1>8 DEF WriteMeta, Goto
<1>9. ASSUME WriteSentinel PROVE StepInRange'
  BY <1>9 DEF WriteSentinel, Goto
<1>10. ASSUME Pruned PROVE StepInRange'
  BY <1>10 DEF Pruned, Goto
<1>11. ASSUME Trimmed PROVE StepInRange'
  BY <1>11 DEF Trimmed, Goto
<1>12. ASSUME NEW s \in Steps, RemoveDirectory(s) PROVE StepInRange'
  BY <1>12 DEF RemoveDirectory
<1>13. ASSUME NEW s \in Steps, NEW f \in Files, Unlink(s, f) PROVE StepInRange'
  BY <1>13 DEF Unlink, volatile
<1>14. ASSUME Restart PROVE StepInRange'
  BY <1>14 DEF Restart
<1>15. ASSUME NEW r \in Ranks, FinishEpoch(r) PROVE StepInRange'
  BY <1>15 DEF FinishEpoch, Goto
<1>16. ASSUME NEW r \in Ranks, Clean(r) PROVE StepInRange'
  BY <1>16 DEF Clean, Goto
<1>17. ASSUME NEW r \in Ranks, RemoveTmp(r) PROVE StepInRange'
  BY <1>17 DEF RemoveTmp, Goto
<1>18. ASSUME NEW r \in Ranks, WriteShard(r) PROVE StepInRange'
  BY <1>18 DEF WriteShard, Goto
<1>19. ASSUME NEW r \in Ranks, NEW f \in Files, UnlinkTmp(r, f) PROVE StepInRange'
  BY <1>19 DEF UnlinkTmp, Goto
<1>20. CASE UNCHANGED vars
  BY <1>20 DEF vars
<1> QED
  BY <1>1, <1>2, <1>3, <1>4, <1>5, <1>6, <1>7, <1>8, <1>9, <1>10, <1>11,
     <1>12, <1>13, <1>14, <1>15, <1>16, <1>17, <1>18, <1>19, <1>20
     DEF Next, Together, LeaderStep, RankStep

(* The files of the save under way, action by action.                      *)
LEMMA SavedKeeps == SaveInv /\ [Next]_vars => SavedSoFar'
<1> SUFFICES ASSUME SaveInv, [Next]_vars PROVE SavedSoFar'
  OBVIOUS
<1> USE CheckpointAssumption, FileNames
        DEF SaveInv, TypeOK, StepInRange, OnePhase, SavedSoFar, Steps, Saving, Making,
            Writing, Publishing, Between, Directory, Complete
<1>1. ASSUME Resume PROVE SavedSoFar'
  BY <1>1 DEF Resume, Barrier, Release
<1>2. ASSUME StartWriting PROVE SavedSoFar'
  BY <1>2 DEF StartWriting, Barrier, Release
<1>3. ASSUME AllWritten PROVE SavedSoFar'
  BY <1>3 DEF AllWritten, Barrier, Release
<1>4. ASSUME SaveDone PROVE SavedSoFar'
  BY <1>4 DEF SaveDone, Barrier, Release
<1>5. ASSUME NEW l \in Losses, Enter(l) PROVE SavedSoFar'
  BY <1>5 DEF Enter, Barrier, Release
<1>6. ASSUME MakeTmp PROVE SavedSoFar'
  BY <1>6 DEF MakeTmp, Goto, Empty, Nothing
<1>7. ASSUME Rename PROVE SavedSoFar'
  BY <1>7 DEF Rename, Goto, Nothing
<1>8. ASSUME WriteMeta PROVE SavedSoFar'
  BY <1>8 DEF WriteMeta, Goto, With
<1>9. ASSUME WriteSentinel PROVE SavedSoFar'
  BY <1>9 DEF WriteSentinel, Goto, With
<1>10. ASSUME Pruned PROVE SavedSoFar'
  BY <1>10 DEF Pruned, Goto
<1>11. ASSUME Trimmed PROVE SavedSoFar'
  BY <1>11 DEF Trimmed, Goto
<1>12. ASSUME NEW s \in Steps, RemoveDirectory(s) PROVE SavedSoFar'
  BY <1>12 DEF RemoveDirectory, Nothing, Removing
<1>13. ASSUME NEW s \in Steps, NEW f \in Files, Unlink(s, f) PROVE SavedSoFar'
  BY <1>13 DEF Unlink, volatile, Without, Present, Removing
<1>14. ASSUME Restart PROVE SavedSoFar'
  BY <1>14 DEF Restart
<1>15. ASSUME NEW r \in Ranks, FinishEpoch(r) PROVE SavedSoFar'
  BY <1>15 DEF FinishEpoch, Goto
<1>16. ASSUME NEW r \in Ranks, Clean(r) PROVE SavedSoFar'
  BY <1>16 DEF Clean, Goto
<1>17. ASSUME NEW r \in Ranks, RemoveTmp(r) PROVE SavedSoFar'
  BY <1>17 DEF RemoveTmp, Goto, Nothing
<1>18. ASSUME NEW r \in Ranks, WriteShard(r) PROVE SavedSoFar'
  BY <1>18 DEF WriteShard, Goto, With
<1>19. ASSUME NEW r \in Ranks, NEW f \in Files, UnlinkTmp(r, f) PROVE SavedSoFar'
  BY <1>19 DEF UnlinkTmp, Goto, Without
<1>20. CASE UNCHANGED vars
  BY <1>20 DEF vars
<1> QED
  BY <1>1, <1>2, <1>3, <1>4, <1>5, <1>6, <1>7, <1>8, <1>9, <1>10, <1>11,
     <1>12, <1>13, <1>14, <1>15, <1>16, <1>17, <1>18, <1>19, <1>20
     DEF Next, Together, LeaderStep, RankStep

(* In every state the .tmp of a save holds what its ranks have written,    *)
(* and all ranks are in the same part of it, however they interleave, fail *)
(* and start again (save_checkpoint, save_and_prune).                      *)
THEOREM SaveInvariance == Spec => []SaveInv
<1>1. SaveInv /\ [Next]_vars => SaveInv'
  <2> SUFFICES ASSUME SaveInv, [Next]_vars PROVE IsFiniteSet(best)'
    BY TypeKeeps, PhaseKeeps, RangeKeeps, SavedKeeps DEF SaveInv
  <2>1. IsFiniteSet(best)
    BY DEF SaveInv
  <2>2. CASE SaveDone
    BY <2>2, SaveDoneKeepsList
  <2>3. CASE Restart
    BY <2>3, FS_EmptySet DEF Restart
  <2>4. CASE ~ SaveDone /\ ~ Restart
    <3>1. best' = best
      BY <2>4 DEF Next, vars, volatile, Together, LeaderStep, RankStep, Resume, StartWriting, AllWritten,
                  Enter, MakeTmp, Rename, WriteMeta, WriteSentinel, Pruned, Trimmed,
                  RemoveDirectory, Unlink, FinishEpoch, Clean, RemoveTmp, WriteShard,
                  UnlinkTmp
    <3> QED
      BY <2>1, <3>1
  <2> QED
    BY <2>2, <2>3, <2>4
<1> QED
  BY SaveInit, <1>1, PTL DEF Spec

(* The step of SentinelLast.                                               *)
AppearsWhole == \A s \in Steps : ~ Complete(final[s]) /\ Complete(final[s])'
                  => \A f \in Files : final'[s].file[f] = run

(* Only WriteSentinel makes a directory complete, and then it is whole.    *)
LEMMA StepAppearsWhole == SaveInv /\ [Next]_vars => AppearsWhole
<1> SUFFICES ASSUME SaveInv, [Next]_vars PROVE AppearsWhole
  OBVIOUS
<1> USE CheckpointAssumption, FileNames
        DEF SaveInv, TypeOK, SavedSoFar, Steps, Directory, Complete, AppearsWhole
<1>1. CASE UNCHANGED final
  BY <1>1
<1>2. ASSUME Rename PROVE AppearsWhole
  BY <1>2 DEF Rename
<1>3. ASSUME WriteMeta PROVE AppearsWhole
  BY <1>3 DEF WriteMeta, With
<1>4. ASSUME WriteSentinel PROVE AppearsWhole
  BY <1>4 DEF WriteSentinel, With, Files
<1>5. ASSUME NEW s \in Steps, RemoveDirectory(s) PROVE AppearsWhole
  BY <1>5 DEF RemoveDirectory, Nothing
<1>6. ASSUME NEW s \in Steps, NEW f \in Files, Unlink(s, f) PROVE AppearsWhole
  BY <1>6 DEF Unlink, Without
<1> QED
  BY <1>1, <1>2, <1>3, <1>4, <1>5, <1>6
     DEF Next, vars, Together, LeaderStep, RankStep, Resume, StartWriting, AllWritten,
         SaveDone, Enter, MakeTmp, Pruned, Trimmed, Restart, FinishEpoch, Clean,
         RemoveTmp, WriteShard, UnlinkTmp

(* However saves crash and ranks interleave, the moment .complete appears  *)
(* the directory holds all shards and the meta data of this very save      *)
(* (save_checkpoint: the sentinel is written last).                        *)
THEOREM SentinelAlwaysLast == Spec => SentinelLast
<1>1. SaveInv /\ [Next]_vars => [AppearsWhole]_vars
  BY StepAppearsWhole
<1>2. Spec => [][AppearsWhole]_vars
  BY SaveInvariance, <1>1, PTL DEF Spec
<1> QED
  BY <1>2 DEF SentinelLast, AppearsWhole

(***************************************************************************)
(* The step directories implement CheckpointStore                          *)
(***************************************************************************)

(* What a reader sees of a directory changes as the store allows when one  *)
(* directory changes.                                                      *)
Allowed(old, new) ==
  \/ Seen(new) = Seen(old)
  \/ Seen(old) # Store!None /\ Seen(new) \in {Store!None, Store!Ruin}
  \/ Seen(old) = Store!None /\ Seen(new) = Store!Intact(run)

(* A step that changes one directory in an allowed way is one of the       *)
(* store.                                                                  *)
LEMMA OneDirectory ==
  ASSUME TypeOK, NEW s \in Steps, NEW d \in Directory,
         final' = [final EXCEPT ![s] = d], run' = run, Allowed(final[s], d)
  PROVE  Store!Next \/ UNCHANGED <<[t \in Steps |-> Seen(final[t])], run>>
<1> DEFINE shown == [t \in Steps |-> Seen(final[t])]
<1>1. final \in [Steps -> Directory]
  BY DEF TypeOK
<1>2. shown' = [shown EXCEPT ![s] = Seen(d)]
  BY <1>1
<1>3. shown[s] = Seen(final[s])
  OBVIOUS
<1>4. CASE Seen(d) = Seen(final[s])
  BY <1>2, <1>3, <1>4
<1>5. CASE Seen(final[s]) # Store!None /\ Seen(d) \in {Store!None, Store!Ruin}
  <2>1. Store!GiveUp(s)
    BY <1>2, <1>3, <1>5 DEF Store!GiveUp
  <2> QED
    BY <2>1 DEF Store!Next
<1>6. CASE Seen(final[s]) = Store!None /\ Seen(d) = Store!Intact(run)
  <2>1. Store!Publish(s)
    BY <1>2, <1>3, <1>6 DEF Store!Publish
  <2> QED
    BY <2>1 DEF Store!Next
<1> QED
  BY <1>4, <1>5, <1>6 DEF Allowed

(* Renaming, removing and writing the sentinel are steps of the store.     *)
LEMMA StepImplements ==
  ASSUME SaveInv, [Next]_vars
  PROVE  Store!Next \/ UNCHANGED <<[t \in Steps |-> Seen(final[t])], run>>
<1> DEFINE Goal == Store!Next \/ UNCHANGED <<[t \in Steps |-> Seen(final[t])], run>>
<1> USE CheckpointAssumption, FileNames, DirectoryType
        DEF SaveInv, TypeOK, SavedSoFar, StepInRange, Saving, Publishing, Steps, Complete,
            Seen, Store!None, Store!Ruin, Store!Intact, Allowed
<1> HIDE DEF Goal
<1>1. CASE UNCHANGED <<final, run>>
  BY <1>1 DEF Goal
<1>2. ASSUME Rename PROVE Goal
  <2>1. step \in Steps /\ tmp[step] \in Directory /\ ~ Complete(tmp[step])
    BY <1>2 DEF Rename
  <2>2. Allowed(final[step], tmp[step])
    BY <2>1
  <2> QED
    BY <1>2, <2>1, <2>2, OneDirectory DEF Rename, Goal
<1>3. ASSUME WriteMeta PROVE Goal
  <2> DEFINE d == With(final[step], Meta, run)
  <2>1. step \in Steps /\ d \in Directory /\ ~ Complete(final[step])
    BY <1>3 DEF WriteMeta
  <2>2. ~ Complete(d)
    BY <2>1 DEF With, Directory
  <2>3. Allowed(final[step], d)
    BY <2>1, <2>2
  <2> QED
    BY <1>3, <2>1, <2>3, OneDirectory DEF WriteMeta, Goal
<1>4. ASSUME WriteSentinel PROVE Goal
  <2> DEFINE d == With(final[step], Sentinel, run)
  <2>1. step \in Steps /\ d \in Directory /\ ~ Complete(final[step])
    BY <1>4 DEF WriteSentinel
  <2>2. \A f \in Files : d.file[f] = run
    BY <1>4, <2>1 DEF WriteSentinel, With, Files, Directory
  <2>3. run \in 1..MaxRuns
    OBVIOUS
  <2>4. Complete(d) /\ Whole(d)
    BY <2>2, <2>3 DEF Whole
  <2>5. Allowed(final[step], d)
    BY <2>1, <2>2, <2>4
  <2> QED
    BY <1>4, <2>1, <2>5, OneDirectory DEF WriteSentinel, Goal
<1>5. ASSUME NEW s \in Steps, RemoveDirectory(s) PROVE Goal
  <2>1. ~ Complete(Nothing) /\ Nothing \in Directory
    BY DEF Nothing
  <2>2. Allowed(final[s], Nothing)
    BY <2>1
  <2> QED
    BY <1>5, <2>1, <2>2, OneDirectory DEF RemoveDirectory, Goal
<1>6. ASSUME NEW s \in Steps, NEW f \in Files, Unlink(s, f) PROVE Goal
  <2> DEFINE d == Without(final[s], f)
  <2>1. final[s] \in Directory /\ d \in Directory
    OBVIOUS
  <2>2. d.file[f] = 0 /\ (Complete(d) => Complete(final[s]))
    BY <2>1 DEF Without, Directory
  <2>3. ~ Whole(d)
    <3>1. \A by \in 1..MaxRuns : d.file[f] # by
      BY <2>2
    <3> QED
      BY <3>1, Zenon DEF Whole
  <2>4. Allowed(final[s], d)
    BY <2>2, <2>3
  <2> QED
    BY <1>6, <2>1, <2>4, OneDirectory DEF Unlink, Goal
<1>7. ASSUME Restart PROVE Goal
  BY <1>7 DEF Restart, Goal, Store!Next, Store!Restart
<1> QED
  BY <1>1, <1>2, <1>3, <1>4, <1>5, <1>6, <1>7
     DEF Goal, Next, vars, volatile, Together, LeaderStep, RankStep, Resume, StartWriting,
         AllWritten, SaveDone, Enter, MakeTmp, Pruned, Trimmed, FinishEpoch, Clean,
         RemoveTmp, WriteShard, UnlinkTmp

(* Whoever goes by .complete sees what CheckpointStore promises, for any   *)
(* number of ranks, checkpoints and restarts: whole, at once, and never    *)
(* changed before it is gone (save_checkpoint and the two prunings).       *)
THEOREM DirectoriesImplementStore == Spec => ImplementsStore
<1>1. Init => Store!Init
  BY FileNames DEF Init, Store!Init, Store!None, Seen, Complete, Nothing
<1>2. SaveInv /\ [Next]_vars => [Store!Next]_Store!vars
  BY StepImplements DEF Store!vars
<1> QED
  BY SaveInvariance, <1>1, <1>2, PTL DEF Spec, ImplementsStore, Store!Spec

(***************************************************************************)
(* The disk of a first run                                                 *)
(***************************************************************************)

(* With a list shorter than the second rule's count that rule finds        *)
(* nothing to remove.                                                      *)
LEMMA NothingOutdated ==
  ASSUME NEW F, NEW G, IsFiniteSet(G), Cardinality(G) <= Keep, NEW x,
         F \subseteq G \cup {x}, F \subseteq Nat, Keep < KeepSteps
  PROVE  Outdated(F) = {}
<1> SUFFICES ASSUME NEW s \in F, Cardinality({t \in F : t > s}) >= KeepSteps
             PROVE  FALSE
  BY DEF Outdated
<1> DEFINE H == G \cup {x}
           U == {t \in F : t > s}
<1>1. /\ IsFiniteSet(H) /\ Cardinality(H) <= Cardinality(G) + 1
      /\ Cardinality(G) \in Nat
  <2>1. Cardinality(G) \in Nat
    BY FS_CardinalityType
  <2>2. IsFiniteSet(H) /\ Cardinality(H) = IF x \in G THEN Cardinality(G) ELSE Cardinality(G) + 1
    BY FS_AddElement
  <2> QED
    BY <2>1, <2>2
<1>2. IsFiniteSet(H \ {s}) /\ Cardinality(H \ {s}) = Cardinality(H) - 1
  BY <1>1, FS_RemoveElement
<1>3. U \in SUBSET (H \ {s})
  <2>1. ASSUME NEW t \in U PROVE t \in H \ {s}
    OBVIOUS
  <2> QED
    BY <2>1
<1>4. Cardinality(U) <= Cardinality(H \ {s}) /\ IsFiniteSet(U)
  BY <1>2, <1>3, FS_Subset
<1>5. Cardinality(U) \in Nat /\ Cardinality(H) \in Nat
  BY <1>1, <1>4, FS_CardinalityType
<1> HIDE DEF H, U
<1> QED
  BY <1>1, <1>2, <1>4, <1>5, CheckpointAssumption DEF U

(* There are no more listed steps than checkpoints in the list.            *)
LEMMA ListedSmall ==
  ASSUME IsFiniteSet(best)
  PROVE  IsFiniteSet(Listed) /\ Cardinality(Listed) <= Cardinality(best)
<1> DEFINE stepOf == [b \in best |-> b.step]
<1>1. stepOf \in Surjection(best, Listed)
  BY DEF Surjection, Listed
<1> QED
  BY <1>1, FS_Surjection

(* The list and the disk are both empty.                                   *)
LEMMA FirstRunInit == Init => FirstRunInv
<1> SUFFICES ASSUME Init PROVE FirstRunInv
  OBVIOUS
<1>1. ListInOrder
  BY FS_EmptySet, CheckpointAssumption, FileNames
     DEF Init, ListInOrder, Saving, Making, Writing, Publishing
<1>2. DiskFollowsList
  BY FileNames DEF Init, DiskFollowsList, There, Listed, Nothing
<1> QED
  BY <1>1, <1>2 DEF FirstRunInv

(* The list takes the new checkpoint; the one it gives up is to be removed.*)
LEMMA SaveDoneFollows ==
  ASSUME SaveInv, FirstRunInv, SaveDone, run = 1
  PROVE  (ListInOrder /\ DiskFollowsList)'
<1> DEFINE new == [loss |-> loss, step |-> step]
           B == best \cup {new}
<1>1. /\ ListInOrder /\ DiskFollowsList
      /\ IsFiniteSet(best) /\ best \subseteq [loss : Losses, step : Steps]
      /\ Cardinality(best) \in Nat
  BY FS_CardinalityType DEF SaveInv, TypeOK, FirstRunInv
<1>2. /\ pc[Leader] = "saved" /\ pc'[Leader] = "trim" /\ UNCHANGED <<final, step>>
      /\ loss \in Losses /\ step \in Steps
  BY FileNames DEF SaveDone, Barrier, Release, SaveInv, TypeOK, StepInRange, Saving, Publishing
<1>3. /\ \A b \in best : b.step < step
      /\ \A f \in Files : final[step].file[f] = 1
      /\ There = Listed \cup {step}
  BY <1>1, <1>2 DEF ListInOrder, DiskFollowsList, Saving, Publishing
<1>4. /\ B \subseteq [loss : Losses, step : Steps] /\ IsFiniteSet(B) /\ B # {}
      /\ Cardinality(B) = Cardinality(best) + 1
  <2>1. new \in [loss : Losses, step : Steps] /\ new \notin best
    BY <1>2, <1>3, CheckpointAssumption DEF Steps
  <2> HIDE DEF new
  <2> QED
    BY <1>1, <2>1, FS_AddElement
<1>5. \A b, c \in B : b.step = c.step => b = c
  <2>1. new.step = step
    OBVIOUS
  <2>2. \A b \in best : b.step # step
    BY <1>3, CheckpointAssumption, <1>1, <1>2 DEF Steps
  <2> HIDE DEF new
  <2> QED
    BY <1>1, <2>1, <2>2 DEF ListInOrder
<1>6. \A b \in B : b.step <= step /\ b.step \in There /\ \A f \in Files : final[b.step].file[f] = 1
  <2>1. ASSUME NEW b \in best
        PROVE  b.step <= step /\ b.step \in There /\ \A f \in Files : final[b.step].file[f] = 1
    BY <1>1, <1>3 DEF ListInOrder, DiskFollowsList, Listed
  <2>2. new.step = step /\ step <= step
    BY <1>2, CheckpointAssumption DEF Steps
  <2> HIDE DEF new
  <2> QED
    BY <1>3, <2>1, <2>2
<1>7. There = {b.step : b \in B}
  <2>1. new.step = step
    OBVIOUS
  <2> HIDE DEF new
  <2> QED
    BY <1>3, <2>1 DEF Listed
<1>8. CASE Cardinality(B) > Keep
  <2> DEFINE w == Worst(B)
  <2>1. best' = B \ {w} /\ doomed' = {s \in {w.step} : final[s].there}
    BY <1>8 DEF SaveDone
  <2> HIDE DEF B
  <2>2. w \in B
    <3>1. B \subseteq [loss : Nat, step : Nat]
      <4>1. Losses \subseteq Nat /\ Steps \subseteq Nat
        BY CheckpointAssumption DEF Steps
      <4> QED
        BY <1>4, <4>1
    <3> QED
      BY <1>4, <3>1, WorstMember
  <2>3. doomed' = {w.step}
    BY <1>6, <2>1, <2>2 DEF There
  <2>4. Cardinality(best') <= Keep
    <3>1. Cardinality(best) <= Keep
      BY <1>1 DEF ListInOrder
    <3>2. Cardinality(B \ {w}) = Cardinality(B) - 1
      BY <1>4, <2>2, FS_RemoveElement
    <3> QED
      BY <1>1, <1>4, <2>1, <3>1, <3>2, CheckpointAssumption
  <2> HIDE DEF w
  <2>5. ListInOrder'
    BY <1>2, <1>5, <1>6, <2>1, <2>4 DEF ListInOrder, Saving, Making, Writing, Publishing
  <2>6. There' = Listed' \cup doomed' /\ doomed' \cap Listed' = {}
    BY <1>2, <1>5, <1>7, <2>1, <2>2, <2>3 DEF There, Listed
  <2>7. DiskFollowsList'
    BY <1>2, <1>6, <2>1, <2>6 DEF DiskFollowsList, Listed
  <2> QED
    BY <2>5, <2>7
<1>9. CASE ~ (Cardinality(B) > Keep)
  <2>1. best' = B /\ doomed' = {}
    BY <1>9 DEF SaveDone
  <2> HIDE DEF B
  <2>2. Cardinality(best') <= Keep
    BY <1>1, <1>4, <1>9, <2>1, CheckpointAssumption
  <2>3. ListInOrder'
    BY <1>2, <1>5, <1>6, <2>1, <2>2 DEF ListInOrder, Saving, Making, Writing, Publishing
  <2>4. There' = Listed'
    BY <1>2, <1>7, <2>1 DEF There, Listed
  <2>5. DiskFollowsList'
    BY <1>2, <1>6, <2>1, <2>4 DEF DiskFollowsList, Listed
  <2> QED
    BY <2>3, <2>5
<1> QED
  BY <1>8, <1>9

(* One directory changes, the list does not.                               *)
LEMMA OneChanged ==
  ASSUME NEW s \in Steps, NEW d, s \notin Listed, Listed \subseteq Steps,
         final \in [Steps -> Directory], final' = [final EXCEPT ![s] = d], best' = best
  PROVE  /\ There' = IF d.there THEN There \cup {s} ELSE There \ {s}
         /\ Listed' = Listed
         /\ \A t \in Listed : final'[t] = final[t]
<1>1. \A t \in Steps : final'[t] = IF t = s THEN d ELSE final[t]
  OBVIOUS
<1>2. There' = IF d.there THEN There \cup {s} ELSE There \ {s}
  BY <1>1 DEF There
<1> QED
  BY <1>1, <1>2 DEF Listed

(* The disk follows the list through a save and both prunings.             *)
LEMMA FirstRunKeeps ==
  ASSUME SaveInv, FirstRunInv, [Next]_vars, Keep < KeepSteps
  PROVE  FirstRunInv'
<1> DEFINE Held == (ListInOrder /\ DiskFollowsList)'
<1>0. SUFFICES ASSUME run' = 1, run = 1 PROVE Held
  <2>1. run' \in {run, run + 1} /\ run \in Nat \ {0}
    BY CheckpointAssumption
       DEF SaveInv, TypeOK, Next, vars, volatile, Together, LeaderStep, RankStep, Resume,
           StartWriting, AllWritten, SaveDone, Enter, MakeTmp, Rename, WriteMeta,
           WriteSentinel, Pruned, Trimmed, RemoveDirectory, Unlink, FinishEpoch, Clean,
           RemoveTmp, WriteShard, UnlinkTmp, Restart
  <2> QED
    BY <2>1 DEF FirstRunInv
<1>20. /\ final \in [Steps -> Directory] /\ run \in Nat /\ step \in 0..MaxSteps
      /\ pc = [r \in Ranks |-> pc[r]] /\ Leader \in Ranks /\ Listed \subseteq Steps
      /\ best \subseteq [loss : Losses, step : Steps]
      /\ \A r \in Ranks : pc[r] \in Saving => step \in Steps
  <2>1. pc = [r \in Ranks |-> pc[r]]
    BY DEF SaveInv, TypeOK
  <2>2. Listed \subseteq Steps
    BY DEF SaveInv, TypeOK, Listed
  <2>3. run \in Nat /\ step \in 0..MaxSteps
    BY CheckpointAssumption DEF SaveInv, TypeOK
  <2>4. final \in [Steps -> Directory] /\ best \subseteq [loss : Losses, step : Steps]
    BY DEF SaveInv, TypeOK
  <2>5. \A r \in Ranks : pc[r] \in Saving => step \in Steps
    BY DEF SaveInv, StepInRange
  <2> QED
    BY <2>1, <2>2, <2>3, <2>4, <2>5, CheckpointAssumption
<1>21. ListInOrder /\ DiskFollowsList
  BY <1>0 DEF FirstRunInv
<1>22. \A t \in Listed : \A f \in Files : final[t].file[f] = 1
  BY <1>21 DEF DiskFollowsList
<1>4. ASSUME SaveDone PROVE Held
  BY <1>4, <1>0, SaveDoneFollows
<1>3. ASSUME AllWritten PROVE Held
  <2>1. pc[Leader] = "written" /\ pc'[Leader] = "replace" /\ UNCHANGED <<final, step, best>>
    BY <1>3, <1>20 DEF AllWritten, Barrier, Release
  <2>2. step \in Steps /\ step \notin Listed /\ There = Listed
    BY <1>20, <1>21, <2>1 DEF Saving, Making, Writing, Publishing, ListInOrder, DiskFollowsList, Listed
  <2>3. doomed' = {}
    BY <1>3, <2>2 DEF AllWritten, There
  <2> QED
    BY <1>21, <2>1, <2>2, <2>3
       DEF ListInOrder, DiskFollowsList, Saving, Making, Writing, Publishing, Listed, There
<1>5. ASSUME NEW l \in Losses, Enter(l) PROVE Held
  <2>1. /\ pc[Leader] = "enter" /\ pc'[Leader] = "clean" /\ step' = step + 1
        /\ UNCHANGED <<final, best, doomed>>
    BY <1>5, <1>20 DEF Enter, Barrier, Release
  <2>2. \A b \in best : b.step < step + 1
    BY <1>20, <1>21, CheckpointAssumption DEF ListInOrder, Steps
  <2>3. ListInOrder'
    BY <1>21, <2>1, <2>2, <1>20, CheckpointAssumption DEF ListInOrder, Steps
  <2>4. DiskFollowsList'
    BY <1>21, <2>1 DEF DiskFollowsList, Listed, There
  <2> QED
    BY <2>3, <2>4
<1>7. ASSUME Rename PROVE Held
  <2> DEFINE d == tmp[step]
  <2>1. /\ pc[Leader] = "replace" /\ pc'[Leader] = "meta" /\ UNCHANGED <<step, best, doomed>>
        /\ step \in Steps /\ final' = [final EXCEPT ![step] = d]
    BY <1>7, <1>20 DEF Rename, Goto, Saving, Making, Writing, Publishing
  <2>2. step \notin Listed /\ There = Listed
    BY <1>20, <1>21, <2>1 DEF Saving, Making, Writing, Publishing, ListInOrder, DiskFollowsList, Listed
  <2>3. d.there
    BY <1>7 DEF Rename, SaveInv, SavedSoFar
  <2> HIDE DEF d
  <2>4. ListInOrder'
    BY <1>21, <2>1 DEF ListInOrder, Saving, Making, Writing, Publishing
  <2>5. There' = Listed' \cup {step} /\ \A t \in Listed' : \A f \in Files : final'[t].file[f] = 1
    <3>1. There' = There \cup {step} /\ Listed' = Listed /\ \A t \in Listed : final'[t] = final[t]
      BY <1>20, <2>1, <2>2, <2>3, OneChanged
    <3> QED
      BY <1>22, <2>2, <3>1
  <2>6. DiskFollowsList'
    BY <2>1, <2>5 DEF DiskFollowsList
  <2> QED
    BY <2>4, <2>6
<1>8. ASSUME WriteMeta PROVE Held
  <2> DEFINE d == With(final[step], Meta, run)
  <2>1. /\ pc[Leader] = "meta" /\ pc'[Leader] = "sentinel" /\ UNCHANGED <<step, best, doomed>>
        /\ step \in Steps /\ final' = [final EXCEPT ![step] = d]
    BY <1>8, <1>20 DEF WriteMeta, Goto, Saving, Making, Writing, Publishing
  <2>2. step \notin Listed /\ There = Listed \cup {step}
    BY <1>20, <1>21, <2>1 DEF Saving, Making, Writing, Publishing, ListInOrder, DiskFollowsList, Listed
  <2>3. d.there
    BY DEF With
  <2> HIDE DEF d
  <2>4. ListInOrder'
    BY <1>21, <2>1 DEF ListInOrder, Saving, Making, Writing, Publishing
  <2>5. There' = Listed' \cup {step} /\ \A t \in Listed' : \A f \in Files : final'[t].file[f] = 1
    <3>1. There' = There \cup {step} /\ Listed' = Listed /\ \A t \in Listed : final'[t] = final[t]
      BY <1>20, <2>1, <2>2, <2>3, OneChanged
    <3> QED
      BY <1>22, <2>2, <3>1
  <2>6. DiskFollowsList'
    BY <2>1, <2>5 DEF DiskFollowsList
  <2> QED
    BY <2>4, <2>6
<1>9. ASSUME WriteSentinel PROVE Held
  <2> DEFINE d == With(final[step], Sentinel, run)
  <2>1. /\ pc[Leader] = "sentinel" /\ pc'[Leader] = "prune" /\ UNCHANGED <<step, best>>
        /\ step \in Steps /\ final' = [final EXCEPT ![step] = d]
    BY <1>9, <1>20 DEF WriteSentinel, Goto, Saving, Making, Writing, Publishing
  <2>2. step \notin Listed /\ There = Listed \cup {step}
    BY <1>20, <1>21, <2>1 DEF Saving, Making, Writing, Publishing, ListInOrder, DiskFollowsList, Listed
  <2>3. d.there
    BY DEF With
  <2> HIDE DEF d
  <2>4. ListInOrder'
    BY <1>21, <2>1 DEF ListInOrder, Saving, Making, Writing, Publishing
  <2>5. There' = Listed' \cup {step} /\ \A t \in Listed' : \A f \in Files : final'[t].file[f] = 1
    <3>1. There' = There \cup {step} /\ Listed' = Listed /\ \A t \in Listed : final'[t] = final[t]
      BY <1>20, <2>1, <2>2, <2>3, OneChanged
    <3> QED
      BY <1>22, <2>2, <3>1
  <2>6. \A f \in Files : final'[step].file[f] = 1
    <3>1. \A f \in Files \ {Sentinel} : final[step].file[f] = 1
      BY <1>0, <2>1 DEF SaveInv, SavedSoFar, Files
    <3>2. final[step].file \in [Files -> 0..MaxRuns]
      BY <1>20, <2>1 DEF Directory
    <3> QED
      BY <1>0, <1>20, <2>1, <3>1, <3>2 DEF With, d
  <2>7. doomed' = {}
    <3> DEFINE F == {s \in Steps : s = step \/ Complete(final[s])}
    <3>1. F \subseteq Listed \cup {step}
      BY <2>2 DEF SaveInv, SavedSoFar, There
    <3>2. F \subseteq Nat
      BY CheckpointAssumption DEF Steps
    <3>3. IsFiniteSet(Listed) /\ Cardinality(Listed) <= Cardinality(best)
      BY ListedSmall DEF SaveInv
    <3>4. Cardinality(Listed) <= Keep
      <4>1. Cardinality(Listed) \in Nat /\ Cardinality(best) \in Nat
        BY <3>3, FS_CardinalityType DEF SaveInv
      <4> QED
        BY <1>21, <3>3, <4>1, CheckpointAssumption DEF ListInOrder
    <3>5. doomed' = Outdated(F)
      BY <1>9 DEF WriteSentinel
    <3> HIDE DEF F
    <3> QED
      BY <3>1, <3>2, <3>3, <3>4, <3>5, NothingOutdated
  <2>8. DiskFollowsList'
    BY <2>1, <2>5, <2>6, <2>7 DEF DiskFollowsList
  <2> QED
    BY <2>4, <2>8
<1>12. ASSUME NEW s \in Steps, RemoveDirectory(s) PROVE Held
  <2>1. s \in doomed /\ pc[Leader] = "trim" /\ s \notin Listed /\ There = Listed \cup doomed
    BY <1>12, <1>21 DEF RemoveDirectory, Removing, Foremost, DiskFollowsList
  <2>2. /\ UNCHANGED <<step, pc, best>> /\ doomed' = doomed \ {s}
        /\ final' = [final EXCEPT ![s] = Nothing]
    BY <1>12 DEF RemoveDirectory
  <2>3. There' = There \ {s} /\ \A t \in Listed' : \A f \in Files : final'[t].file[f] = 1
    <3>1. There' = There \ {s} /\ Listed' = Listed /\ \A t \in Listed : final'[t] = final[t]
      <4>1. ~ Nothing.there
        BY DEF Nothing
      <4> QED
        BY <1>20, <2>1, <2>2, <4>1, OneChanged
    <3> QED
      BY <1>22, <3>1
  <2>4. ListInOrder'
    BY <1>21, <2>2 DEF ListInOrder
  <2>5. DiskFollowsList'
    BY <1>21, <2>1, <2>2, <2>3 DEF DiskFollowsList, Listed
  <2> QED
    BY <2>4, <2>5
<1>13. ASSUME NEW s \in Steps, NEW f \in Files, Unlink(s, f) PROVE Held
  <2>1. s \in doomed /\ pc[Leader] = "trim" /\ s \notin Listed /\ There = Listed \cup doomed
    BY <1>13, <1>21 DEF Unlink, Removing, Foremost, DiskFollowsList
  <2>2. /\ UNCHANGED <<step, pc, best, doomed>>
        /\ final' = [final EXCEPT ![s] = Without(final[s], f)]
    BY <1>13 DEF Unlink, volatile
  <2>3. s \in There /\ Without(final[s], f).there
    BY <2>1 DEF There, Without
  <2>4. There' = There /\ \A t \in Listed' : \A g \in Files : final'[t].file[g] = 1
    <3>1. There' = There \cup {s} /\ Listed' = Listed /\ \A t \in Listed : final'[t] = final[t]
      BY <1>20, <2>1, <2>2, <2>3, OneChanged
    <3> QED
      BY <1>22, <2>3, <3>1
  <2>5. ListInOrder'
    BY <1>21, <2>2 DEF ListInOrder
  <2>6. DiskFollowsList'
    BY <1>21, <2>1, <2>2, <2>4 DEF DiskFollowsList, Listed
  <2> QED
    BY <2>5, <2>6
<1> USE CheckpointAssumption, FileNames, <1>0
        DEF SaveInv, TypeOK, StepInRange, FirstRunInv, ListInOrder, DiskFollowsList, Steps,
            Saving, Making, Writing, Publishing, Between, There, Listed, Directory
<1>1. ASSUME Resume PROVE Held
  BY <1>1 DEF Resume, Barrier, Release
<1>2. ASSUME StartWriting PROVE Held
  BY <1>2 DEF StartWriting, Barrier, Release
<1>6. ASSUME MakeTmp PROVE Held
  BY <1>6 DEF MakeTmp, Goto
<1>10. ASSUME Pruned PROVE Held
  BY <1>10 DEF Pruned, Goto
<1>11. ASSUME Trimmed PROVE Held
  BY <1>11 DEF Trimmed, Goto
<1>14. ASSUME Restart PROVE Held
  BY <1>14 DEF Restart
<1>15. ASSUME NEW r \in Ranks, FinishEpoch(r) PROVE Held
  BY <1>15 DEF FinishEpoch, Goto
<1>16. ASSUME NEW r \in Ranks, Clean(r) PROVE Held
  <2>1. /\ UNCHANGED <<step, final, best, doomed>>
        /\ pc'[Leader] = pc[Leader] \/ (pc[Leader] \in Making /\ pc'[Leader] \in Making)
    BY <1>16 DEF Clean, Goto
  <2>2. ListInOrder' /\ DiskFollowsList'
    BY <2>1
  <2> QED
    BY <2>2
<1>17. ASSUME NEW r \in Ranks, RemoveTmp(r) PROVE Held
  BY <1>17 DEF RemoveTmp, Goto
<1>18. ASSUME NEW r \in Ranks, WriteShard(r) PROVE Held
  BY <1>18 DEF WriteShard, Goto
<1>19. ASSUME NEW r \in Ranks, NEW f \in Files, UnlinkTmp(r, f) PROVE Held
  BY <1>19 DEF UnlinkTmp, Goto
<1>24. CASE UNCHANGED vars
  BY <1>24 DEF vars
<1> QED
  BY <1>1, <1>2, <1>3, <1>4, <1>5, <1>6, <1>7, <1>8, <1>9, <1>10, <1>11,
     <1>12, <1>13, <1>14, <1>15, <1>16, <1>17, <1>18, <1>19, <1>24
     DEF Next, Together, LeaderStep, RankStep

(* In the first run the disk holds the best checkpoints rank 0 has listed, *)
(* whole, and no other, as long as the list is shorter than what the       *)
(* pruning by step keeps (keep_last_n: 2 and 3 by default).                *)
THEOREM DiskAlwaysHolds ==
  ASSUME Keep < KeepSteps
  PROVE  Spec => []DiskHolds
<1>1. SaveInv /\ FirstRunInv /\ [Next]_vars => FirstRunInv'
  BY FirstRunKeeps
<1>2. SaveInv /\ FirstRunInv => DiskHolds
  <2> SUFFICES ASSUME SaveInv, FirstRunInv, run = 1, pc[Leader] \in {"train", "enter", "done"}
               PROVE  There = Listed /\ \A b \in best : Whole(final[b.step])
    BY DEF DiskHolds, DiskIsBest, SaveInv, There, Listed
  <2>1. DiskFollowsList
    BY DEF FirstRunInv
  <2>2. \A s \in Listed : Whole(final[s])
    BY <2>1, CheckpointAssumption DEF DiskFollowsList, Whole
  <2> QED
    BY <2>1, <2>2 DEF DiskFollowsList, Listed
<1> QED
  BY SaveInvariance, FirstRunInit, <1>1, <1>2, PTL DEF Spec

=============================================================================
