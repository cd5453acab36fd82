----------------------------- MODULE Checkpoint -----------------------------
(***************************************************************************)
(* Periodic checkpoints of a training job (distributed/checkpoint.py,      *)
(* trainer/checkpointing.py and the calls in trainer/loop.py): several     *)
(* ranks save together, rank 0 publishes and prunes, the job may stop at   *)
(* any point and be started again over the same save_dir.                  *)
(*                                                                         *)
(* One optimizer step per epoch and a save after every epoch, so a save is *)
(* identified by its step and the run that made it.  A directory is what   *)
(* it holds: for each file the run that wrote it.  rmtree removes one file *)
(* after the other, in an order nobody promises, and the directory last.   *)
(* Barriers let all ranks go on when all have arrived; where they come to  *)
(* rest after that is up to the interleaving.                              *)
(*                                                                         *)
(* Definitions named Faulty... are what a plausible slip in the code would *)
(* make of the definition that follows; no specification uses them.        *)
(***************************************************************************)
EXTENDS Naturals, FiniteSets

CONSTANTS Ranks,      \* the ranks of the job
          Leader,     \* rank 0
          Meta,       \* the file meta.json
          Sentinel,   \* the file .complete
          MaxSteps,   \* max_steps: training ends there
          Losses,     \* values avg_loss can take
          Keep,       \* ckpt_cfg.keep_last_n
          KeepSteps,  \* keep_last_n of save_checkpoint, left at its default
          MaxRuns     \* bound: how often the job is started

ASSUME CheckpointAssumption ==
  /\ Leader \in Ranks /\ IsFiniteSet(Ranks)
  /\ Meta # Sentinel /\ Meta \notin Ranks /\ Sentinel \notin Ranks
  /\ MaxSteps \in Nat \ {0} /\ MaxRuns \in Nat \ {0}
  /\ Losses \subseteq Nat
  /\ Keep \in Nat \ {0} /\ KeepSteps \in Nat \ {0}

VARIABLES
  final,    \* final[s]: the directory step_s
  tmp,      \* tmp[s]: the directory step_s.tmp
  run,      \* which start of the job this is
  step,     \* the optimizer steps done in this run
  loss,     \* avg_loss of the epoch being saved
  pc,       \* pc[r]: where rank r is
  listing,  \* listing[r]: what r's rmtree of the .tmp still has to remove
  doomed,   \* step directories rank 0 still has to remove in this loop
  best      \* best_ckpts of rank 0

vars == <<final, tmp, run, step, loss, pc, listing, doomed, best>>
volatile == <<step, loss, pc, listing, doomed, best>>

Steps == 1..MaxSteps
Files == Ranks \cup {Meta, Sentinel}

Directory == [there : BOOLEAN, file : [Files -> 0..MaxRuns]]
Nothing == [there |-> FALSE, file |-> [f \in Files |-> 0]]
Empty == [there |-> TRUE, file |-> [f \in Files |-> 0]]

Present(d) == {f \in Files : d.file[f] # 0}
Without(d, f) == [there |-> d.there, file |-> [d.file EXCEPT ![f] = 0]]
With(d, f, by) == [there |-> TRUE, file |-> [d.file EXCEPT ![f] = by]]

Complete(d) == d.file[Sentinel] # 0
Whole(d) == \E by \in 1..MaxRuns : \A f \in Files : d.file[f] = by

Init ==
  /\ final = [s \in Steps |-> Nothing]
  /\ tmp = [s \in Steps |-> Nothing]
  /\ run = 1
  /\ step = 0
  /\ loss = 0
  /\ pc = [r \in Ranks |-> "resume"]
  /\ listing = [r \in Ranks |-> {}]
  /\ doomed = {}
  /\ best = {}

Goto(r, label) == pc' = [pc EXCEPT ![r] = label]

(* dist.barrier(): nobody passes before all have come.                     *)
Barrier(label) == \A r \in Ranks : pc[r] = label
Release(leader, others) ==
  pc' = [r \in Ranks |-> IF r = Leader THEN leader ELSE others]

-----------------------------------------------------------------------------
(* Resume *)

(* distributed maybe_resume, here called load_checkpoint: the highest      *)
(* complete checkpoint among the step directories of the directory given.  *)
LatestAmong(S) ==
  LET C == {s \in S : Complete(final[s])}
  IN  IF C = {} THEN 0 ELSE CHOOSE s \in C : \A t \in C : t <= s

(* The trainer's maybe_resume hands it one step directory: that holds the  *)
(* shards and no step directory.                                           *)
StepDirectoriesInside(s) == {}

ResumeStep ==
  LET C == {s \in Steps : final[s].there \/ tmp[s].there}
  IN  IF C = {} THEN 0
      ELSE LatestAmong(StepDirectoriesInside(CHOOSE s \in C : \A t \in C : t <= s))

(* All ranks read the same directories, before any of them writes.         *)
Resume ==
  /\ Barrier("resume")
  /\ step' = ResumeStep
  /\ Release("train", "train")
  /\ UNCHANGED <<final, tmp, run, loss, listing, doomed, best>>

-----------------------------------------------------------------------------
(* save_and_prune and save_checkpoint *)

(* A rank is through with its epoch and comes to save.                     *)
FinishEpoch(r) ==
  /\ pc[r] = "train"
  /\ Goto(r, IF step < MaxSteps THEN "enter" ELSE "done")
  /\ UNCHANGED <<final, tmp, run, step, loss, listing, doomed, best>>

Enter(l) ==
  /\ Barrier("enter")
  /\ step' = step + 1
  /\ loss' = l
  /\ Release("clean", "clean")
  /\ UNCHANGED <<final, tmp, run, listing, doomed, best>>

(* A leftover .tmp is removed by every rank that sees it: the trainer      *)
(* leaves the argument rank at 0 on all of them.                           *)
Clean(r) ==
  /\ pc[r] = "clean"
  /\ IF tmp[step].there
     THEN /\ listing' = [listing EXCEPT ![r] = Present(tmp[step])]
          /\ Goto(r, "rmtmp")
     ELSE /\ UNCHANGED listing
          /\ Goto(r, IF r = Leader THEN "mkdir" ELSE "ready")
  /\ UNCHANGED <<final, tmp, run, step, loss, doomed, best>>

(* Removing what another rank has removed raises, and the rank fails.      *)
UnlinkTmp(r, f) ==
  /\ pc[r] = "rmtmp"
  /\ f \in listing[r]
  /\ listing' = [listing EXCEPT ![r] = @ \ {f}]
  /\ tmp' = [tmp EXCEPT ![step] = Without(@, f)]
  /\ IF f \in Present(tmp[step]) THEN UNCHANGED pc ELSE Goto(r, "failed")
  /\ UNCHANGED <<final, run, step, loss, doomed, best>>

RemoveTmp(r) ==
  /\ pc[r] = "rmtmp"
  /\ listing[r] = {}
  /\ tmp' = [tmp EXCEPT ![step] = Nothing]
  /\ Goto(r, IF ~ tmp[step].there THEN "failed"
             ELSE IF r = Leader THEN "mkdir" ELSE "ready")
  /\ UNCHANGED <<final, run, step, loss, listing, doomed, best>>

MakeTmp ==
  /\ pc[Leader] = "mkdir"
  /\ tmp' = [tmp EXCEPT ![step] = IF @.there THEN @ ELSE Empty]
  /\ Goto(Leader, "ready")
  /\ UNCHANGED <<final, run, step, loss, listing, doomed, best>>

StartWriting ==
  /\ Barrier("ready")
  /\ Release("write", "write")
  /\ UNCHANGED <<final, tmp, run, step, loss, listing, doomed, best>>

(* The rank's shards of model and optimizer; missing parents are made.     *)
FaultyWriteShard(r) ==
  /\ pc[r] = "write"
  /\ tmp' = [tmp EXCEPT ![step] = With(@, r, run)]
  /\ Goto(r, IF r = Leader THEN "written" ELSE "saved")
  /\ UNCHANGED <<final, run, step, loss, listing, doomed, best>>
WriteShard(r) ==
  /\ pc[r] = "write"
  /\ tmp' = [tmp EXCEPT ![step] = With(@, r, run)]
  /\ Goto(r, "written")
  /\ UNCHANGED <<final, run, step, loss, listing, doomed, best>>

(* After the barrier rank 0 publishes and the others wait for it.  An      *)
(* older checkpoint of the same step has to go first.                      *)
FaultyAllWritten ==
  /\ pc[Leader] = "written"
  /\ doomed' = IF final[step].there THEN {step} ELSE {}
  /\ Goto(Leader, "replace")
  /\ UNCHANGED <<final, tmp, run, step, loss, listing, best>>
AllWritten ==
  /\ Barrier("written")
  /\ doomed' = IF final[step].there THEN {step} ELSE {}
  /\ Release("replace", "saved")
  /\ UNCHANGED <<final, tmp, run, step, loss, listing, best>>

Rename ==
  /\ pc[Leader] = "replace"
  /\ doomed = {}
  /\ final' = [final EXCEPT ![step] = tmp[step]]
  /\ tmp' = [tmp EXCEPT ![step] = Nothing]
  /\ Goto(Leader, "meta")
  /\ UNCHANGED <<run, step, loss, listing, doomed, best>>

FaultyWriteMeta ==
  /\ pc[Leader] = "meta"
  /\ final' = [final EXCEPT ![step] = With(@, Sentinel, run)]
  /\ Goto(Leader, "sentinel")
  /\ UNCHANGED <<tmp, run, step, loss, listing, doomed, best>>
WriteMeta ==
  /\ pc[Leader] = "meta"
  /\ final' = [final EXCEPT ![step] = With(@, Meta, run)]
  /\ Goto(Leader, "sentinel")
  /\ UNCHANGED <<tmp, run, step, loss, listing, doomed, best>>

(* _cleanup_old_checkpoints: all complete ones but the KeepSteps highest.  *)
FaultyOutdated(F) == {s \in F : Cardinality({t \in F : t > s}) >= KeepSteps - 1}
Outdated(F) == {s \in F : Cardinality({t \in F : t > s}) >= KeepSteps}

(* .complete, after which the pruning by step is planned.                  *)
WriteSentinel ==
  /\ pc[Leader] = "sentinel"
  /\ final' = [final EXCEPT ![step] = With(@, Sentinel, run)]
  /\ doomed' = Outdated({s \in Steps : s = step \/ Complete(final[s])})
  /\ Goto(Leader, "prune")
  /\ UNCHANGED <<tmp, run, step, loss, listing, best>>

(* rmtree by rank 0, for the step directories planned, lowest first.       *)
Removing == {"replace", "prune", "trim"}
Foremost(s) == s \in doomed /\ \A t \in doomed : s <= t

Unlink(s, f) ==
  /\ pc[Leader] \in Removing
  /\ Foremost(s)
  /\ f \in Present(final[s])
  /\ final' = [final EXCEPT ![s] = Without(@, f)]
  /\ UNCHANGED <<tmp, run, volatile>>

RemoveDirectory(s) ==
  /\ pc[Leader] \in Removing
  /\ Foremost(s)
  /\ Present(final[s]) = {}
  /\ final' = [final EXCEPT ![s] = Nothing]
  /\ doomed' = doomed \ {s}
  /\ UNCHANGED <<tmp, run, step, loss, pc, listing, best>>

Pruned ==
  /\ pc[Leader] = "prune"
  /\ doomed = {}
  /\ Goto(Leader, "saved")
  /\ UNCHANGED <<final, tmp, run, step, loss, listing, doomed, best>>

(* The worst of the list by loss; among equals the one appended last.      *)
Worst(B) == CHOOSE b \in B : \A c \in B :
              c.loss < b.loss \/ (c.loss = b.loss /\ c.step <= b.step)

(* The last barrier; then rank 0 takes the new checkpoint into its list of *)
(* the best and removes the one that falls out of it.                      *)
SaveDone ==
  LET B == best \cup {[loss |-> loss, step |-> step]}
  IN  /\ Barrier("saved")
      /\ IF Cardinality(B) > Keep
         THEN /\ best' = B \ {Worst(B)}
              /\ doomed' = {s \in {Worst(B).step} : final[s].there}
         ELSE best' = B /\ doomed' = {}
      /\ Release("trim", "train")
      /\ UNCHANGED <<final, tmp, run, step, loss, listing>>

Trimmed ==
  /\ pc[Leader] = "trim"
  /\ doomed = {}
  /\ Goto(Leader, "train")
  /\ UNCHANGED <<final, tmp, run, step, loss, listing, doomed, best>>

-----------------------------------------------------------------------------
(* The job stops, at any point or because a rank has failed, and is        *)
(* started again: only the directories are left.                           *)
Restart ==
  /\ run < MaxRuns
  /\ run' = run + 1
  /\ step' = 0 /\ loss' = 0 /\ doomed' = {} /\ best' = {}
  /\ pc' = [r \in Ranks |-> "resume"]
  /\ listing' = [r \in Ranks |-> {}]
  /\ UNCHANGED <<final, tmp>>

-----------------------------------------------------------------------------

RankStep(r) ==
  \/ FinishEpoch(r) \/ Clean(r) \/ RemoveTmp(r) \/ WriteShard(r)
  \/ \E f \in Files : UnlinkTmp(r, f)

LeaderStep ==
  \/ MakeTmp \/ Rename \/ WriteMeta \/ WriteSentinel \/ Pruned \/ Trimmed
  \/ \E s \in Steps : RemoveDirectory(s) \/ \E f \in Files : Unlink(s, f)

Together ==
  \/ Resume \/ StartWriting \/ AllWritten \/ SaveDone
  \/ \E l \in Losses : Enter(l)

Next == Together \/ LeaderStep \/ Restart \/ \E r \in Ranks : RankStep(r)

Spec == Init /\ [][Next]_vars

(* Ranks that are up go on, and a barrier all have reached opens; nothing  *)
(* makes the job restart.                                                  *)
FairSpec ==
  /\ Spec
  /\ WF_vars(Together) /\ WF_vars(LeaderStep)
  /\ \A r \in Ranks : WF_vars(RankStep(r))

-----------------------------------------------------------------------------
(* Properties *)

TypeOK ==
  /\ final \in [Steps -> Directory] /\ tmp \in [Steps -> Directory]
  /\ run \in 1..MaxRuns /\ step \in 0..MaxSteps /\ loss \in Losses \cup {0}
  /\ pc \in [Ranks -> {"resume", "train", "enter", "clean", "rmtmp", "failed",
                       "mkdir", "ready", "write", "written", "replace", "meta",
                       "sentinel", "prune", "saved", "trim", "done"}]
  /\ listing \in [Ranks -> SUBSET Files]
  /\ doomed \subseteq Steps
  /\ best \subseteq [loss : Losses, step : Steps]

(* The sentinel is the last thing written: the moment .complete appears,   *)
(* the directory holds the shards of all ranks and the meta data of this   *)
(* very save, whatever crashed saves left behind and however the ranks     *)
(* were scheduled.                                                         *)
SentinelLast ==
  [][\A s \in Steps : ~ Complete(final[s]) /\ Complete(final[s])'
       => \A f \in Files : final'[s].file[f] = run]_vars

(* As long as the job was not restarted, the step directories on disk      *)
(* after a save are exactly the best checkpoints rank 0 has listed, and    *)
(* they are whole: the pruning by step never takes one of the best.        *)
DiskIsBest ==
  run = 1 /\ pc[Leader] \in {"train", "enter", "done"} =>
    /\ {s \in Steps : final[s].there} = {b.step : b \in best}
    /\ \A b \in best : Whole(final[b.step])

(* Well typed, and the disk holds the best checkpoints as above.           *)
DiskHolds == TypeOK /\ DiskIsBest

(* A save that all ranks have come to ends, unless a rank fails: no rank   *)
(* waits in a barrier that another one does not reach.                     *)
SaveEnds ==
  (pc[Leader] = "clean")
    ~> (pc[Leader] \in {"train", "done"} \/ \E r \in Ranks : pc[r] = "failed")

Seen(d) == IF ~ Complete(d) THEN [is |-> "none", by |-> 0]
           ELSE IF Whole(d) THEN [is |-> "whole", by |-> d.file[Sentinel]]
           ELSE [is |-> "ruin", by |-> 0]

Store == INSTANCE CheckpointStore WITH
           Names <- Steps, store <- [s \in Steps |-> Seen(final[s])]

(* Whoever goes by .complete sees a checkpoint appear whole and in one     *)
(* step, and never change: the directory implements CheckpointStore.       *)
ImplementsStore == Store!Spec

(* The latest valid checkpoint is loaded and gives the start step.         *)
ResumesAtLatest == [][Resume => step' = LatestAmong(Steps)]_vars

=============================================================================
