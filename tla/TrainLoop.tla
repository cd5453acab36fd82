----------------------------- MODULE TrainLoop -----------------------------
(***************************************************************************)
(* The training loop (trainer/loop.py): train, _run_epoch, _set_grad_sync, *)
(* as the ranks run it side by side.  A window of GradAccum micro-batches  *)
(* makes one optimizer step; the gradients of a rank are the micro-batches *)
(* in them.  A backward that synchronises, the gradient norm of FSDP2, the *)
(* barrier at the end of an epoch and the saving are collective: a rank    *)
(* waits there until all ranks have come.                                  *)
(***************************************************************************)
EXTENDS Integers, FiniteSets

CONSTANTS
  Rank,
  Wrapper,      \* the kinds of wrapped model to look at
  GradAccum,    \* training.grad_accum
  MaxSteps,     \* training.max_steps
  NumEpochs,    \* training.num_epochs
  ShardSizes,   \* the numbers of batches a shard may have
  SaveInterval, \* checkpoint.save_interval
  ResumeAt      \* the steps a checkpoint may have been found for

ASSUME LoopAssumption ==
  /\ GradAccum \in Nat \ {0} /\ MaxSteps \in Nat /\ NumEpochs \in Nat
  /\ Wrapper \subseteq {"fsdp2", "ddp", "static_graph", "none"}
  /\ ShardSizes \subseteq Nat /\ ResumeAt \subseteq Nat /\ SaveInterval \in Nat \ {0}
  /\ IsFiniteSet(Rank)

VARIABLES
  wrapper,     \* what wrap_model made of the model
  shard,       \* batches of a shard: Ray splits the rows evenly
  resumed,     \* the step the run started with
  at,          \* at[r]: where rank r is
  epoch, step, \* of every rank
  epochSteps,  \* epoch_steps
  left,        \* batches left in the loader of the epoch
  micro,       \* micro_step
  sync,        \* is gradient synchronisation on?
  grads,       \* micro-batches in the gradients of the rank
  reduced,     \* reductions of gradients since they were last zero
  schedule     \* calls of scheduler.step

local == <<at, epoch, step, epochSteps, left, micro, sync, grads, reduced, schedule>>
loopVars == <<wrapper, shard, resumed, local>>

LoopInit ==
  /\ wrapper \in Wrapper /\ (wrapper = "none" => Cardinality(Rank) = 1)
  /\ shard \in ShardSizes /\ resumed \in ResumeAt
  /\ at = [r \in Rank |-> "epoch"]
  /\ epoch = [r \in Rank |-> 0]
  /\ step = [r \in Rank |-> resumed]
  /\ epochSteps = [r \in Rank |-> 0]
  /\ left = [r \in Rank |-> 0]
  /\ micro = [r \in Rank |-> 0]
  /\ sync = [r \in Rank |-> TRUE]
  /\ grads = [r \in Rank |-> 0]
  /\ reduced = [r \in Rank |-> 0]
  /\ schedule = [r \in Rank |-> 0]

Set(v, r, x) == [v EXCEPT ![r] = x]
Goto(r, place) == at' = Set(at, r, place)
Settings == UNCHANGED <<wrapper, shard, resumed>>

(* A static graph cannot be toggled, and elsewhere there is nothing to be: *)
(* synchronisation stays on.                                               *)
Toggles == wrapper \in {"fsdp2", "ddp"}
Toggled(r, on) == sync' = IF Toggles THEN Set(sync, r, on) ELSE sync

ZeroGrad(r) == grads' = Set(grads, r, 0) /\ reduced' = Set(reduced, r, 0)

-----------------------------------------------------------------------------
FaultyStartEpoch(r) ==
  /\ at[r] = "epoch" /\ epoch[r] < NumEpochs
  /\ left' = Set(left, r, shard)
  /\ epochSteps' = Set(epochSteps, r, 0)
  /\ micro' = Set(micro, r, 0)
  /\ Goto(r, "window")
  /\ Settings /\ UNCHANGED <<epoch, step, sync, schedule, grads, reduced>>
StartEpoch(r) ==
  /\ at[r] = "epoch" /\ epoch[r] < NumEpochs
  /\ left' = Set(left, r, shard)
  /\ epochSteps' = Set(epochSteps, r, 0)
  /\ micro' = Set(micro, r, 0)
  /\ ZeroGrad(r)
  /\ Goto(r, "window")
  /\ Settings /\ UNCHANGED <<epoch, step, sync, schedule>>

Finish(r) ==
  /\ at[r] = "epoch" /\ epoch[r] >= NumEpochs
  /\ Goto(r, "finished")
  /\ Settings /\ UNCHANGED <<epoch, step, epochSteps, left, micro, sync, grads, reduced, schedule>>

StartWindow(r) ==
  /\ at[r] = "window"
  /\ micro' = Set(micro, r, 0)
  /\ Goto(r, IF step[r] < MaxSteps THEN "batch" ELSE "ended")
  /\ Settings /\ UNCHANGED <<epoch, step, epochSteps, left, sync, grads, reduced, schedule>>

(* A batch goes through forward and backward; the last one of the window   *)
(* with synchronisation.                                                   *)
FaultyIsLast(r) == micro[r] = GradAccum
IsLast(r) == micro[r] = GradAccum - 1
Micro(r) ==
  /\ at[r] = "batch" /\ micro[r] < GradAccum /\ left[r] > 0
  /\ left' = Set(left, r, left[r] - 1)
  /\ Toggled(r, IsLast(r))
  /\ grads' = Set(grads, r, grads[r] + 1)
  /\ micro' = Set(micro, r, micro[r] + 1)
  /\ Goto(r, IF sync'[r] THEN "reduce" ELSE "batch")
  /\ Settings /\ UNCHANGED <<epoch, step, epochSteps, reduced, schedule>>

(* The data may end within a window: the loop is left as it stands.        *)
DataEnds(r) ==
  /\ at[r] = "batch" /\ micro[r] < GradAccum /\ left[r] = 0
  /\ Goto(r, "ended")
  /\ Settings /\ UNCHANGED <<epoch, step, epochSteps, left, micro, sync, grads, reduced, schedule>>

(* The collectives *)
AllAt(place) == \A r \in Rank : at[r] = place
AllGoto(place) == at' = [r \in Rank |-> place]

Reduce ==
  /\ AllAt("reduce")
  /\ reduced' = [r \in Rank |-> reduced[r] + 1]
  /\ AllGoto("batch")
  /\ Settings /\ UNCHANGED <<epoch, step, epochSteps, left, micro, sync, grads, schedule>>

WindowFull(r) ==
  /\ at[r] = "batch" /\ micro[r] = GradAccum
  /\ Toggled(r, TRUE)
  /\ Goto(r, "norm")
  /\ Settings /\ UNCHANGED <<epoch, step, epochSteps, left, micro, grads, reduced, schedule>>

(* The norm is one of reduced gradients and so the same for all ranks.     *)
GradNorm ==
  /\ AllAt("norm")
  /\ \E finite \in BOOLEAN : AllGoto(IF finite THEN "clipped" ELSE "skip")
  /\ Settings /\ UNCHANGED <<epoch, step, epochSteps, left, micro, sync, grads, reduced, schedule>>

(* A norm that is not finite costs the window: nothing but the gradients   *)
(* goes back.                                                              *)
FaultySkipStep(r) ==
  /\ at[r] = "skip"
  /\ ZeroGrad(r)
  /\ schedule' = Set(schedule, r, schedule[r] + 1)
  /\ Goto(r, "window")
  /\ Settings /\ UNCHANGED <<epoch, step, epochSteps, left, micro, sync>>
SkipStep(r) ==
  /\ at[r] = "skip"
  /\ ZeroGrad(r)
  /\ Goto(r, "window")
  /\ Settings /\ UNCHANGED <<epoch, step, epochSteps, left, micro, sync, schedule>>

OptimizerStep(r) ==
  /\ at[r] = "clipped"
  /\ ZeroGrad(r)
  /\ schedule' = Set(schedule, r, schedule[r] + 1)
  /\ step' = Set(step, r, step[r] + 1)
  /\ epochSteps' = Set(epochSteps, r, epochSteps[r] + 1)
  /\ Goto(r, "window")
  /\ Settings /\ UNCHANGED <<epoch, left, micro, sync>>

(* The end of an epoch: one without a step ends before the barrier.        *)
NextEpoch(r) == epoch' = Set(epoch, r, epoch[r] + 1)
Continues(r) == IF step[r] >= MaxSteps THEN "finished" ELSE "epoch"

FaultyMeetsAtBarrier(r) == epochSteps[r] > 0 /\ (r = 0 \/ step[r] < MaxSteps)
MeetsAtBarrier(r) == epochSteps[r] > 0
EpochEnds(r) ==
  /\ at[r] = "ended"
  /\ IF MeetsAtBarrier(r)
     THEN Goto(r, "barrier") /\ UNCHANGED epoch
     ELSE Goto(r, Continues(r)) /\ NextEpoch(r)
  /\ Settings /\ UNCHANGED <<step, epochSteps, left, micro, sync, grads, reduced, schedule>>

Saves(r) == (epoch[r] + 1) % SaveInterval = 0
Barrier ==
  /\ AllAt("barrier")
  /\ at' = [r \in Rank |-> IF Saves(r) THEN "save" ELSE Continues(r)]
  /\ epoch' = [r \in Rank |-> IF Saves(r) THEN epoch[r] ELSE epoch[r] + 1]
  /\ Settings /\ UNCHANGED <<step, epochSteps, left, micro, sync, grads, reduced, schedule>>

SaveAndPrune ==
  /\ AllAt("save")
  /\ at' = [r \in Rank |-> Continues(r)]
  /\ epoch' = [r \in Rank |-> epoch[r] + 1]
  /\ Settings /\ UNCHANGED <<step, epochSteps, left, micro, sync, grads, reduced, schedule>>

RankStep(r) ==
  \/ StartEpoch(r) \/ Finish(r) \/ StartWindow(r) \/ Micro(r) \/ DataEnds(r)
  \/ WindowFull(r) \/ SkipStep(r) \/ OptimizerStep(r) \/ EpochEnds(r)
LoopNext == (\E r \in Rank : RankStep(r)) \/ Reduce \/ GradNorm \/ Barrier \/ SaveAndPrune

LoopFairness ==
  /\ \A r \in Rank : WF_loopVars(RankStep(r))
  /\ WF_loopVars(Reduce) /\ WF_loopVars(GradNorm) /\ WF_loopVars(Barrier)
  /\ WF_loopVars(SaveAndPrune)
LoopSpec == LoopInit /\ [][LoopNext]_loopVars

-----------------------------------------------------------------------------
(* An optimizer step is taken with the gradients of exactly one window:    *)
(* nothing of a window the data did not fill, of a skipped one or of the   *)
(* epoch before is in them; where synchronisation can be toggled they have *)
(* been reduced exactly once, after the last micro-batch, and all ranks    *)
(* step with as many.                                                      *)
StepIsOneWindow ==
  \A r \in Rank : at[r] = "clipped" =>
    /\ grads[r] = GradAccum
    /\ Toggles => reduced[r] = 1
    /\ wrapper = "static_graph" => reduced[r] = GradAccum

(* The learning-rate schedule has advanced once per optimizer step since   *)
(* the run started, and the ranks are never a step apart unless one has    *)
(* just taken it; a rank that is done has reached max_steps or spent its   *)
(* epochs.                                                                 *)
ScheduleFollowsSteps ==
  /\ \A r \in Rank : schedule[r] = step[r] - resumed
  /\ \A r, q \in Rank : step[r] - step[q] \in {-1, 0, 1}
  /\ \A r \in Rank : at[r] = "finished" => step[r] >= MaxSteps \/ epoch[r] >= NumEpochs

(* No rank waits at one collective while another waits at a different one  *)
(* or has left the loop for good: the ranks decide by themselves where to  *)
(* go next, and all decide alike, also in epochs without a step.           *)
Collective == {"reduce", "norm", "barrier", "save"}
RanksMeet ==
  \A r, q \in Rank :
    at[r] \in Collective /\ at[q] \in Collective \cup {"finished"} => at[q] = at[r]

(* What the ranks do together: whole windows, the same steps, the same     *)
(* collectives.                                                            *)
StepsAreWindows == StepIsOneWindow /\ ScheduleFollowsSteps /\ RanksMeet

(* Every rank gets through: none waits for ever at a collective another    *)
(* one does not come to, even if every window is skipped.                  *)
TrainingEnds == <>(\A r \in Rank : at[r] = "finished")
=============================================================================
