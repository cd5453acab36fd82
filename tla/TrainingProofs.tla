-------------------------- MODULE TrainingProofs ---------------------------
(***************************************************************************)
(* Proofs about training.  Of TrainLoop, for any number of ranks, any      *)
(* accumulation window and any length of the shards: an optimizer step is  *)
(* one whole window, and all ranks go to the same collectives.  Of         *)
(* MetricLogger, for any size of the queue and any number of steps: what   *)
(* the tracking store gets, and that its losses are counted.  Of           *)
(* Telemetry: what is measured is recent, and counted once.                *)
(***************************************************************************)
EXTENDS MCTraining, SlotOrderProofs, FiniteSetTheorems, SequenceTheorems, TLAPS

(* Where a rank can be.                                                    *)
Place == {"epoch", "window", "batch", "reduce", "norm", "clipped", "skip",
          "ended", "barrier", "save", "finished"}

(* The types of the loop's variables.                                      *)
LoopTypeOK ==
  /\ wrapper \in Wrapper /\ shard \in Nat /\ resumed \in Nat
  /\ at \in [Rank -> Place]
  /\ epoch \in [Rank -> 0 .. NumEpochs]
  /\ step \in [Rank -> Nat] /\ epochSteps \in [Rank -> Nat]
  /\ left \in [Rank -> Nat] /\ micro \in [Rank -> 0 .. GradAccum]
  /\ sync \in [Rank -> BOOLEAN]
  /\ grads \in [Rank -> Nat] /\ reduced \in [Rank -> Nat]
  /\ schedule \in [Rank -> Int]

(* What the gradients of a rank hold where it stands, and how often they   *)
(* have been reduced: once, after the last micro-batch, or every time.     *)
WindowOf(r) ==
  /\ ~Toggles => sync[r]
  /\ at[r] = "window" => grads[r] = 0 /\ reduced[r] = 0
  /\ at[r] = "batch" =>
       /\ grads[r] = micro[r]
       /\ reduced[r] = IF ~Toggles THEN micro[r] ELSE IF micro[r] = GradAccum THEN 1 ELSE 0
  /\ at[r] = "reduce" =>
       /\ grads[r] = micro[r]
       /\ reduced[r] = IF Toggles THEN 0 ELSE micro[r] - 1
       /\ Toggles => micro[r] = GradAccum
  /\ at[r] \in {"norm", "clipped", "skip"} =>
       /\ grads[r] = GradAccum
       /\ reduced[r] = IF Toggles THEN 1 ELSE GradAccum

(* The steps a rank has taken, the one it has been cleared for included.   *)
Cleared(r) == IF at[r] = "clipped" THEN step[r] + 1 ELSE step[r]

(* The schedule has a step for each optimizer step, and the place agrees   *)
(* with the limits.                                                        *)
Schedules(r) ==
  /\ schedule[r] = step[r] - resumed
  /\ at[r] = "epoch" => epoch[r] = 0 \/ step[r] < MaxSteps
  /\ at[r] = "finished" => step[r] >= MaxSteps \/ epoch[r] >= NumEpochs
  /\ at[r] \notin {"epoch", "finished"} => epoch[r] < NumEpochs

(* The collective a rank will come to next, or the end, if it goes on by   *)
(* itself, and the state it will be in there.  It may walk through whole   *)
(* epochs on the way, in which the shard does not fill a window.           *)
Meeting(place, e, s, es, n, m) == <<place, e, s, es, n, m>>

(* Batches to the next reduction, m into the window; t: is synchronisation *)
(* toggled?                                                                *)
Missing(t, m) == IF t THEN GradAccum - m ELSE IF m < GradAccum THEN 1 ELSE 0

(* From the places of the loop, with shards of d batches, in epoch e, after *)
(* s steps, es of them in this epoch, with n batches left.                 *)
FromEpoch(t, d, e, s) ==
  IF e >= NumEpochs THEN Meeting("finished", e, s, 0, 0, 0)
  ELSE IF s >= MaxSteps THEN Meeting("finished", e + 1, s, 0, 0, 0)
  ELSE IF d >= Missing(t, 0) THEN Meeting("reduce", e, s, 0, d - Missing(t, 0), Missing(t, 0))
  ELSE Meeting("finished", NumEpochs, s, 0, 0, 0)

(* From the end of an epoch.                                               *)
FromEnded(t, d, e, s, es) ==
  IF es > 0 THEN Meeting("barrier", e, s, 0, 0, 0)
  ELSE IF s >= MaxSteps THEN Meeting("finished", e + 1, s, 0, 0, 0)
  ELSE FromEpoch(t, d, e + 1, s)

(* From within a window.                                                   *)
FromBatch(t, d, e, s, es, n, m) ==
  IF m = GradAccum THEN Meeting("norm", e, s, es, n, m)
  ELSE IF n >= Missing(t, m) THEN Meeting("reduce", e, s, es, n - Missing(t, m), m + Missing(t, m))
  ELSE FromEnded(t, d, e, s, es)

(* From the beginning of a window.                                         *)
FromWindow(t, d, e, s, es, n) ==
  IF s < MaxSteps THEN FromBatch(t, d, e, s, es, n, 0) ELSE FromEnded(t, d, e, s, es)

(* From anywhere.                                                          *)
FromPlace(t, d, place, e, s, es, n, m) ==
  IF place = "epoch" THEN FromEpoch(t, d, e, s)
  ELSE IF place \in {"window", "skip"} THEN FromWindow(t, d, e, s, es, n)
  ELSE IF place = "clipped" THEN FromWindow(t, d, e, s + 1, es + 1, n)
  ELSE IF place = "batch" THEN FromBatch(t, d, e, s, es, n, m)
  ELSE IF place = "ended" THEN FromEnded(t, d, e, s, es)
  ELSE IF place \in {"reduce", "norm"} THEN Meeting(place, e, s, es, n, m)
  ELSE Meeting(place, e, s, 0, 0, 0)

(* Where a rank is bound for.                                              *)
Destination(r) ==
  FromPlace(Toggles, shard, at[r], epoch[r], step[r], epochSteps[r], left[r], micro[r])

(* The inductive invariant: every rank is within its window, and whoever   *)
(* is ahead waits where the others will come to.                           *)
LoopInv ==
  /\ LoopTypeOK
  /\ \A r \in Rank : WindowOf(r) /\ Schedules(r)
  /\ \A r, q \in Rank : Cleared(r) = Cleared(q)
  /\ \A r, q \in Rank : Destination(r) = Destination(q)

-----------------------------------------------------------------------------
(* The places lead to one another *)

(* An epoch begins with a window, or is the last one.                      *)
LEMMA EpochLeads ==
  ASSUME NEW t \in BOOLEAN, NEW d \in Nat, NEW e \in Nat, NEW s \in Nat, e < NumEpochs
  PROVE  FromEpoch(t, d, e, s) = FromWindow(t, d, e, s, 0, d)
BY LoopAssumption DEF FromEpoch, FromWindow, FromBatch, FromEnded, Missing

(* A batch brings the window closer to its reduction, or to its end.       *)
LEMMA BatchLeads ==
  ASSUME NEW t \in BOOLEAN, NEW d \in Nat, NEW e \in Nat, NEW s \in Nat, NEW es \in Nat,
         NEW n \in Nat \ {0}, NEW m \in 0 .. GradAccum - 1
  PROVE  FromBatch(t, d, e, s, es, n, m) =
           IF t /\ m # GradAccum - 1 THEN FromBatch(t, d, e, s, es, n - 1, m + 1)
           ELSE Meeting("reduce", e, s, es, n - 1, m + 1)
BY LoopAssumption DEF FromBatch, Missing

-----------------------------------------------------------------------------
(* The steps of one rank *)

(* What a rank does by itself is within its window, counts in its steps    *)
(* and does not change where it is going.                                  *)
Alone(r) ==
  /\ WindowOf(r)' /\ Schedules(r)'
  /\ Cleared(r)' = Cleared(r)
  /\ Destination(r)' = Destination(r)

(* A step that leaves the state of rank q alone.                           *)
Untouched(q) ==
  /\ at'[q] = at[q] /\ epoch'[q] = epoch[q] /\ step'[q] = step[q]
  /\ epochSteps'[q] = epochSteps[q] /\ left'[q] = left[q] /\ micro'[q] = micro[q]
  /\ sync'[q] = sync[q] /\ grads'[q] = grads[q] /\ reduced'[q] = reduced[q]
  /\ schedule'[q] = schedule[q]

(* A rank that is left alone keeps its part of the invariant.              *)
LEMMA UntouchedKeeps ==
  ASSUME NEW q \in Rank, Untouched(q), Settings, WindowOf(q), Schedules(q)
  PROVE  Alone(q)
BY DEF Alone, Untouched, Settings, WindowOf, Schedules, Cleared, Destination, Toggles

(* A local step keeps the invariant if it does so for the rank that makes  *)
(* it.                                                                     *)
LEMMA OneRankKeeps ==
  ASSUME LoopInv, NEW r \in Rank, LoopTypeOK', Settings, Alone(r),
         \A q \in Rank \ {r} : Untouched(q)
  PROVE  LoopInv'
<1>1. \A q \in Rank : Alone(q)
  BY UntouchedKeeps DEF LoopInv
<1>2. \A q \in Rank : WindowOf(q)' /\ Schedules(q)'
  BY <1>1 DEF Alone
<1>3. \A q, p \in Rank : Cleared(q)' = Cleared(p)'
  BY <1>1 DEF Alone, LoopInv
<1>4. \A q, p \in Rank : Destination(q)' = Destination(p)'
  BY <1>1 DEF Alone, LoopInv
<1> QED
  BY <1>2, <1>3, <1>4 DEF LoopInv

(* Every local step of a rank keeps the invariant.                         *)
LEMMA RankStepKeeps ==
  ASSUME LoopInv, NEW r \in Rank, RankStep(r)
  PROVE  LoopInv'
<1> USE LoopAssumption DEF Set, Goto, ZeroGrad, Toggled, Settings
<1>1. /\ LoopTypeOK /\ WindowOf(r) /\ Schedules(r)
  BY DEF LoopInv
<1>2. CASE StartEpoch(r)
  <2>1. LoopTypeOK'
    BY <1>1, <1>2 DEF LoopTypeOK, Place, StartEpoch, LoopInv
  <2>2. \A q \in Rank \ {r} : Untouched(q)
    BY <1>1, <1>2 DEF LoopTypeOK, StartEpoch, Untouched
  <2>3. WindowOf(r)' /\ Schedules(r)' /\ Cleared(r)' = Cleared(r)
    BY <1>1, <1>2 DEF LoopTypeOK, StartEpoch, WindowOf, Schedules, Cleared, Toggles
  <2>4. Destination(r)' = Destination(r)
    <3> DEFINE t == Toggles
               e == epoch[r]
               s == step[r]
    <3>1. e \in Nat /\ e < NumEpochs /\ s \in Nat /\ t \in BOOLEAN /\ shard \in Nat
      BY <1>1, <1>2 DEF LoopTypeOK, StartEpoch, Toggles
    <3>2. Destination(r) = FromEpoch(t, shard, e, s)
      BY <1>2 DEF StartEpoch, Destination, FromPlace
    <3>3. Destination(r)' = FromWindow(t, shard, e, s, 0, shard)
      BY <1>1, <1>2 DEF LoopTypeOK, StartEpoch, Destination, FromPlace, Toggles
    <3> HIDE DEF t, e, s
    <3> QED
      BY <3>1, <3>2, <3>3, EpochLeads
  <2> QED
    BY <1>2, <2>1, <2>2, <2>3, <2>4, OneRankKeeps DEF StartEpoch, Alone
<1>3. CASE Finish(r)
  <2>1. LoopTypeOK'
    BY <1>1, <1>3 DEF LoopTypeOK, Place, Finish, Toggles
  <2>2. \A q \in Rank \ {r} : Untouched(q)
    BY <1>1, <1>3 DEF LoopTypeOK, Finish, Untouched
  <2>3. WindowOf(r)' /\ Schedules(r)' /\ Cleared(r)' = Cleared(r)
    BY <1>1, <1>3 DEF LoopTypeOK, Finish, WindowOf, Schedules, Cleared, Toggles
  <2>4. Destination(r)' = Destination(r)
    BY <1>1, <1>3 DEF LoopTypeOK, Finish, Destination, FromPlace, Toggles, FromEpoch
  <2> QED
    BY <1>3, <2>1, <2>2, <2>3, <2>4, OneRankKeeps DEF Finish, Alone
<1>4. CASE StartWindow(r)
  <2>1. LoopTypeOK'
    BY <1>1, <1>4 DEF LoopTypeOK, Place, StartWindow, Toggles
  <2>2. \A q \in Rank \ {r} : Untouched(q)
    BY <1>1, <1>4 DEF LoopTypeOK, StartWindow, Untouched
  <2>3. WindowOf(r)' /\ Schedules(r)' /\ Cleared(r)' = Cleared(r)
    BY <1>1, <1>4 DEF LoopTypeOK, StartWindow, WindowOf, Schedules, Cleared, Toggles
  <2>4. Destination(r)' = Destination(r)
    BY <1>1, <1>4 DEF LoopTypeOK, StartWindow, Destination, FromPlace, Toggles, FromWindow
  <2> QED
    BY <1>4, <2>1, <2>2, <2>3, <2>4, OneRankKeeps DEF StartWindow, Alone
<1>5. CASE Micro(r)
  <2>1. LoopTypeOK'
    BY <1>1, <1>5 DEF LoopTypeOK, Place, Micro, IsLast, Toggles
  <2>2. \A q \in Rank \ {r} : Untouched(q)
    BY <1>1, <1>5 DEF LoopTypeOK, Micro, IsLast, Untouched
  <2>3. WindowOf(r)' /\ Schedules(r)' /\ Cleared(r)' = Cleared(r)
    <3>1. /\ at'[r] = IF Toggles /\ micro[r] # GradAccum - 1 THEN "batch" ELSE "reduce"
          /\ ~Toggles => sync'[r]
      BY <1>1, <1>5 DEF LoopTypeOK, Micro, IsLast, WindowOf, Toggles
    <3>2. /\ at[r] = "batch" /\ micro[r] \in 0 .. GradAccum - 1
          /\ micro'[r] = micro[r] + 1 /\ grads'[r] = grads[r] + 1
          /\ UNCHANGED <<wrapper, resumed, epoch, step, reduced, schedule>>
      BY <1>1, <1>5 DEF LoopTypeOK, Micro
    <3>3. WindowOf(r)'
      BY <1>1, <3>1, <3>2 DEF LoopTypeOK, WindowOf, Toggles
    <3> QED
      BY <1>1, <3>1, <3>2, <3>3 DEF Schedules, Cleared
  <2>4. Destination(r)' = Destination(r)
    <3> DEFINE t == Toggles
               e == epoch[r]
               s == step[r]
               es == epochSteps[r]
               n == left[r]
               m == micro[r]
    <3>1. /\ e \in Nat /\ s \in Nat /\ es \in Nat /\ n \in Nat \ {0}
          /\ m \in 0 .. GradAccum - 1 /\ t \in BOOLEAN /\ shard \in Nat
      BY <1>1, <1>5 DEF LoopTypeOK, Micro, Toggles
    <3>2. Destination(r) = FromBatch(t, shard, e, s, es, n, m)
      BY <1>5 DEF Micro, Destination, FromPlace
    <3>3. Destination(r)' = IF t /\ m # GradAccum - 1
                            THEN FromBatch(t, shard, e, s, es, n - 1, m + 1)
                            ELSE Meeting("reduce", e, s, es, n - 1, m + 1)
      BY <1>1, <1>5 DEF LoopTypeOK, WindowOf, Micro, IsLast, Destination, FromPlace, Toggles
    <3> HIDE DEF t, e, s, es, n, m
    <3> QED
      BY <3>1, <3>2, <3>3, BatchLeads
  <2> QED
    BY <1>5, <2>1, <2>2, <2>3, <2>4, OneRankKeeps DEF Micro, Alone
<1>6. CASE DataEnds(r)
  <2>1. LoopTypeOK'
    BY <1>1, <1>6 DEF LoopTypeOK, Place, DataEnds, Toggles
  <2>2. \A q \in Rank \ {r} : Untouched(q)
    BY <1>1, <1>6 DEF LoopTypeOK, DataEnds, Untouched
  <2>3. WindowOf(r)' /\ Schedules(r)' /\ Cleared(r)' = Cleared(r)
    BY <1>1, <1>6 DEF LoopTypeOK, DataEnds, WindowOf, Schedules, Cleared, Toggles
  <2>4. Destination(r)' = Destination(r)
    BY <1>1, <1>6 DEF LoopTypeOK, DataEnds, Destination, FromPlace, Toggles, FromBatch, Missing
  <2> QED
    BY <1>6, <2>1, <2>2, <2>3, <2>4, OneRankKeeps DEF DataEnds, Alone
<1>7. CASE WindowFull(r)
  <2>1. LoopTypeOK'
    BY <1>1, <1>7 DEF LoopTypeOK, Place, WindowFull, Toggles
  <2>2. \A q \in Rank \ {r} : Untouched(q)
    BY <1>1, <1>7 DEF LoopTypeOK, WindowFull, Untouched
  <2>3. WindowOf(r)' /\ Schedules(r)' /\ Cleared(r)' = Cleared(r)
    BY <1>1, <1>7 DEF LoopTypeOK, WindowFull, WindowOf, Schedules, Cleared, Toggles
  <2>4. Destination(r)' = Destination(r)
    BY <1>1, <1>7 DEF LoopTypeOK, WindowFull, Destination, FromPlace, Toggles, FromBatch
  <2> QED
    BY <1>7, <2>1, <2>2, <2>3, <2>4, OneRankKeeps DEF WindowFull, Alone
<1>8. CASE SkipStep(r)
  <2>1. LoopTypeOK'
    BY <1>1, <1>8 DEF LoopTypeOK, Place, SkipStep, Toggles
  <2>2. \A q \in Rank \ {r} : Untouched(q)
    BY <1>1, <1>8 DEF LoopTypeOK, SkipStep, Untouched
  <2>3. WindowOf(r)' /\ Schedules(r)' /\ Cleared(r)' = Cleared(r)
    BY <1>1, <1>8 DEF LoopTypeOK, SkipStep, WindowOf, Schedules, Cleared, Toggles
  <2>4. Destination(r)' = Destination(r)
    BY <1>1, <1>8 DEF LoopTypeOK, SkipStep, Destination, FromPlace, Toggles
  <2> QED
    BY <1>8, <2>1, <2>2, <2>3, <2>4, OneRankKeeps DEF SkipStep, Alone
<1>9. CASE OptimizerStep(r)
  <2>1. LoopTypeOK'
    BY <1>1, <1>9 DEF LoopTypeOK, Place, OptimizerStep, Toggles
  <2>2. \A q \in Rank \ {r} : Untouched(q)
    BY <1>1, <1>9 DEF LoopTypeOK, OptimizerStep, Untouched
  <2>3. WindowOf(r)' /\ Schedules(r)' /\ Cleared(r)' = Cleared(r)
    BY <1>1, <1>9 DEF LoopTypeOK, OptimizerStep, WindowOf, Schedules, Cleared, Toggles
  <2>4. Destination(r)' = Destination(r)
    BY <1>1, <1>9 DEF LoopTypeOK, OptimizerStep, Destination, FromPlace, Toggles
  <2> QED
    BY <1>9, <2>1, <2>2, <2>3, <2>4, OneRankKeeps DEF OptimizerStep, Alone
<1>10. CASE EpochEnds(r)
  <2>1. LoopTypeOK'
    BY <1>1, <1>10 DEF LoopTypeOK, Place, Schedules, EpochEnds, MeetsAtBarrier, Continues, NextEpoch
  <2>2. \A q \in Rank \ {r} : Untouched(q)
    BY <1>1, <1>10 DEF LoopTypeOK, EpochEnds, MeetsAtBarrier, Continues, NextEpoch, Untouched
  <2>3. WindowOf(r)' /\ Schedules(r)' /\ Cleared(r)' = Cleared(r)
    BY <1>1, <1>10 DEF LoopTypeOK, EpochEnds, MeetsAtBarrier, Continues, NextEpoch, WindowOf, Schedules, Cleared, Toggles
  <2>4. Destination(r)' = Destination(r)
    BY <1>1, <1>10 DEF LoopTypeOK, EpochEnds, Destination, FromPlace, Toggles, FromEnded, MeetsAtBarrier, Continues, NextEpoch
  <2> QED
    BY <1>10, <2>1, <2>2, <2>3, <2>4, OneRankKeeps DEF EpochEnds, Alone
<1> QED
  BY <1>2, <1>3, <1>4, <1>5, <1>6, <1>7, <1>8, <1>9, <1>10 DEF RankStep

-----------------------------------------------------------------------------
(* The collectives *)

(* Two places with the same next meeting, where both already wait at a     *)
(* collective or are done.                                                 *)
LEMMA MeetingsAgree ==
  ASSUME LoopInv, NEW r \in Rank, NEW q \in Rank,
         at[r] \in Collective \cup {"finished"}, at[q] \in Collective \cup {"finished"}
  PROVE  /\ at[r] = at[q] /\ epoch[r] = epoch[q] /\ step[r] = step[q]
         /\ at[r] \in {"reduce", "norm"} =>
              epochSteps[r] = epochSteps[q] /\ left[r] = left[q] /\ micro[r] = micro[q]
<1>1. Destination(r) = Destination(q)
  BY DEF LoopInv
<1> QED
  BY <1>1 DEF Destination, FromPlace, Meeting, Collective

(* Ranks that met and go on from the same state go to the same place.      *)
LEMMA SameDestination ==
  ASSUME NEW r \in Rank, NEW q \in Rank,
         at'[r] = at'[q], epoch'[r] = epoch'[q], step'[r] = step'[q],
         at'[r] \in {"epoch", "save", "finished"} \/
           (epochSteps'[r] = epochSteps'[q] /\ left'[r] = left'[q] /\ micro'[r] = micro'[q])
  PROVE  Destination(r)' = Destination(q)'
BY DEF Destination, FromPlace

(* The reduction of the last backward keeps it; all ranks leave it for the *)
(* same place.                                                             *)
LEMMA ReduceKeeps ==
  ASSUME LoopInv, Reduce
  PROVE  LoopInv'
<1> USE LoopAssumption DEF Reduce, AllAt, AllGoto, Settings
<1>1. LoopTypeOK /\ \A r \in Rank : WindowOf(r) /\ Schedules(r)
  BY DEF LoopInv
<1>2. LoopTypeOK'
  BY <1>1 DEF LoopTypeOK, Place
<1>3. ASSUME NEW r \in Rank PROVE WindowOf(r)' /\ Schedules(r)'
  BY <1>1 DEF LoopTypeOK, WindowOf, Schedules, Toggles
<1>4. ASSUME NEW r \in Rank, NEW q \in Rank
      PROVE  Cleared(r)' = Cleared(q)' /\ Destination(r)' = Destination(q)'
  <2>1. /\ epoch[r] = epoch[q] /\ step[r] = step[q]
        /\ epochSteps[r] = epochSteps[q] /\ left[r] = left[q] /\ micro[r] = micro[q]
    BY MeetingsAgree DEF Collective
  <2>2. at'[r] = "batch" /\ at'[q] = "batch"
    OBVIOUS
  <2> QED
    BY <2>1, <2>2, SameDestination DEF Cleared
<1> QED
  BY <1>2, <1>3, <1>4 DEF LoopInv

(* So does the norm, after which all ranks step or all skip.               *)
LEMMA GradNormKeeps ==
  ASSUME LoopInv, GradNorm
  PROVE  LoopInv'
<1> USE LoopAssumption DEF GradNorm, AllAt, AllGoto, Settings
<1>1. LoopTypeOK /\ \A r \in Rank : WindowOf(r) /\ Schedules(r)
  BY DEF LoopInv
<1>2. PICK place \in {"clipped", "skip"} : at' = [r \in Rank |-> place]
  OBVIOUS
<1>3. LoopTypeOK'
  BY <1>1, <1>2 DEF LoopTypeOK, Place
<1>4. ASSUME NEW r \in Rank PROVE WindowOf(r)' /\ Schedules(r)'
  BY <1>1, <1>2 DEF LoopTypeOK, WindowOf, Schedules, Toggles
<1>5. ASSUME NEW r \in Rank, NEW q \in Rank
      PROVE  Cleared(r)' = Cleared(q)' /\ Destination(r)' = Destination(q)'
  <2>1. /\ epoch[r] = epoch[q] /\ step[r] = step[q]
        /\ epochSteps[r] = epochSteps[q] /\ left[r] = left[q] /\ micro[r] = micro[q]
    BY MeetingsAgree DEF Collective
  <2>2. at'[r] = place /\ at'[q] = place
    BY <1>2
  <2> QED
    BY <2>1, <2>2, SameDestination DEF Cleared
<1> QED
  BY <1>3, <1>4, <1>5 DEF LoopInv

(* Whether an epoch is saved and whether the loop goes on is the same for  *)
(* all ranks, since they have met in the same epoch after the same steps.  *)
LEMMA BarrierKeeps ==
  ASSUME LoopInv, Barrier \/ SaveAndPrune
  PROVE  LoopInv'
<1> USE LoopAssumption DEF Barrier, SaveAndPrune, AllAt, Settings, Continues
<1>1. LoopTypeOK /\ \A r \in Rank : WindowOf(r) /\ Schedules(r)
  BY DEF LoopInv
<1>2. LoopTypeOK'
  <2>1. \A r \in Rank : epoch[r] < NumEpochs
    BY <1>1 DEF Schedules
  <2> QED
    BY <1>1, <2>1 DEF LoopTypeOK, Place
<1>3. ASSUME NEW r \in Rank PROVE WindowOf(r)' /\ Schedules(r)'
  BY <1>1 DEF LoopTypeOK, WindowOf, Schedules, Toggles
<1>4. ASSUME NEW r \in Rank, NEW q \in Rank
      PROVE  Cleared(r)' = Cleared(q)' /\ Destination(r)' = Destination(q)'
  <2>1. epoch[r] = epoch[q] /\ step[r] = step[q]
    BY MeetingsAgree DEF Collective
  <2>2. Saves(r) = Saves(q)
    BY <2>1 DEF Saves
  <2>3. /\ at'[r] = at'[q] /\ epoch'[r] = epoch'[q] /\ step'[r] = step'[q]
        /\ at'[r] \in {"epoch", "save", "finished"}
    BY <2>1, <2>2
  <2> QED
    BY <2>3, SameDestination DEF Cleared
<1> QED
  BY <1>2, <1>3, <1>4 DEF LoopInv

-----------------------------------------------------------------------------
(* The theorems of the loop *)

(* The invariant holds at the start.                                       *)
LEMMA LoopInitHolds == LoopInit => LoopInv
<1> SUFFICES ASSUME LoopInit PROVE LoopInv
  OBVIOUS
<1> USE LoopAssumption DEF LoopInit
<1>1. LoopTypeOK
  BY DEF LoopTypeOK, Place
<1>2. ASSUME NEW r \in Rank PROVE WindowOf(r) /\ Schedules(r)
  BY <1>1 DEF LoopTypeOK, WindowOf, Schedules
<1>3. ASSUME NEW r \in Rank, NEW q \in Rank
      PROVE  Cleared(r) = Cleared(q) /\ Destination(r) = Destination(q)
  BY DEF Cleared, Destination, FromPlace
<1> QED
  BY <1>1, <1>2, <1>3 DEF LoopInv

(* Every step of one rank or of all keeps it.                              *)
LEMMA LoopNextKeeps == LoopInv /\ [LoopNext]_loopVars => LoopInv'
<1> SUFFICES ASSUME LoopInv, [LoopNext]_loopVars PROVE LoopInv'
  OBVIOUS
<1>1. ASSUME NEW r \in Rank, RankStep(r) PROVE LoopInv'
  BY <1>1, RankStepKeeps
<1>2. CASE UNCHANGED loopVars
  BY <1>2 DEF loopVars, local, LoopInv, LoopTypeOK, WindowOf, Schedules, Cleared,
       Destination, Toggles
<1> QED
  BY <1>1, <1>2, ReduceKeeps, GradNormKeeps, BarrierKeeps DEF LoopNext

(* The invariant says what the properties need.                            *)
LEMMA InvariantSuffices == LoopInv => StepsAreWindows
<1> SUFFICES ASSUME LoopInv PROVE StepsAreWindows
  OBVIOUS
<1>1. LoopTypeOK /\ \A r \in Rank : WindowOf(r) /\ Schedules(r)
  BY DEF LoopInv
<1>2. StepIsOneWindow
  BY <1>1 DEF StepIsOneWindow, WindowOf, Toggles
<1>3. ASSUME NEW r \in Rank, NEW q \in Rank
      PROVE  step[r] - step[q] \in {-1, 0, 1}
  <2>1. Cleared(r) = Cleared(q) /\ step[r] \in Nat /\ step[q] \in Nat
    BY <1>1 DEF LoopInv, LoopTypeOK
  <2> QED
    BY <2>1 DEF Cleared
<1>4. ScheduleFollowsSteps
  BY <1>1, <1>3 DEF ScheduleFollowsSteps, Schedules
<1>5. RanksMeet
  BY MeetingsAgree DEF RanksMeet
<1> QED
  BY <1>2, <1>4, <1>5 DEF StepsAreWindows

(* In every state a rank can reach, its place in the loop tells how far its *)
(* window, its schedule and its next meeting place are, and all ranks head *)
(* for the same meeting place (trainer/loop.py, _run_epoch).               *)
THEOREM LoopInvariance == LoopSpec => []LoopInv
BY LoopInitHolds, LoopNextKeeps, PTL DEF LoopSpec

(* For any number of ranks, any accumulation window and shards of any      *)
(* length: an optimizer step uses the gradients of one whole window,       *)
(* reduced as often as the wrapper reduces; the schedule follows the       *)
(* steps; and no two ranks wait at different collectives (trainer/loop.py: *)
(* the gradient-sync invariant, the breaks out of the two loops).          *)
THEOREM StepsAlwaysWindows == LoopSpec => []StepsAreWindows
BY LoopInvariance, InvariantSuffices, PTL

-----------------------------------------------------------------------------
(* The logger *)

(* The types of the variables of the logger.                               *)
LoggerTypeOK ==
  /\ available \in BOOLEAN /\ stop \in BOOLEAN
  /\ trainer \in {"train", "drain", "put", "join", "end"}
  /\ worker \in {"wait", "write", "upload", "ended"}
  /\ logged \in Nat /\ dropped \in Nat
  /\ queue \in Seq(Nat) /\ Len(queue) <= QueueMax
  /\ taken \in Nat \cup {Never}
  /\ written \in Seq(Nat) /\ failed \subseteq Nat

(* The trainer fills the queue, and only while there is a worker; the      *)
(* worker ends only when it is told to, with an empty queue.               *)
TwoThreads ==
  /\ trainer = "put" => Len(queue) < QueueMax
  /\ stop => trainer \in {"join", "end"}
  /\ ~ available => /\ worker = "ended" /\ queue = << >> /\ written = << >>
                    /\ trainer \in {"train", "end"}
  /\ available /\ worker = "ended" => stop /\ queue = << >>
  /\ worker \in {"write", "upload"} => taken \in Nat
  /\ worker = "upload" => taken \in Range(written)

(* The last step the trainer has put, or tried to put, into the queue.     *)
Settled == IF trainer \in {"drain", "put"} THEN logged - 1 ELSE logged

(* The step the worker has taken and not yet written, which is nobody      *)
(* else's.                                                                 *)
InHand == IF worker = "write" THEN {taken} ELSE {}

(* What is stored is older than what the worker has in hand, and that is   *)
(* older than what waits.                                                  *)
OldestFirst ==
  /\ InOrder(written) /\ InOrder(queue)
  /\ \A x \in Range(written) : \A y \in InHand \cup Range(queue) : x < y
  /\ \A x \in InHand : \A y \in Range(queue) : x < y
  /\ \A x \in Range(written) \cup InHand \cup Range(queue) : x <= Settled

(* Every step that is still on its way, in the store, or was lost to a     *)
(* write that raised.                                                      *)
Told == Range(queue) \cup InHand \cup Range(written) \cup failed

(* The steps up to n that are none of these.                               *)
Untold(n) == (1 .. n) \ Told

(* The drops count the untold, the one about to be dropped before it is;   *)
(* and the newest step the trainer is done with is never among them.       *)
Counted ==
  available =>
    /\ Cardinality(Untold(Settled)) <= IF trainer = "drain" THEN dropped - 1 ELSE dropped
    /\ trainer = "train" /\ logged > 0 => logged \in Told

(* The inductive invariant of the logger.                                  *)
LoggerInv == LoggerTypeOK /\ TwoThreads /\ OldestFirst /\ Counted

(* What is in a sequence whose head is taken, or that something is put     *)
(* behind.                                                                 *)
LEMMA InTail ==
  ASSUME NEW q \in Seq(Nat), q # << >>
  PROVE  /\ Head(q) \in Nat /\ Tail(q) \in Seq(Nat) /\ Len(Tail(q)) = Len(q) - 1
         /\ DOMAIN Tail(q) = 1 .. Len(q) - 1 /\ Head(q) = q[1] /\ 1 \in DOMAIN q
         /\ \A i \in 1 .. Len(q) - 1 : Tail(q)[i] = q[i + 1] /\ i + 1 \in DOMAIN q
         /\ Range(q) = {Head(q)} \cup Range(Tail(q))
<1>1. /\ Len(q) \in Nat \ {0} /\ DOMAIN q = 1 .. Len(q)
      /\ Head(q) \in Nat /\ Tail(q) \in Seq(Nat) /\ Len(Tail(q)) = Len(q) - 1
      /\ DOMAIN Tail(q) = 1 .. Len(q) - 1 /\ Head(q) = q[1]
      /\ \A i \in 1 .. Len(q) - 1 : Tail(q)[i] = q[i + 1]
  BY LenProperties, EmptySeq, HeadTailProperties
<1>2. \A i \in 1 .. Len(q) : i = 1 \/ (i - 1 \in 1 .. Len(q) - 1 /\ Tail(q)[i - 1] = q[i])
  BY <1>1
<1> DEFINE r == Tail(q)
<1>3. Range(q) = {q[i] : i \in 1 .. Len(q)} /\ Range(r) = {r[i] : i \in 1 .. Len(q) - 1}
  BY <1>1 DEF Range
<1>4. 1 \in 1 .. Len(q) /\ \A i \in 1 .. Len(q) - 1 : r[i] = q[i + 1] /\ i + 1 \in 1 .. Len(q)
  BY <1>1
<1> HIDE DEF r
<1>5. Range(q) = {q[1]} \cup Range(r)
  <2>1. \A x \in Range(q) : x = q[1] \/ x \in Range(r)
    BY <1>2, <1>3 DEF r
  <2>2. \A x \in Range(r) : x \in Range(q)
    BY <1>3, <1>4
  <2>3. q[1] \in Range(q)
    BY <1>3, <1>4
  <2> QED
    BY <2>1, <2>2, <2>3
<1> QED
  BY <1>1, <1>4, <1>5 DEF r

(* What is in a sequence with one more put behind it.                      *)
LEMMA InAppend ==
  ASSUME NEW q \in Seq(Nat), NEW x \in Nat
  PROVE  /\ Append(q, x) \in Seq(Nat) /\ Len(Append(q, x)) = Len(q) + 1
         /\ DOMAIN q = 1 .. Len(q) /\ Len(q) \in Nat
         /\ DOMAIN Append(q, x) = 1 .. Len(q) + 1
         /\ \A i \in 1 .. Len(q) : Append(q, x)[i] = q[i]
         /\ Append(q, x)[Len(q) + 1] = x
         /\ Range(Append(q, x)) = Range(q) \cup {x}
<1>1. /\ Append(q, x) \in Seq(Nat) /\ Len(Append(q, x)) = Len(q) + 1
      /\ DOMAIN q = 1 .. Len(q) /\ Len(q) \in Nat
      /\ DOMAIN Append(q, x) = 1 .. Len(q) + 1
      /\ \A i \in 1 .. Len(q) : Append(q, x)[i] = q[i]
      /\ Append(q, x)[Len(q) + 1] = x
  BY LenProperties, AppendProperties
<1>2. Range(Append(q, x)) = Range(q) \cup {x}
  BY <1>1 DEF Range
<1> QED
  BY <1>1, <1>2

(* The invariant holds at the start.                                       *)
LEMMA LoggerStarts == LoggerInit => LoggerInv
<1> SUFFICES ASSUME LoggerInit PROVE LoggerInv
  OBVIOUS
<1>1. LoggerTypeOK
  <2>1. << >> \in Seq(Nat) /\ Len(<< >>) = 0 /\ 0 <= QueueMax
    BY LoggerAssumption, EmptySeq
  <2>2. worker \in {"wait", "ended"} /\ available \in BOOLEAN
    BY DEF LoggerInit
  <2> QED
    BY <2>1, <2>2 DEF LoggerInit, LoggerTypeOK
<1>2. TwoThreads /\ OldestFirst
  <2>1. Range(<< >>) = {} /\ queue = << >> /\ written = << >> /\ InHand = {}
    BY DEF LoggerInit, InHand, Range
  <2> QED
    BY <2>1 DEF LoggerInit, TwoThreads, OldestFirst, InOrder
<1>3. Untold(Settled) = {}
  BY DEF LoggerInit, Untold, Settled
<1>4. Counted
  BY <1>3, FS_EmptySet DEF LoggerInit, Counted
<1> QED
  BY <1>1, <1>2, <1>4 DEF LoggerInv

(* Counting: what a step adds to the untold is at most one.                *)
LEMMA OneMore ==
  ASSUME NEW n \in Nat, NEW x, NEW S, NEW T, NEW k \in Int,
         S \subseteq 1 .. n, T \subseteq S \cup {x}, Cardinality(S) <= k
  PROVE  Cardinality(T) <= k + 1 /\ (T \subseteq S => Cardinality(T) <= k)
<1>1. IsFiniteSet(1 .. n)
  BY FS_Interval
<1>2. IsFiniteSet(S) /\ Cardinality(S) \in Nat
  BY <1>1, FS_Subset, FS_CardinalityType
<1>3. IsFiniteSet(S \cup {x}) /\ Cardinality(S \cup {x}) <= Cardinality(S) + 1
      /\ Cardinality(S \cup {x}) \in Nat
  <2>1. IsFiniteSet(S \cup {x}) /\ (Cardinality(S \cup {x}) = Cardinality(S) \/ Cardinality(S \cup {x}) = Cardinality(S) + 1)
    BY <1>2, FS_AddElement
  <2> QED
    BY <1>2, <2>1
<1>4. Cardinality(T) \in Nat /\ Cardinality(T) <= Cardinality(S \cup {x})
  BY <1>3, FS_Subset, FS_CardinalityType
<1>5. T \subseteq S => Cardinality(T) <= Cardinality(S)
  BY <1>2, FS_Subset
<1> QED
  BY <1>2, <1>3, <1>4, <1>5

(* The head of an ordered queue is the oldest.                             *)
LEMMA OrderedTail ==
  ASSUME NEW q \in Seq(Nat), q # << >>, InOrder(q)
  PROVE  InOrder(Tail(q)) /\ \A y \in Range(Tail(q)) : Head(q) < y
<1> DEFINE r == Tail(q)
<1>1. /\ Len(q) \in Nat /\ DOMAIN r = 1 .. Len(q) - 1 /\ Head(q) = q[1] /\ 1 \in DOMAIN q
      /\ \A i \in 1 .. Len(q) - 1 : r[i] = q[i + 1] /\ i + 1 \in DOMAIN q
  BY InTail, LenProperties
<1> HIDE DEF r
<1>2. \A i, j \in DOMAIN r : i < j => i + 1 < j + 1
  BY <1>1
<1>3. InOrder(r)
  BY <1>1, <1>2 DEF InOrder
<1>4. \A i \in DOMAIN r : 1 < i + 1
  BY <1>1
<1>5. \A y \in Range(r) : Head(q) < y
  BY <1>1, <1>4 DEF InOrder, Range
<1> QED
  BY <1>3, <1>5 DEF r

(* What is younger than all others goes to the end.                        *)
LEMMA OrderedAppend ==
  ASSUME NEW q \in Seq(Nat), NEW x \in Nat, InOrder(q), \A y \in Range(q) : y < x
  PROVE  InOrder(Append(q, x))
<1> DEFINE r == Append(q, x)
<1>1. /\ Len(q) \in Nat /\ DOMAIN q = 1 .. Len(q) /\ DOMAIN r = 1 .. Len(q) + 1
      /\ \A i \in 1 .. Len(q) : r[i] = q[i] /\ q[i] \in Range(q)
      /\ r[Len(q) + 1] = x
  <2>1. \A i \in DOMAIN q : q[i] \in Range(q)
    BY DEF Range
  <2> QED
    BY <2>1, InAppend
<1> HIDE DEF r
<1>2. SUFFICES ASSUME NEW i \in DOMAIN r, NEW j \in DOMAIN r, i < j PROVE r[i] < r[j]
  BY DEF InOrder, r
<1>3. i \in 1 .. Len(q) /\ (j \in 1 .. Len(q) \/ j = Len(q) + 1)
  BY <1>1, <1>2
<1> QED
  BY <1>1, <1>2, <1>3 DEF InOrder

(* A step after which the untold are as few.                               *)
LEMMA CountStays ==
  ASSUME LoggerInv, LoggerTypeOK', available' = available, dropped' = dropped,
         Told \cap (1 .. Settled) \subseteq Told', Settled' = Settled,
         trainer' = "drain" <=> trainer = "drain",
         trainer' = "train" /\ logged' > 0 => logged' \in Told'
  PROVE  Counted'
<1> DEFINE k == IF trainer = "drain" THEN dropped - 1 ELSE dropped
<1>1. CASE available
  <2>1. Settled \in Nat \/ Settled = -1
    BY DEF LoggerInv, LoggerTypeOK, Settled
  <2>2. Untold(Settled)' \subseteq Untold(Settled)
    BY DEF Untold
  <2>3. k \in Int /\ Cardinality(Untold(Settled)) <= k
    BY <1>1 DEF LoggerInv, LoggerTypeOK, Counted
  <2>4. IsFiniteSet(1 .. Settled)
    BY <2>1, FS_Interval
  <2>5. Cardinality(Untold(Settled)') <= Cardinality(Untold(Settled)) /\ IsFiniteSet(Untold(Settled))
    BY <2>2, <2>4, FS_Subset DEF Untold
  <2>6. Cardinality(Untold(Settled)) \in Nat /\ Cardinality(Untold(Settled)') \in Nat
    BY <2>2, <2>5, FS_Subset, FS_CardinalityType
  <2> QED
    BY <2>3, <2>5, <2>6 DEF Counted
<1>2. CASE ~ available
  BY <1>2 DEF Counted
<1> QED
  BY <1>1, <1>2

(* All of the three hold numbers of steps.                                 *)
LEMMA InNat ==
  ASSUME LoggerInv
  PROVE  Range(written) \subseteq Nat /\ InHand \subseteq Nat /\ Range(queue) \subseteq Nat
<1>1. \A q \in Seq(Nat) : Range(q) \subseteq Nat
  BY ElementOfSeq, LenProperties DEF Range
<1>2. written \in Seq(Nat) /\ queue \in Seq(Nat)
  BY DEF LoggerInv, LoggerTypeOK
<1>3. InHand \subseteq Nat
  BY DEF LoggerInv, TwoThreads, InHand
<1> QED
  BY <1>1, <1>2, <1>3

(* A step put at the end of the queue is younger than all before it.       *)
LEMMA PutInOrder ==
  ASSUME LoggerInv, NEW n \in Nat, queue' = Append(queue, n), Settled' = n, Settled = n - 1,
         UNCHANGED <<worker, taken, written, failed>>
  PROVE  /\ OldestFirst' /\ Told' = Told \cup {n}
         /\ queue' \in Seq(Nat) /\ Len(queue') = Len(queue) + 1 /\ Len(queue) \in Nat
<1>1. Range(written) \subseteq Nat /\ InHand \subseteq Nat /\ Range(queue) \subseteq Nat
  BY InNat
<1>2. queue \in Seq(Nat)
  BY DEF LoggerInv, LoggerTypeOK
<1>3. /\ queue' \in Seq(Nat) /\ Len(queue') = Len(queue) + 1 /\ Len(queue) \in Nat
      /\ Range(queue') = Range(queue) \cup {n}
  BY <1>2, InAppend
<1>4. InHand' = InHand /\ written' = written /\ failed' = failed
  BY DEF InHand
<1>5. ASSUME NEW x \in Range(written) \cup InHand \cup Range(queue) PROVE x < n
  <2>1. x <= Settled /\ x \in Nat
    BY <1>1 DEF LoggerInv, OldestFirst
  <2> QED
    BY <2>1
<1>6. InOrder(queue')
  <2>1. InOrder(queue) /\ \A y \in Range(queue) : y < n
    BY <1>5 DEF LoggerInv, OldestFirst
  <2> QED
    BY <1>2, <2>1, OrderedAppend
<1>7. \A x \in Range(written) : \A y \in InHand \cup Range(queue') : x < y
  BY <1>3, <1>5 DEF LoggerInv, OldestFirst
<1>8. \A x \in InHand : \A y \in Range(queue') : x < y
  BY <1>3, <1>5 DEF LoggerInv, OldestFirst
<1>9. ASSUME NEW x \in Range(written) \cup InHand \cup Range(queue') PROVE x <= n
  <2>1. CASE x = n
    BY <2>1
  <2>2. CASE x # n
    <3>1. x \in Range(written) \cup InHand \cup Range(queue)
      BY <1>3, <2>2
    <3>2. x \in Nat /\ x < n
      BY <1>1, <1>5, <3>1
    <3> QED
      BY <3>2
  <2> QED
    BY <2>1, <2>2
<1>10. OldestFirst'
  BY <1>4, <1>6, <1>7, <1>8, <1>9 DEF LoggerInv, OldestFirst
<1> QED
  BY <1>3, <1>4, <1>10 DEF Told

(* log_metrics keeps the invariant: without a worker it tells nobody, with *)
(* room it puts the step last, and with a full queue it counts a drop      *)
(* before it makes one.                                                    *)
LEMMA LogKeeps ==
  ASSUME LoggerInv, Log
  PROVE  LoggerInv'
<1> USE DEF workerVars
<1>1. /\ trainer = "train" /\ logged' = logged + 1 /\ logged \in Nat /\ Settled = logged
      /\ UNCHANGED <<available, stop, worker, taken, written, failed>> /\ InHand' = InHand
  BY DEF Log, LoggerInv, LoggerTypeOK, Settled, InHand
<1>2. CASE ~ available
  <2>1. UNCHANGED <<trainer, queue, dropped>>
    BY <1>2 DEF Log
  <2>2. Settled' = logged + 1
    BY <1>1, <2>1 DEF Settled
  <2>3. LoggerTypeOK'
    BY <1>1, <2>1 DEF LoggerInv, LoggerTypeOK
  <2>4. TwoThreads'
    BY <1>1, <2>1 DEF LoggerInv, TwoThreads
  <2>5. Range(written) = {} /\ Range(queue) = {} /\ InHand = {}
    BY <1>2 DEF LoggerInv, TwoThreads, Range, InHand
  <2>6. OldestFirst'
    BY <1>1, <2>1, <2>5 DEF LoggerInv, OldestFirst
  <2> QED
    BY <1>1, <1>2, <2>3, <2>4, <2>6 DEF LoggerInv, Counted
<1>3. CASE available /\ Len(queue) < QueueMax
  <2>1. queue' = Append(queue, logged + 1) /\ UNCHANGED <<trainer, dropped>>
    BY <1>1, <1>3 DEF Log
  <2>2. queue \in Seq(Nat) /\ logged + 1 \in Nat
    BY <1>1 DEF LoggerInv, LoggerTypeOK
  <2>3. /\ queue' \in Seq(Nat) /\ Len(queue') = Len(queue) + 1 /\ Len(queue) \in Nat
        /\ Range(queue') = Range(queue) \cup {logged + 1}
    BY <2>1, <2>2, InAppend
  <2>4. LoggerTypeOK'
    BY <1>1, <1>3, <2>1, <2>3, LoggerAssumption DEF LoggerInv, LoggerTypeOK
  <2>5. TwoThreads'
    BY <1>1, <1>3, <2>1 DEF LoggerInv, TwoThreads
  <2>6. Settled' = logged + 1
    BY <1>1, <2>1 DEF Settled
  <2>10. OldestFirst' /\ Told' = Told \cup {logged + 1}
    BY <1>1, <2>1, <2>2, <2>6, PutInOrder
  <2>12. Untold(Settled)' = Untold(Settled)
    BY <1>1, <2>6, <2>10 DEF Untold
  <2>13. Counted'
    BY <1>1, <1>3, <2>1, <2>10, <2>12 DEF LoggerInv, Counted
  <2> QED
    BY <2>4, <2>5, <2>10, <2>13 DEF LoggerInv
<1>4. CASE available /\ ~ (Len(queue) < QueueMax)
  <2>1. trainer' = "drain" /\ dropped' = dropped + 1 /\ queue' = queue
    BY <1>4 DEF Log
  <2>2. Settled' = Settled
    BY <1>1, <2>1 DEF Settled
  <2>3. LoggerTypeOK'
    BY <1>1, <2>1 DEF LoggerInv, LoggerTypeOK
  <2>4. TwoThreads'
    BY <1>1, <1>4, <2>1 DEF LoggerInv, TwoThreads
  <2>5. OldestFirst'
    BY <1>1, <2>1, <2>2 DEF LoggerInv, OldestFirst
  <2>6. Untold(Settled)' = Untold(Settled)
    BY <1>1, <2>1, <2>2 DEF Untold, Told
  <2>7. Counted'
    BY <1>1, <2>1, <2>6 DEF LoggerInv, LoggerTypeOK, Counted
  <2> QED
    BY <2>3, <2>4, <2>5, <2>7 DEF LoggerInv
<1> QED
  BY <1>2, <1>3, <1>4

(* What the queue loses keeps it in order, and what is in hand too.        *)
LEMMA TailInOrder ==
  ASSUME LoggerInv, queue # << >>, queue' = Tail(queue)
  PROVE  /\ queue' \in Seq(Nat) /\ Len(queue') = Len(queue) - 1 /\ Len(queue) \in Nat
         /\ Head(queue) \in Nat /\ Range(queue) = {Head(queue)} \cup Range(queue')
         /\ InOrder(queue') /\ \A y \in Range(queue') : Head(queue) < y
<1>1. queue \in Seq(Nat) /\ InOrder(queue)
  BY DEF LoggerInv, LoggerTypeOK, OldestFirst
<1> QED
  BY <1>1, InTail, OrderedTail, LenProperties

(* With a full queue the oldest step goes, if the worker has not just taken*)
(* it; either way there is then room for the step the trainer has.         *)
LEMMA DrainKeeps ==
  ASSUME LoggerInv, Drain
  PROVE  LoggerInv'
<1> USE DEF workerVars
<1>1. /\ trainer = "drain" /\ trainer' = "put"
      /\ UNCHANGED <<available, logged, stop, dropped, worker, taken, written, failed>>
      /\ InHand' = InHand /\ Settled' = Settled /\ Settled = logged - 1
  BY DEF Drain, InHand, Settled
<1>2. /\ logged \in Nat /\ dropped \in Nat
      /\ available => Cardinality(Untold(Settled)) <= dropped - 1
  BY <1>1 DEF LoggerInv, LoggerTypeOK, Counted
<1>3. CASE queue = << >>
  <2>1. queue' = queue
    BY <1>3 DEF Drain, OldestDropped
  <2>2. LoggerTypeOK'
    BY <1>1, <2>1 DEF LoggerInv, LoggerTypeOK
  <2>3. TwoThreads'
    <3>1. Len(queue') < QueueMax
      BY <1>3, <2>1, LoggerAssumption
    <3> QED
      BY <1>1, <2>1, <3>1 DEF LoggerInv, TwoThreads
  <2>4. OldestFirst'
    BY <1>1, <2>1 DEF LoggerInv, OldestFirst
  <2>5. Untold(Settled)' = Untold(Settled)
    BY <1>1, <2>1 DEF Untold, Told
  <2>6. Counted'
    <3>1. available => Cardinality(Untold(Settled)) <= dropped
      <4>1. IsFiniteSet(1 .. Settled)
        BY <1>1, <1>2, FS_Interval
      <4>2. Cardinality(Untold(Settled)) \in Nat
        BY <4>1, FS_Subset, FS_CardinalityType DEF Untold
      <4> QED
        BY <1>2, <4>2
    <3> QED
      BY <1>1, <2>5, <3>1 DEF Counted
  <2> QED
    BY <2>2, <2>3, <2>4, <2>6 DEF LoggerInv
<1>4. CASE queue # << >>
  <2>1. queue' = Tail(queue)
    BY <1>4 DEF Drain, OldestDropped
  <2>2. /\ queue' \in Seq(Nat) /\ Len(queue') = Len(queue) - 1 /\ Len(queue) \in Nat
        /\ Range(queue) = {Head(queue)} \cup Range(queue') /\ InOrder(queue')
    BY <1>4, <2>1, TailInOrder
  <2>3. LoggerTypeOK'
    BY <1>1, <2>2, LoggerAssumption DEF LoggerInv, LoggerTypeOK
  <2>4. TwoThreads'
    <3>1. Len(queue') < QueueMax
      BY <2>2, LoggerAssumption DEF LoggerInv, LoggerTypeOK
    <3>2. available
      BY <1>4 DEF LoggerInv, TwoThreads
    <3>3. worker # "ended"
      BY <1>4, <3>2 DEF LoggerInv, TwoThreads
    <3> QED
      BY <1>1, <3>1, <3>2, <3>3 DEF LoggerInv, TwoThreads
  <2>5. OldestFirst'
    BY <1>1, <2>2 DEF LoggerInv, OldestFirst
  <2>6. Untold(Settled)' \subseteq Untold(Settled) \cup {Head(queue)}
    BY <1>1, <2>2 DEF Untold, Told
  <2>7. Counted'
    <3>1. CASE available
      <4>1. CASE Settled \in Nat
        <5>1. Untold(Settled) \subseteq 1 .. Settled
          BY DEF Untold
        <5>2. dropped - 1 \in Int /\ Cardinality(Untold(Settled)) <= dropped - 1
          BY <1>2, <3>1
        <5>3. Cardinality(Untold(Settled)') <= (dropped - 1) + 1
          <6> HIDE DEF Untold, Settled
          <6> QED
            BY <2>6, <4>1, <5>1, <5>2, OneMore
        <5> QED
          BY <1>1, <1>2, <5>3 DEF Counted
      <4>2. CASE Settled \notin Nat
        <5>1. 1 .. Settled = {}
          BY <1>1, <1>2, <4>2
        <5>2. Untold(Settled)' = {}
          BY <1>1, <5>1 DEF Untold
        <5> QED
          BY <1>1, <1>2, <5>2, FS_EmptySet DEF Counted
      <4> QED
        BY <4>1, <4>2
    <3> QED
      BY <1>1, <3>1 DEF Counted
  <2> QED
    BY <2>3, <2>4, <2>5, <2>7 DEF LoggerInv
<1> QED
  BY <1>3, <1>4

(* The second put always succeeds: the trainer alone fills the queue.      *)
LEMMA PutKeeps ==
  ASSUME LoggerInv, PutAgain
  PROVE  LoggerInv'
<1> USE DEF workerVars
<1>1. /\ trainer = "put" /\ trainer' = "train"
      /\ UNCHANGED <<available, logged, stop, dropped, worker, taken, written, failed>>
      /\ Settled' = logged /\ Settled = logged - 1
  BY DEF PutAgain, Settled
<1>2. queue' = Append(queue, logged) /\ logged \in Nat /\ Len(queue) < QueueMax
  BY <1>1 DEF PutAgain, LoggerInv, LoggerTypeOK, TwoThreads
<1>3. /\ OldestFirst' /\ Told' = Told \cup {logged}
      /\ queue' \in Seq(Nat) /\ Len(queue') = Len(queue) + 1 /\ Len(queue) \in Nat
  BY <1>1, <1>2, PutInOrder
<1>4. LoggerTypeOK'
  BY <1>1, <1>2, <1>3, LoggerAssumption DEF LoggerInv, LoggerTypeOK
<1>5. available /\ worker # "ended"
  BY <1>1 DEF LoggerInv, TwoThreads
<1>6. TwoThreads'
  BY <1>1, <1>5 DEF LoggerInv, TwoThreads
<1>7. Untold(Settled)' = Untold(Settled)
  BY <1>1, <1>2, <1>3 DEF Untold
<1>8. Counted'
  BY <1>1, <1>3, <1>7 DEF LoggerInv, Counted
<1> QED
  BY <1>3, <1>4, <1>6, <1>8 DEF LoggerInv

(* finish puts nothing and takes nothing, it tells the worker to stop and  *)
(* waits.                                                                  *)
LEMMA FinishKeeps ==
  ASSUME LoggerInv, FinishLogger \/ Join \/ LoggerEnd \/ UNCHANGED loggerVars
  PROVE  LoggerInv'
<1>1. /\ UNCHANGED <<available, logged, dropped, queue, worker, taken, written, failed>>
      /\ trainer' \in {"join", "end"} \/ UNCHANGED <<trainer, stop>>
      /\ trainer \in {"drain", "put"} => UNCHANGED <<trainer, stop>>
      /\ stop' \in BOOLEAN /\ (stop => stop') /\ (~ available => trainer' \in {"end", trainer})
  <2>1. CASE FinishLogger
    BY <2>1 DEF FinishLogger, workerVars, LoggerInv, LoggerTypeOK, TwoThreads
  <2>2. CASE Join
    BY <2>2 DEF Join, workerVars, LoggerInv, LoggerTypeOK, TwoThreads
  <2>3. CASE LoggerEnd \/ UNCHANGED loggerVars
    BY <2>3 DEF LoggerEnd, loggerVars, LoggerInv, LoggerTypeOK
  <2> QED
    BY <2>1, <2>2, <2>3
<1>2. InHand' = InHand /\ Settled' = Settled /\ Told' = Told
  BY <1>1 DEF InHand, Settled, Told
<1>3. LoggerTypeOK'
  BY <1>1 DEF LoggerInv, LoggerTypeOK
<1>4. TwoThreads'
  BY <1>1 DEF LoggerInv, TwoThreads
<1>5. OldestFirst'
  BY <1>1, <1>2 DEF LoggerInv, OldestFirst
<1>6. Counted'
  BY <1>1, <1>2, <1>3, CountStays DEF LoggerInv, Counted
<1> QED
  BY <1>3, <1>4, <1>5, <1>6 DEF LoggerInv

(* The worker hands a step on from the queue to the store, or loses it to a*)
(* write that raises; it ends when it is told to and nothing waits.        *)
LEMMA WorkerKeeps ==
  ASSUME LoggerInv, WorkerStep
  PROVE  LoggerInv'
<1> USE DEF trainerVars
<1>1. /\ UNCHANGED <<available, trainer, logged, stop, dropped>> /\ Settled' = Settled
  BY DEF WorkerStep, Take, Write, WriteRaises, Upload, WorkerEnds, Settled
<1>2. LoggerTypeOK /\ TwoThreads /\ OldestFirst /\ Range(written) \subseteq Nat
  BY InNat DEF LoggerInv
<1>3. ASSUME LoggerTypeOK', TwoThreads', OldestFirst', Told \subseteq Told' PROVE LoggerInv'
  <2>1. available /\ trainer = "train" /\ logged > 0 => logged \in Told
    BY DEF LoggerInv, Counted
  <2>2. CASE available
    BY <1>1, <1>3, <2>1, <2>2, CountStays DEF LoggerInv
  <2>3. CASE ~ available
    BY <1>1, <1>3, <2>3 DEF LoggerInv, Counted
  <2> QED
    BY <2>2, <2>3
<1>4. CASE Take
  <2>1. /\ worker = "wait" /\ worker' = "write" /\ queue # << >> /\ queue' = Tail(queue)
        /\ taken' = Head(queue) /\ written' = written /\ failed' = failed
    BY <1>4 DEF Take
  <2>2. /\ queue' \in Seq(Nat) /\ Len(queue') = Len(queue) - 1 /\ Len(queue) \in Nat
        /\ Head(queue) \in Nat /\ Range(queue) = {Head(queue)} \cup Range(queue')
        /\ InOrder(queue') /\ \A y \in Range(queue') : Head(queue) < y
    BY <2>1, TailInOrder
  <2>3. InHand = {} /\ InHand' = {Head(queue)}
    BY <2>1 DEF InHand
  <2>4. LoggerTypeOK'
    BY <1>1, <1>2, <2>1, <2>2, LoggerAssumption DEF LoggerTypeOK
  <2>5. available
    BY <1>2, <2>1 DEF TwoThreads
  <2>6. TwoThreads'
    BY <1>1, <1>2, <2>1, <2>2, <2>5, LoggerAssumption DEF TwoThreads, LoggerTypeOK
  <2>7. OldestFirst'
    BY <1>1, <1>2, <2>1, <2>2, <2>3 DEF OldestFirst
  <2>8. Told \subseteq Told'
    BY <2>1, <2>2, <2>3 DEF Told
  <2> QED
    BY <1>3, <2>4, <2>6, <2>7, <2>8
<1>5. CASE Write
  <2>1. /\ worker = "write" /\ worker' = "upload" /\ written' = Append(written, taken)
        /\ UNCHANGED <<queue, taken, failed>>
    BY <1>5 DEF Write
  <2>2. taken \in Nat /\ written \in Seq(Nat)
    BY <1>2, <2>1 DEF TwoThreads, LoggerTypeOK
  <2>3. written' \in Seq(Nat) /\ Range(written') = Range(written) \cup {taken}
    BY <2>1, <2>2, InAppend
  <2>4. InHand = {taken} /\ InHand' = {}
    BY <2>1 DEF InHand
  <2>5. InOrder(written')
    <3>1. InOrder(written) /\ \A y \in Range(written) : y < taken
      BY <1>2, <2>4 DEF OldestFirst
    <3> QED
      BY <2>1, <2>2, <3>1, OrderedAppend
  <2>6. LoggerTypeOK'
    BY <1>1, <1>2, <2>1, <2>3 DEF LoggerTypeOK
  <2>7. TwoThreads'
    BY <1>1, <1>2, <2>1, <2>2, <2>3 DEF TwoThreads
  <2>8. OldestFirst'
    BY <1>1, <1>2, <2>1, <2>3, <2>4, <2>5 DEF OldestFirst
  <2>9. Told \subseteq Told'
    BY <2>1, <2>3, <2>4 DEF Told
  <2> QED
    BY <1>3, <2>6, <2>7, <2>8, <2>9
<1>6. CASE WriteRaises \/ Upload \/ WorkerEnds
  <2>1. /\ queue' = queue /\ written' = written
        /\ worker' \in {"wait", "ended"} /\ taken' \in {Never, taken}
        /\ worker' = "ended" => stop /\ queue = << >>
        /\ failed' = IF WriteRaises THEN failed \cup {taken} ELSE failed
        /\ WriteRaises => worker = "write"
        /\ worker = "write" => WriteRaises
        /\ worker # "ended"
    BY <1>6 DEF WriteRaises, Upload, WorkerEnds, AfterFailure, MayEnd
  <2>2. InHand' = {}
    BY <2>1 DEF InHand
  <2>3. LoggerTypeOK'
    BY <1>1, <1>2, <2>1 DEF LoggerTypeOK, TwoThreads
  <2>4. available
    BY <1>2, <2>1 DEF TwoThreads
  <2>5. TwoThreads'
    BY <1>1, <1>2, <2>1, <2>4 DEF TwoThreads
  <2>6. OldestFirst'
    BY <1>1, <1>2, <2>1, <2>2 DEF OldestFirst
  <2>7. Told \subseteq Told'
    BY <2>1, <2>2 DEF Told, InHand
  <2> QED
    BY <1>3, <2>3, <2>5, <2>6, <2>7
<1> QED
  BY <1>4, <1>5, <1>6 DEF WorkerStep

(* Every step of the trainer or the worker keeps the invariant.            *)
LEMMA LoggerKeeps ==
  ASSUME LoggerInv, [LoggerNext]_loggerVars
  PROVE  LoggerInv'
BY LogKeeps, DrainKeeps, PutKeeps, FinishKeeps, WorkerKeeps DEF LoggerNext, TrainerStep

(* The invariant says what the property needs.                             *)
LEMMA LoggerInvSuffices == LoggerInv => StoreTellsAll
<1> SUFFICES ASSUME LoggerInv PROVE StoreTellsAll
  OBVIOUS
<1>1. available => Waiting \cup Range(written) \cup failed = Told
  <2>1. CASE worker = "ended"
    <3>1. available => Range(queue) = {}
      BY <2>1 DEF LoggerInv, TwoThreads, Range
    <3> QED
      BY <2>1, <3>1 DEF Waiting, Told, InHand
  <2>2. CASE worker # "ended"
    BY <2>2 DEF LoggerInv, TwoThreads, LoggerTypeOK, Waiting, Told, InHand
  <2> QED
    BY <2>1, <2>2
<1>2. StoreInOrder
  BY <1>1 DEF LoggerInv, OldestFirst, Counted, StoreInOrder
<1>3. LossesCounted
  <2>1. available /\ trainer \notin {"drain", "put"} => Lost = Untold(Settled)
    BY <1>1 DEF Lost, Untold, Settled
  <2> QED
    BY <2>1 DEF LoggerInv, Counted, LossesCounted
<1> QED
  BY <1>2, <1>3 DEF StoreTellsAll

(* For any size of the queue, any number of steps and any failures of the  *)
(* backend: what was written is in the order of the steps, and whenever the*)
(* trainer is not in the middle of a call, every step is in the queue, in  *)
(* hand, in the store or lost to a failed write, except for as many as were*)
(* counted as dropped; the last one is never dropped (utils/logger.py:     *)
(* log_metrics with its drop of the oldest, the worker thread, finish).    *)
THEOREM StoreAlwaysTellsAll == TrainingSpec => []StoreTellsAll
<1>1. TrainingInit => LoggerInv
  BY LoggerStarts DEF TrainingInit
<1>2. LoggerInv /\ [TrainingNext]_trainingVars => LoggerInv'
  <2> SUFFICES ASSUME LoggerInv, [TrainingNext]_trainingVars PROVE LoggerInv'
    OBVIOUS
  <2>1. [LoggerNext]_loggerVars
    BY DEF TrainingNext, trainingVars
  <2> QED
    BY <2>1, LoggerKeeps
<1>3. LoggerInv => StoreTellsAll
  BY LoggerInvSuffices
<1> QED
  BY <1>1, <1>2, <1>3, PTL DEF TrainingSpec

-----------------------------------------------------------------------------
(* What the loop measures *)

(* The sums of the first elements of a sequence of integers.               *)
SumsOf(r, s, n) ==
  /\ r \in [0 .. n -> Int] /\ r[0] = 0
  /\ \A k \in 1 .. n : r[k] = r[k - 1] + s[k]

(* A sum is the last of them.                                              *)
LEMMA SumRuns ==
  ASSUME NEW s \in Seq(Int)
  PROVE  \E r : SumsOf(r, s, Len(s)) /\ FoldLeft(+, 0, s) = r[Len(s)]
<1> DEFINE n == Len(s)
           turn == [x \in (1 .. n) \X Int |-> x[2] + s[x[1]]]
           Next(g) == [T \in SUBSET DOMAIN s |-> IF T = {} THEN 0 ELSE g[T \ {Max(T)}] + s[Max(T)]]
           table == CHOOSE g : g = Next(g)
           r == [k \in 0 .. n |-> table[1 .. k]]
<1>1. n \in Nat /\ DOMAIN s = 1 .. n /\ \A k \in 1 .. n : s[k] \in Int
  BY LenProperties, ElementOfSeq
<1>2. FoldLeft(+, 0, s) = table[1 .. n]
  BY <1>1 DEF FoldLeft, MapThenFoldSet
<1> HIDE DEF n
<1>3. Advances(turn, 1 .. n, Int)
  BY <1>1 DEF Advances
<1> HIDE DEF turn
<1>4. PICK h : FoldTabulates(h, n, Int, 0, turn)
  <2>1. PICK D, b : b \in D /\ D = Int /\ b = 0
    OBVIOUS
  <2>2. Advances(turn, 1 .. n, D)
    BY <1>3, <2>1
  <2>3. n \in Nat
    BY <1>1
  <2>4. \E h : FoldTabulates(h, n, D, b, turn)
    BY <2>1, <2>2, <2>3, FoldTable
  <2> QED
    BY <2>1, <2>4
<1>5. h = Next(h)
  <2>1. ASSUME NEW T \in SUBSET (1 .. n), T # {} PROVE h[T] = h[T \ {Max(T)}] + s[Max(T)]
    <3>1. Max(T) \in 1 .. n /\ h[T \ {Max(T)}] \in Int /\ h[T] = turn[<<Max(T), h[T \ {Max(T)}]>>]
      BY <1>4, <2>1 DEF FoldTabulates
    <3> QED
      BY <3>1 DEF turn
  <2> QED
    BY <1>1, <1>4, <2>1 DEF FoldTabulates
<1>6. table = Next(table)
  BY <1>5
<1> HIDE DEF table
<1>7. table[{}] = 0
  BY <1>6
<1>8. ASSUME NEW k \in 1 .. n PROVE table[1 .. k] = table[1 .. k - 1] + s[k]
  <2>1. k \in Nat \ {0} /\ 1 .. k # {} /\ 1 .. k \in SUBSET DOMAIN s
    <3>1. k \in Nat \ {0} /\ k \in 1 .. k /\ 1 .. k \subseteq 1 .. n
      BY <1>1
    <3> QED
      BY <1>1, <3>1
  <2>2. Max(1 .. k) = k /\ (1 .. k) \ {k} = 1 .. k - 1
    BY <2>1, MaxOfFirst
  <2> QED
    BY <1>6, <2>1, <2>2
<1>9. \A k \in 0 .. n : table[1 .. k] \in Int
  <2> DEFINE G == {k \in 0 .. n : table[1 .. k] \in Int}
  <2>1. 0 \in G
    <3>1. 1 .. 0 = {}
      OBVIOUS
    <3> QED
      BY <1>1, <1>7, <3>1
  <2>2. ASSUME NEW k \in 1 .. n, k - 1 \in G PROVE k \in G
    BY <1>1, <1>8, <2>2
  <2> HIDE DEF G
  <2>3. \A k \in 0 .. n : k \in G
    BY <1>1, <2>1, <2>2, Upwards
  <2> QED
    BY <2>3 DEF G
<1>10. r[0] = 0
  <2>1. 1 .. 0 = {}
    OBVIOUS
  <2> QED
    BY <1>1, <1>7, <2>1
<1>11. \A k \in 1 .. n : r[k] = r[k - 1] + s[k]
  <2> SUFFICES ASSUME NEW k \in 1 .. n PROVE r[k] = r[k - 1] + s[k]
    OBVIOUS
  <2>1. k \in 0 .. n /\ k - 1 \in 0 .. n
    BY <1>1
  <2> QED
    BY <1>8, <2>1
<1>12. FoldLeft(+, 0, s) = r[n] /\ r \in [0 .. n -> Int]
  <2>1. n \in 0 .. n
    BY <1>1
  <2>2. r[n] = table[1 .. n]
    BY <2>1
  <2>3. r \in [0 .. n -> Int]
    BY <1>9
  <2> QED
    BY <1>2, <2>2, <2>3
<1> QED
  BY <1>10, <1>11, <1>12 DEF n, SumsOf

(* The sum is what any table of partial sums ends with.                    *)
LEMMA SumIs ==
  ASSUME NEW s \in Seq(Int), NEW q, SumsOf(q, s, Len(s))
  PROVE  FoldLeft(+, 0, s) = q[Len(s)]
<1>1. PICK n \in Nat : n = Len(s)
  BY LenProperties
<1>2. PICK r : SumsOf(r, s, n) /\ FoldLeft(+, 0, s) = r[n]
  BY <1>1, SumRuns
<1>q. q[0] = 0 /\ \A k \in 1 .. n : q[k] = q[k - 1] + s[k]
  BY <1>1 DEF SumsOf
<1>r. r[0] = 0 /\ \A k \in 1 .. n : r[k] = r[k - 1] + s[k]
  BY <1>2 DEF SumsOf
<1> DEFINE G == {k \in 0 .. n : q[k] = r[k]}
<1>3. 0 \in G
  BY <1>q, <1>r
<1>4. ASSUME NEW k \in 1 .. n, k - 1 \in G PROVE k \in G
  <2>1. k \in 0 .. n /\ q[k - 1] = r[k - 1]
    BY <1>4
  <2> QED
    BY <1>q, <1>r, <2>1
<1> HIDE DEF G
<1>5. \A k \in 0 .. n : k \in G
  BY <1>3, <1>4, Upwards
<1>6. q[n] = r[n]
  <2>1. n \in 0 .. n
    OBVIOUS
  <2> QED
    BY <1>5, <2>1 DEF G
<1> QED
  BY <1>1, <1>2, <1>6

(* The sum with one element more.                                          *)
LEMMA SumAppend ==
  ASSUME NEW s \in Seq(Int), NEW x \in Int
  PROVE  FoldLeft(+, 0, s) \in Int /\ FoldLeft(+, 0, Append(s, x)) = FoldLeft(+, 0, s) + x
<1>1. PICK n \in Nat : n = Len(s)
  BY LenProperties
<1>2. PICK t \in Seq(Int) : t = Append(s, x) /\ Len(t) = n + 1 /\ t[n + 1] = x /\ \A k \in 1 .. n : t[k] = s[k]
  <2>1. /\ Append(s, x) \in Seq(Int) /\ Len(Append(s, x)) = Len(s) + 1 /\ Append(s, x)[Len(s) + 1] = x
        /\ \A k \in 1 .. Len(s) : Append(s, x)[k] = s[k]
    BY AppendProperties
  <2> QED
    BY <1>1, <2>1
<1>3. PICK r : SumsOf(r, s, n) /\ FoldLeft(+, 0, s) = r[n]
  BY <1>1, SumRuns
<1>4. PICK q : q = [k \in 0 .. n + 1 |-> IF k <= n THEN r[k] ELSE r[n] + x]
  OBVIOUS
<1>5. SumsOf(q, t, n + 1)
  <2>1. r \in [0 .. n -> Int] /\ r[0] = 0 /\ \A k \in 1 .. n : r[k] = r[k - 1] + s[k]
    BY <1>1, <1>3 DEF SumsOf
  <2>2. q \in [0 .. n + 1 -> Int] /\ q[0] = 0
    BY <1>4, <2>1
  <2>3. ASSUME NEW k \in 1 .. n + 1 PROVE q[k] = q[k - 1] + t[k]
    <3>1. CASE k <= n
      BY <1>2, <1>4, <2>1, <3>1
    <3>2. CASE ~(k <= n)
      <4>1. k = n + 1 /\ k - 1 = n /\ k \in 0 .. n + 1 /\ n \in 0 .. n + 1
        BY <3>2
      <4> QED
        BY <1>2, <1>4, <3>2, <4>1
    <3> QED
      BY <3>1, <3>2
  <2> QED
    BY <1>2, <2>2, <2>3 DEF SumsOf
<1>6. FoldLeft(+, 0, t) = q[n + 1] /\ q[n + 1] = r[n] + x
  <2>1. SumsOf(q, t, Len(t))
    BY <1>2, <1>5
  <2>2. FoldLeft(+, 0, t) = q[Len(t)]
    BY <2>1, SumIs
  <2>3. n + 1 \in 0 .. n + 1 /\ ~(n + 1 <= n)
    OBVIOUS
  <2> QED
    BY <1>2, <1>4, <2>2, <2>3
<1>7. r[n] \in Int
  <2>1. r \in [0 .. n -> Int]
    BY <1>1, <1>3 DEF SumsOf
  <2>2. n \in 0 .. n
    OBVIOUS
  <2> QED
    BY <2>1, <2>2
<1> QED
  BY <1>2, <1>3, <1>6, <1>7

(* The averaged intervals lead from one end of a step to another, over ends*)
(* that are not in the first steps, up to the last.                        *)
Reaches(pos, ts, es) ==
  /\ pos \in [0 .. Len(ts) -> 1 .. Len(es)]
  /\ \A k \in 0 .. Len(ts) : pos[k] > WarmupSteps
  /\ \A k \in 1 .. Len(ts) : ts[k] = es[pos[k]] - es[pos[k - 1]]
  /\ es[pos[Len(ts)]] = es[Len(es)]

(* Of the step times: what was averaged since the last reset of the clock. *)
MeterInv ==
  /\ clock \in Nat /\ seen \in Nat /\ paused \in Int /\ lastT \in Nat
  /\ times \in Seq(Int) /\ ends \in Seq(Int)
  /\ Len(ends) = seen + 1 /\ ends[Len(ends)] = lastT - paused
  /\ Len(times) <= SmoothWindow
  /\ times # << >> => seen > WarmupSteps /\ \E pos : Reaches(pos, times, ends)
(* Of the counters: what is not told of yet is not less than what grew.    *)
SumOf(s) == FoldLeft(+, 0, s)
CounterInv ==
  /\ bytes \in Nat /\ grown \in Nat
  /\ rates \in Seq(Int)
  /\ prev # << >> => prev[1] \in Nat
  /\ SumOf(rates) <= grown
  /\ prev # << >> => SumOf(rates) + (bytes - prev[1]) <= grown

(* The sum of such intervals.                                              *)
LEMMA ReachedSum ==
  ASSUME NEW ts \in Seq(Int), NEW es \in Seq(Int), NEW pos, Reaches(pos, ts, es)
  PROVE  FoldLeft(+, 0, ts) = es[Len(es)] - es[pos[0]]
<1>1. PICK n \in Nat, m \in Nat : n = Len(ts) /\ m = Len(es)
  BY LenProperties
<1>2. /\ pos \in [0 .. n -> 1 .. m] /\ es[pos[n]] = es[m]
      /\ \A k \in 1 .. n : ts[k] = es[pos[k]] - es[pos[k - 1]]
  BY <1>1 DEF Reaches
<1>3. \A i \in 1 .. m : es[i] \in Int
  BY <1>1, ElementOfSeq
<1>4. \A k \in 0 .. n : pos[k] \in 1 .. m /\ es[pos[k]] \in Int
  BY <1>2, <1>3
<1>5. PICK q : q = [k \in 0 .. n |-> es[pos[k]] - es[pos[0]]]
  OBVIOUS
<1>6. 0 \in 0 .. n /\ n \in 0 .. n /\ \A k \in 1 .. n : k \in 0 .. n /\ k - 1 \in 0 .. n
  OBVIOUS
<1>7. SumsOf(q, ts, n)
  <2>1. q \in [0 .. n -> Int] /\ q[0] = 0
    BY <1>4, <1>5, <1>6
  <2>2. ASSUME NEW k \in 1 .. n PROVE q[k] = q[k - 1] + ts[k]
    <3>1. q[k] = es[pos[k]] - es[pos[0]] /\ q[k - 1] = es[pos[k - 1]] - es[pos[0]] /\ ts[k] = es[pos[k]] - es[pos[k - 1]]
      BY <1>2, <1>5, <1>6
    <3>2. es[pos[k]] \in Int /\ es[pos[k - 1]] \in Int /\ es[pos[0]] \in Int
      BY <1>4, <1>6
    <3> QED
      BY <3>1, <3>2
  <2> QED
    BY <2>1, <2>2 DEF SumsOf
<1>8. FoldLeft(+, 0, ts) = q[n]
  <2>1. SumsOf(q, ts, Len(ts))
    BY <1>1, <1>7
  <2> QED
    BY <1>1, <2>1, SumIs
<1> QED
  BY <1>1, <1>2, <1>5, <1>6, <1>8

(* One more end, without an interval and with one; and the first one goes. *)
LEMMA ReachesOn ==
  ASSUME NEW ts \in Seq(Int), NEW es \in Seq(Int), NEW pos, Reaches(pos, ts, es), es # << >>, NEW e \in Int
  PROVE  /\ e = es[Len(es)] => Reaches(pos, ts, Append(es, e))
         /\ \E b : Reaches(b, Append(ts, e - es[Len(es)]), Append(es, e))
<1>1. PICK n \in Nat, m \in Nat \ {0} : n = Len(ts) /\ m = Len(es)
  BY LenProperties, EmptySeq
<1>2. /\ pos \in [0 .. n -> 1 .. m] /\ es[pos[n]] = es[m]
      /\ \A k \in 0 .. n : pos[k] > WarmupSteps
      /\ \A k \in 1 .. n : ts[k] = es[pos[k]] - es[pos[k - 1]]
  BY <1>1 DEF Reaches
<1>3. PICK fs \in Seq(Int) : fs = Append(es, e) /\ Len(fs) = m + 1 /\ fs[m + 1] = e /\ \A i \in 1 .. m : fs[i] = es[i]
  <2>1. /\ Append(es, e) \in Seq(Int) /\ Len(Append(es, e)) = Len(es) + 1 /\ Append(es, e)[Len(es) + 1] = e
        /\ \A i \in 1 .. Len(es) : Append(es, e)[i] = es[i]
    BY AppendProperties
  <2> QED
    BY <1>1, <2>1
<1>4. \A k \in 0 .. n : pos[k] \in 1 .. m /\ pos[k] \in 1 .. m + 1 /\ fs[pos[k]] = es[pos[k]]
  BY <1>2, <1>3
<1>5. 0 \in 0 .. n /\ n \in 0 .. n /\ \A k \in 1 .. n : k \in 0 .. n /\ k - 1 \in 0 .. n
  OBVIOUS
<1>6. ASSUME e = es[m] PROVE Reaches(pos, ts, fs)
  <2>1. pos \in [0 .. n -> 1 .. m + 1]
    BY <1>2, <1>4
  <2>2. \A k \in 1 .. n : ts[k] = fs[pos[k]] - fs[pos[k - 1]]
    BY <1>2, <1>4, <1>5
  <2>3. fs[pos[n]] = fs[m + 1]
    BY <1>2, <1>3, <1>4, <1>5, <1>6
  <2> QED
    BY <1>1, <1>2, <1>3, <2>1, <2>2, <2>3 DEF Reaches
<1>7. PICK us \in Seq(Int) : us = Append(ts, e - es[m]) /\ Len(us) = n + 1 /\ us[n + 1] = e - es[m] /\ \A i \in 1 .. n : us[i] = ts[i]
  <2>1. PICK x \in Int : x = e - es[m]
    <3>1. es[m] \in Int
      BY <1>1, ElementOfSeq
    <3> QED
      BY <3>1
  <2>2. /\ Append(ts, x) \in Seq(Int) /\ Len(Append(ts, x)) = Len(ts) + 1 /\ Append(ts, x)[Len(ts) + 1] = x
        /\ \A i \in 1 .. Len(ts) : Append(ts, x)[i] = ts[i]
    BY AppendProperties
  <2> QED
    BY <1>1, <2>1, <2>2
<1>8. PICK b : b = [k \in 0 .. n + 1 |-> IF k <= n THEN pos[k] ELSE m + 1]
  OBVIOUS
<1>9. b \in [0 .. n + 1 -> 1 .. m + 1] /\ b[n + 1] = m + 1 /\ \A k \in 0 .. n : b[k] = pos[k]
  BY <1>4, <1>8
<1>10. \A k \in 0 .. n + 1 : b[k] > WarmupSteps
  <2>1. m + 1 > WarmupSteps
    <3>1. pos[n] > WarmupSteps /\ pos[n] \in 1 .. m /\ WarmupSteps \in Nat
      BY <1>2, <1>4, <1>5, TelemetryAssumption
    <3> QED
      BY <3>1
  <2>2. ASSUME NEW k \in 0 .. n + 1 PROVE k \in 0 .. n \/ k = n + 1
    OBVIOUS
  <2> QED
    BY <1>2, <1>9, <2>1, <2>2
<1>11. ASSUME NEW k \in 1 .. n + 1 PROVE us[k] = fs[b[k]] - fs[b[k - 1]]
  <2>1. CASE k \in 1 .. n
    BY <1>2, <1>4, <1>5, <1>7, <1>9, <2>1
  <2>2. CASE k \notin 1 .. n
    <3>1. k = n + 1 /\ k - 1 = n
      BY <1>11, <2>2
    <3>2. fs[b[n + 1]] = e /\ fs[b[n]] = es[m]
      BY <1>2, <1>3, <1>4, <1>5, <1>9
    <3> QED
      BY <1>7, <3>1, <3>2
  <2> QED
    BY <2>1, <2>2
<1>12. Reaches(b, us, fs)
  BY <1>3, <1>7, <1>9, <1>10, <1>11 DEF Reaches
<1> QED
  BY <1>1, <1>3, <1>6, <1>7, <1>12

(* The first of the intervals goes.                                        *)
LEMMA ReachesTail ==
  ASSUME NEW ts \in Seq(Int), NEW es \in Seq(Int), NEW pos, Reaches(pos, ts, es), ts # << >>
  PROVE  Tail(ts) \in Seq(Int) /\ Len(Tail(ts)) = Len(ts) - 1 /\ \E b : Reaches(b, Tail(ts), es)
<1>1. PICK n \in Nat, m \in Nat : n + 1 = Len(ts) /\ m = Len(es)
  <2>1. Len(ts) \in Nat \ {0} /\ Len(es) \in Nat
    BY LenProperties, EmptySeq
  <2>2. PICK k \in Nat \ {0} : k = Len(ts)
    BY <2>1
  <2>3. k - 1 \in Nat /\ (k - 1) + 1 = k
    OBVIOUS
  <2> QED
    BY <2>1, <2>2, <2>3
<1>2. /\ pos \in [0 .. n + 1 -> 1 .. m] /\ es[pos[n + 1]] = es[m]
      /\ \A k \in 0 .. n + 1 : pos[k] > WarmupSteps
      /\ \A k \in 1 .. n + 1 : ts[k] = es[pos[k]] - es[pos[k - 1]]
  BY <1>1 DEF Reaches
<1>3. PICK us \in Seq(Int) : us = Tail(ts) /\ Len(us) = n /\ \A i \in 1 .. n : us[i] = ts[i + 1]
  <2>1. /\ Tail(ts) \in Seq(Int) /\ Len(Tail(ts)) = Len(ts) - 1
        /\ \A i \in 1 .. Len(Tail(ts)) : Tail(ts)[i] = ts[i + 1]
    BY HeadTailProperties
  <2>2. Len(Tail(ts)) = n
    BY <1>1, <2>1
  <2> QED
    BY <2>1, <2>2
<1>4. PICK b : b = [k \in 0 .. n |-> pos[k + 1]]
  OBVIOUS
<1>5. /\ \A k \in 0 .. n : k + 1 \in 0 .. n + 1
      /\ \A k \in 1 .. n : k \in 0 .. n /\ k - 1 \in 0 .. n /\ (k - 1) + 1 = k /\ k + 1 \in 1 .. n + 1 /\ (k + 1) - 1 = k
      /\ n \in 0 .. n
  OBVIOUS
<1>6. b \in [0 .. n -> 1 .. m] /\ es[b[n]] = es[m] /\ \A k \in 0 .. n : b[k] > WarmupSteps
  BY <1>2, <1>4, <1>5
<1>7. ASSUME NEW k \in 1 .. n PROVE us[k] = es[b[k]] - es[b[k - 1]]
  <2>1. us[k] = ts[k + 1] /\ ts[k + 1] = es[pos[k + 1]] - es[pos[(k + 1) - 1]]
    BY <1>2, <1>3, <1>5
  <2>2. b[k] = pos[k + 1] /\ b[k - 1] = pos[k]
    BY <1>4, <1>5
  <2> QED
    BY <1>5, <2>1, <2>2
<1>8. Reaches(b, us, es)
  BY <1>1, <1>3, <1>6, <1>7 DEF Reaches
<1> QED
  BY <1>1, <1>3, <1>8

(* No growth was told of at first.                                         *)
LEMMA SumNothing == FoldLeft(+, 0, << >>) = 0
<1>1. << >> \in Seq(Int) /\ Len(<< >>) = 0
  OBVIOUS
<1>2. PICK e \in Seq(Int) : e = << >> /\ Len(e) = 0
  BY <1>1
<1>3. PICK r : SumsOf(r, e, Len(e)) /\ FoldLeft(+, 0, e) = r[Len(e)]
  BY SumRuns
<1>4. SumsOf(r, e, 0) /\ FoldLeft(+, 0, e) = r[0]
  BY <1>2, <1>3
<1> QED
  BY <1>2, <1>4 DEF SumsOf

(* The loop starts with nothing measured.                                  *)
LEMMA MeasuringStarts == TelemetryInit => MeterInv /\ CounterInv
<1> SUFFICES ASSUME TelemetryInit PROVE MeterInv /\ CounterInv
  OBVIOUS
<1>1. << >> \in Seq(Int) /\ Len(<< >>) = 0 /\ <<0>> \in Seq(Int) /\ Len(<<0>>) = 1 /\ <<0>>[1] = 0
  OBVIOUS
<1>2. MeterInv
  BY <1>1, TelemetryAssumption DEF TelemetryInit, MeterInv
<1>3. CounterInv
  <2>1. bytes = 0 /\ grown = 0 /\ rates = << >> /\ prev = << >>
    BY DEF TelemetryInit
  <2>2. SumOf(rates) = 0
    BY <2>1, SumNothing DEF SumOf
  <2> QED
    BY <1>1, <2>1, <2>2 DEF CounterInv
<1> QED
  BY <1>2, <1>3

(* ThroughputTracker.step.                                                 *)
LEMMA MeterKeeps == ASSUME MeterInv, Meter, UNCHANGED clock PROVE MeterInv'
<1>1. PICK d \in Int : d = clock - paused /\ seen' = seen + 1 /\ lastT' = clock /\ ends' = Append(ends, d) /\ paused' = paused
  BY DEF MeterInv, Meter
<1>2. /\ ends \in Seq(Int) /\ times \in Seq(Int) /\ Len(ends) = seen + 1 /\ ends[Len(ends)] = lastT - paused
      /\ clock \in Nat /\ seen \in Nat /\ paused \in Int /\ lastT \in Nat
  BY DEF MeterInv
<1>3. PICK m \in Nat : m = Len(ends) /\ m = seen + 1
  BY <1>2
<1>4. PICK fs \in Seq(Int) : fs = ends' /\ Len(fs) = m + 1 /\ fs[m + 1] = d
  <2>1. /\ Append(ends, d) \in Seq(Int) /\ Len(Append(ends, d)) = Len(ends) + 1 /\ Append(ends, d)[Len(ends) + 1] = d
    BY <1>2, AppendProperties
  <2> QED
    BY <1>1, <1>3, <2>1
<1>5. ends # << >>
  BY <1>2, <1>3
<1>6. /\ clock' \in Nat /\ seen' \in Nat /\ paused' \in Int /\ lastT' \in Nat /\ ends' \in Seq(Int)
      /\ Len(ends') = seen' + 1 /\ ends'[Len(ends')] = lastT' - paused'
  <2>1. Len(ends') = seen' + 1
    BY <1>1, <1>3, <1>4
  <2>2. ends'[Len(ends')] = lastT' - paused'
    BY <1>1, <1>4
  <2> QED
    BY <1>1, <1>2, <1>4, <2>1, <2>2
<1>7. CASE clock = lastT
  <2>1. times' = times /\ d = ends[Len(ends)]
    BY <1>1, <1>2, <1>7 DEF Meter
  <2>2. ASSUME times # << >> PROVE seen' > WarmupSteps /\ \E pos : Reaches(pos, times, fs)
    <3>1. PICK pos : Reaches(pos, times, ends) /\ seen > WarmupSteps
      BY <2>2 DEF MeterInv
    <3>2. Reaches(pos, times, Append(ends, d))
      BY <1>2, <1>5, <2>1, <3>1, ReachesOn
    <3>3. seen' > WarmupSteps
      BY <1>1, <1>2, <3>1, TelemetryAssumption
    <3> QED
      BY <1>1, <1>4, <3>2, <3>3
  <2> QED
    BY <1>2, <1>4, <1>6, <2>1, <2>2 DEF MeterInv
<1>8. CASE clock # lastT
  <2>1. PICK x \in Int : x = clock - lastT /\ x = d - ends[Len(ends)]
    <3>1. clock - lastT \in Int /\ clock - lastT = d - (lastT - paused)
      BY <1>1, <1>2
    <3> QED
      BY <1>2, <3>1
  <2>2. PICK all : all = IF seen' > WarmupSteps THEN Append(times, x) ELSE times
    OBVIOUS
  <2>3. times' = IF Len(all) > SmoothWindow THEN Tail(all) ELSE all
    BY <1>8, <2>1, <2>2 DEF Meter, Averaged
  <2>4. /\ all \in Seq(Int) /\ Len(all) <= SmoothWindow + 1
        /\ all # << >> => seen' > WarmupSteps /\ \E pos : Reaches(pos, all, fs)
    <3>1. CASE seen' > WarmupSteps
      <4>1. PICK n \in Nat : n = Len(times) /\ n <= SmoothWindow
        BY <1>2, LenProperties DEF MeterInv
      <4>2. all = Append(times, x) /\ all \in Seq(Int) /\ Len(all) = n + 1
        BY <1>2, <2>2, <3>1, <4>1, AppendProperties
      <4>3. \E pos : Reaches(pos, times, ends)
        <5>1. CASE times # << >>
          BY <5>1 DEF MeterInv
        <5>2. CASE times = << >>
          <6>1. PICK pos : pos = [k \in 0 .. 0 |-> m]
            OBVIOUS
          <6>2. n = 0 /\ 0 \in 0 .. 0 /\ m \in 1 .. m /\ m > WarmupSteps
            <7>1. n = 0
              BY <4>1, <5>2
            <7>2. m > WarmupSteps
              BY <1>1, <1>3, <3>1, TelemetryAssumption
            <7>3. m \in 1 .. m
              BY <1>2, <1>3
            <7> QED
              BY <7>1, <7>2, <7>3
          <6>3. Reaches(pos, times, ends)
            <7>1. pos \in [0 .. n -> 1 .. m] /\ pos[n] = m /\ \A k \in 0 .. n : pos[k] > WarmupSteps
              BY <6>1, <6>2
            <7>2. \A k \in 1 .. n : FALSE
              BY <6>2
            <7> QED
              BY <1>3, <4>1, <7>1, <7>2 DEF Reaches
          <6> QED
            BY <6>3
        <5> QED
          BY <5>1, <5>2
      <4>4. PICK pos : Reaches(pos, times, ends)
        BY <4>3
      <4>5. PICK b : Reaches(b, Append(times, d - ends[Len(ends)]), Append(ends, d))
        BY <1>2, <1>5, <4>4, ReachesOn
      <4>6. Reaches(b, all, fs)
        BY <1>1, <1>4, <2>1, <4>2, <4>5
      <4>7. Len(all) <= SmoothWindow + 1
        BY <4>1, <4>2, TelemetryAssumption
      <4> QED
        BY <3>1, <4>2, <4>6, <4>7
    <3>2. CASE ~(seen' > WarmupSteps)
      <4>1. all = times /\ ~(seen > WarmupSteps)
        BY <1>1, <1>2, <2>2, <3>2, TelemetryAssumption
      <4>2. times = << >> /\ Len(times) <= SmoothWindow + 1
        <5>1. times = << >> /\ Len(times) = 0
          BY <4>1 DEF MeterInv
        <5> QED
          BY <5>1, TelemetryAssumption
      <4> QED
        BY <1>2, <4>1, <4>2
    <3> QED
      BY <3>1, <3>2
  <2>5. CASE ~(Len(all) > SmoothWindow)
    <3>1. times' = all /\ Len(all) <= SmoothWindow
      <4>1. Len(all) \in Nat /\ SmoothWindow \in Nat
        BY <2>4, LenProperties, TelemetryAssumption
      <4> QED
        BY <2>3, <2>5, <4>1
    <3> QED
      BY <1>4, <1>6, <2>4, <3>1 DEF MeterInv
  <2>6. CASE Len(all) > SmoothWindow
    <3>1. PICK n \in Nat : n = Len(all) /\ n > SmoothWindow /\ n <= SmoothWindow + 1 /\ n > 0 /\ n - 1 <= SmoothWindow
      <4>1. PICK n \in Nat : n = Len(all)
        BY <2>4, LenProperties
      <4>2. n > SmoothWindow /\ n <= SmoothWindow + 1 /\ SmoothWindow \in Nat \ {0}
        BY <2>4, <2>6, <4>1, TelemetryAssumption
      <4> QED
        BY <4>1, <4>2
    <3>2. all # << >>
      BY <3>1
    <3>3. PICK pos : Reaches(pos, all, fs) /\ seen' > WarmupSteps
      BY <2>4, <3>2
    <3>4. all \in Seq(Int) /\ Reaches(pos, all, fs)
      BY <2>4, <3>3
    <3>5. Tail(all) \in Seq(Int) /\ Len(Tail(all)) = Len(all) - 1 /\ \E b : Reaches(b, Tail(all), fs)
      BY <3>2, <3>4, ReachesTail
    <3>6. times' = Tail(all)
      BY <2>3, <2>6
    <3>7. Len(times') <= SmoothWindow
      BY <3>1, <3>5, <3>6
    <3> QED
      BY <1>4, <1>6, <3>3, <3>5, <3>6, <3>7 DEF MeterInv
  <2> QED
    BY <2>5, <2>6
<1> QED
  BY <1>7, <1>8

(* One collection tells of no more than what grew since the one before.    *)
LEMMA CollectKeeps == ASSUME CounterInv, Collect, UNCHANGED <<bytes, grown>> PROVE CounterInv'
<1>1. PICK g \in Nat : g = Growth
  <2>1. bytes \in Nat /\ (prev # << >> => prev[1] \in Nat)
    BY DEF CounterInv
  <2>2. Growth \in Nat
    BY <2>1 DEF Growth
  <2> QED
    BY <2>2
<1>2. PICK s \in Seq(Int) : s = rates
  BY DEF CounterInv
<1>3. PICK total : total = FoldLeft(+, 0, s)
  OBVIOUS
<1>4. PICK more : more = FoldLeft(+, 0, Append(s, g))
  OBVIOUS
<1>5. total \in Int /\ more = total + g
  <2>1. g \in Int
    OBVIOUS
  <2>2. FoldLeft(+, 0, s) \in Int /\ FoldLeft(+, 0, Append(s, g)) = FoldLeft(+, 0, s) + g
    BY <2>1, SumAppend
  <2> QED
    BY <1>3, <1>4, <2>2
<1>6. rates' = Append(s, g) /\ prev' = <<bytes, clock>> /\ bytes' = bytes /\ grown' = grown
  BY <1>1, <1>2 DEF Collect, Prev
<1>7. total <= grown /\ (prev # << >> => total + (bytes - prev[1]) <= grown /\ prev[1] \in Nat)
  BY <1>2, <1>3 DEF CounterInv, SumOf
<1>8. bytes \in Nat /\ grown \in Nat
  BY DEF CounterInv
<1>9. more <= grown
  <2>1. CASE g = 0
    BY <1>5, <1>7, <1>8, <2>1
  <2>2. CASE g # 0
    <3>1. prev # << >> /\ g = bytes - prev[1]
      BY <1>1, <2>2 DEF Growth
    <3> QED
      BY <1>5, <1>7, <3>1
  <2> QED
    BY <2>1, <2>2
<1>10. prev'[1] = bytes /\ rates' \in Seq(Int)
  BY <1>2, <1>6, AppendProperties
<1>11. FoldLeft(+, 0, rates') = more
  BY <1>4, <1>6
<1>12. more + (bytes' - prev'[1]) <= grown'
  BY <1>5, <1>6, <1>8, <1>9, <1>10
<1>13. SumOf(rates') <= grown' /\ SumOf(rates') + (bytes' - prev'[1]) <= grown'
  <2>1. SumOf(rates') = more
    BY <1>11 DEF SumOf
  <2> QED
    BY <1>6, <1>9, <1>12, <2>1
<1> QED
  BY <1>6, <1>8, <1>10, <1>13 DEF CounterInv

(* Every step of the loop keeps both.                                      *)
LEMMA MeasuringKeeps ==
  ASSUME MeterInv, CounterInv, [TelemetryNext]_telemetryVars
  PROVE  MeterInv' /\ CounterInv'
<1>1. ASSUME UNCHANGED counterVars, UNCHANGED <<bytes, grown>> PROVE CounterInv'
  <2>1. rates' = rates /\ prev' = prev /\ bytes' = bytes /\ grown' = grown
    BY <1>1 DEF counterVars
  <2>2. SumOf(rates') = SumOf(rates)
    BY <2>1 DEF SumOf
  <2> QED
    BY <2>1, <2>2 DEF CounterInv
<1>2. ASSUME UNCHANGED meterVars, clock' \in Nat PROVE MeterInv'
  BY <1>2 DEF MeterInv, meterVars
<1>3. clock \in Nat
  BY DEF MeterInv
<1>4. ASSUME NEW k, TellChildren(k), UNCHANGED <<bytes, grown>> PROVE CounterInv'
  BY <1>1, <1>4, CollectKeeps DEF TellChildren
<1>5. CASE Pass
  <2>1. MeterInv'
    BY <1>2, <1>3, <1>5 DEF Pass
  <2>2. rates' = rates /\ prev' = prev /\ rates \in Seq(Int)
    BY <1>5 DEF Pass, counterVars, CounterInv
  <2>t. SumOf(rates') = SumOf(rates)
    BY <2>2 DEF SumOf
  <2>3. SumOf(rates) \in Int
    <3>1. PICK s \in Seq(Int) : s = rates
      BY DEF CounterInv
    <3>2. PICK r : SumsOf(r, s, Len(s)) /\ FoldLeft(+, 0, s) = r[Len(s)]
      BY SumRuns
    <3>3. PICK n \in Nat : n = Len(s)
      BY LenProperties
    <3>4. SumsOf(r, s, n)
      BY <3>2, <3>3
    <3>5. r \in [0 .. n -> Int] /\ n \in 0 .. n
      BY <3>4 DEF SumsOf
    <3>6. SumOf(rates) \in Int
      <4>1. SumOf(rates) = r[n]
        BY <3>1, <3>2, <3>3 DEF SumOf
      <4> QED
        BY <3>5, <4>1
    <3> QED
      BY <3>6
  <2>4. CASE \E n \in 0 .. 2 : bytes' = bytes + n /\ grown' = grown + n
    <3>1. PICK n \in 0 .. 2 : bytes' = bytes + n /\ grown' = grown + n
      BY <2>4
    <3>2. prev # << >> => prev[1] \in Nat /\ SumOf(rates) + (bytes - prev[1]) <= grown
      BY DEF CounterInv
    <3>3. bytes \in Nat /\ grown \in Nat /\ SumOf(rates) <= grown
      BY DEF CounterInv
    <3>4. prev # << >> => SumOf(rates) + (bytes' - prev[1]) <= grown'
      BY <2>3, <3>1, <3>2, <3>3
    <3>5. SumOf(rates) <= grown' /\ bytes' \in Nat /\ grown' \in Nat
      BY <2>3, <3>1, <3>3
    <3>6. SumOf(rates') <= grown' /\ (prev' # << >> => SumOf(rates') + (bytes' - prev'[1]) <= grown')
      BY <2>2, <2>t, <3>4, <3>5
    <3>7. rates' \in Seq(Int) /\ (prev' # << >> => prev'[1] \in Nat)
      BY <2>2, <3>2
    <3> QED
      BY <2>1, <3>5, <3>6, <3>7 DEF CounterInv
  <2>5. CASE bytes' = 0 /\ grown' = grown
    <3>2. prev # << >> => prev[1] \in Nat
      BY DEF CounterInv
    <3>3. grown \in Nat /\ SumOf(rates) <= grown
      BY DEF CounterInv
    <3>4. prev # << >> => SumOf(rates) + (0 - prev[1]) <= grown
      BY <2>3, <3>2, <3>3
    <3>6. SumOf(rates') <= grown' /\ (prev' # << >> => SumOf(rates') + (bytes' - prev'[1]) <= grown')
      BY <2>2, <2>t, <2>5, <3>3, <3>4
    <3>7. rates' \in Seq(Int) /\ (prev' # << >> => prev'[1] \in Nat) /\ bytes' \in Nat /\ grown' \in Nat
      BY <2>2, <2>5, <3>2, <3>3
    <3> QED
      BY <2>1, <3>6, <3>7 DEF CounterInv
  <2> QED
    BY <1>5, <2>1, <2>4, <2>5 DEF Pass
<1>6. CASE StartClock
  <2>1. CounterInv'
    BY <1>1, <1>6 DEF StartClock
  <2>2. times' = times /\ ends' = ends /\ seen' = seen /\ clock' = clock /\ lastT' = clock /\ paused' = paused + (clock - lastT)
    BY <1>6 DEF StartClock
  <2>3. clock - lastT \in Int /\ paused + (clock - lastT) \in Int /\ lastT' - paused' = lastT - paused
    BY <2>2 DEF MeterInv
  <2> QED
    BY <2>1, <2>2, <2>3 DEF MeterInv
<1>7. CASE SkipReport
  BY <1>2, <1>3, <1>4, <1>7 DEF SkipReport
<1>8. CASE EndReport
  BY <1>4, <1>8, MeterKeeps DEF EndReport
<1>9. CASE System
  BY <1>2, <1>3, <1>9, CollectKeeps DEF System
<1>10. CASE SystemTold
  BY <1>2, <1>3, <1>4, <1>10 DEF SystemTold
<1>11. CASE UNCHANGED telemetryVars
  BY <1>1, <1>2, <1>3, <1>11 DEF telemetryVars, meterVars, counterVars
<1> QED
  BY <1>5, <1>6, <1>7, <1>8, <1>9, <1>10, <1>11 DEF TelemetryNext

(* They say what is promised.                                              *)
LEMMA MeasuringSuffices == MeterInv /\ CounterInv => MeasuresTell
<1> SUFFICES ASSUME MeterInv, CounterInv PROVE MeasuresTell
  OBVIOUS
<1>1. RatesAddUp
  BY DEF CounterInv, SumOf, RatesAddUp
<1>2. SmoothedIsRecent
  <2> SUFFICES ASSUME times # << >>
               PROVE  Len(times) <= SmoothWindow
                      /\ \E i \in DOMAIN ends : i > WarmupSteps /\ FoldLeft(+, 0, times) = Last(ends) - ends[i]
    BY DEF SmoothedIsRecent
  <2>1. PICK pos : Reaches(pos, times, ends)
    BY DEF MeterInv
  <2>2. times \in Seq(Int) /\ ends \in Seq(Int) /\ Len(times) <= SmoothWindow
    BY DEF MeterInv
  <2>3. FoldLeft(+, 0, times) = ends[Len(ends)] - ends[pos[0]]
    BY <2>1, <2>2, ReachedSum
  <2>4. PICK n \in Nat, m \in Nat : n = Len(times) /\ m = Len(ends) /\ DOMAIN ends = 1 .. m
    BY <2>2, LenProperties
  <2>5. pos \in [0 .. n -> 1 .. m] /\ pos[0] > WarmupSteps
    <3>1. 0 \in 0 .. n
      OBVIOUS
    <3> QED
      BY <2>1, <2>4, <3>1 DEF Reaches
  <2>6. pos[0] \in DOMAIN ends
    <3>1. 0 \in 0 .. n
      OBVIOUS
    <3> QED
      BY <2>4, <2>5, <3>1
  <2> QED
    BY <2>2, <2>3, <2>5, <2>6 DEF Last
<1> QED
  BY <1>1, <1>2 DEF MeasuresTell

(* The smoothed step time is that of the steps that just ended, with no    *)
(* gap but the time between epochs and without those of the warm-up        *)
(* (throughput.py:85-104), and two collectors that share a counter tell of *)
(* no growth twice (system_stats.py:109-123): for any windows, clocks,     *)
(* loggers and resets of the counter.                                      *)
THEOREM MeasuresAlwaysTell == TrainingSpec => []MeasuresTell
<1>1. TrainingInit => MeterInv /\ CounterInv
  BY MeasuringStarts DEF TrainingInit
<1>2. MeterInv /\ CounterInv /\ [TrainingNext]_trainingVars => MeterInv' /\ CounterInv'
  <2> SUFFICES ASSUME MeterInv, CounterInv, [TrainingNext]_trainingVars PROVE MeterInv' /\ CounterInv'
    OBVIOUS
  <2>1. [TelemetryNext]_telemetryVars
    BY DEF TrainingNext, trainingVars
  <2> QED
    BY <2>1, MeasuringKeeps
<1> QED
  BY <1>1, <1>2, MeasuringSuffices, PTL DEF TrainingSpec

=============================================================================
