----------------------------- MODULE MCTraining ------------------------------
(* The training loop of two ranks; the logger the first of them writes to,    *)
(* which is decoupled from the loop by its queue; and what the loop measures. *)
(* A behaviour exercises one of the three.                                    *)
EXTENDS TrainLoop, MetricLogger, Telemetry

VARIABLE part   \* the one that runs
trainingVars == <<part, loopVars, loggerVars, telemetryVars>>

MCTrackers == {<<>>, <<"none">>, <<"wandb", "mlflow", "wandb">>, <<"mlflow">>, <<"neptune">>}
MCUnavailable == {{"ray"}, {"ray", "wandb"}}

Idle == [loop |-> wrapper = "ddp" /\ resumed = 0 /\ \A n \in ShardSizes : shard <= n,
         logger |-> available,
         telemetry |-> doing = "raised"]

TrainingInit ==
    /\ part \in {"loop", "logger", "telemetry"}
    /\ LoopInit /\ LoggerInit /\ TelemetryInit
    /\ \A p \in DOMAIN Idle : p # part => Idle[p]

TrainingNext ==
    \/ part = "loop" /\ LoopNext /\ UNCHANGED <<part, loggerVars, telemetryVars>>
    \/ part = "logger" /\ LoggerNext /\ UNCHANGED <<part, loopVars, telemetryVars>>
    \/ part = "telemetry" /\ TelemetryNext /\ UNCHANGED <<part, loopVars, loggerVars>>

TrainingSpec ==
    /\ TrainingInit /\ [][TrainingNext]_trainingVars
    /\ part = "loop" => LoopFairness
    /\ part = "logger" => LoggerFairness

\* The tracking store has what was logged, in order, but for the counted losses.
StoreTellsAll == StoreInOrder /\ LossesCounted
\* What is measured is recent, and counted once.
MeasuresTell == SmoothedIsRecent /\ RatesAddUp
\* The loop ends on all ranks, and finish ends the logger's worker.
BothEnd == (part = "loop" => TrainingEnds) /\ (part = "logger" => WorkerStops)
=============================================================================
