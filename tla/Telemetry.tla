----------------------------- MODULE Telemetry ------------------------------
(* What the training loop measures: the loggers build_logger finds, the       *)
(* ThroughputTracker and the rates system_stats makes of cumulative counters. *)
(* Every optimizer step may report twice, and a WandbLogger collects the      *)
(* counters again while it is told.                                           *)
EXTENDS Integers, Sequences, FiniteSets, SequencesExt

CONSTANTS TrackerSettings,  \* values of logging.tracker, as sequences of words
          Unavailable,      \* sets of backends whose constructor raises
          SystemEvery,      \* monitoring: system metrics every so many steps
          GpuEvery,         \* logging.log_gpu_every_n_steps
          SmoothWindow, WarmupSteps,
          MaxClock, MaxReports   \* bounds

ASSUME TelemetryAssumption ==
    /\ SystemEvery \in Nat \ {0} /\ GpuEvery \in Nat \ {0}
    /\ SmoothWindow \in Nat \ {0} /\ WarmupSteps \in Nat
    /\ MaxClock \in Nat /\ MaxReports \in Nat

VARIABLES
    children,             \* the loggers of MultiLogger
    doing,                \* what the loop does
    clock, bytes, grown,  \* the time, a counter of the system, its growth
    optSteps,             \* steps of the optimizer
    seen, lastT, times,   \* _steps_seen, _last_t, _step_times
    paused, ends,         \* history: time between epochs, and the start and the end
                          \* of each optimizer step in the time of the epochs
    prev,                 \* _PREV, as <<value, time>> or <<>>
    rates                 \* the growth that rates have told of, each time
counterVars == <<prev, rates>>
meterVars == <<seen, lastT, times, paused, ends>>
telemetryVars == <<children, doing, clock, bytes, grown, optSteps, meterVars, counterVars>>

Off == {"", "none", "off", "false"}
Backends == {"ray", "wandb", "mlflow"}

\* _normalize_trackers: each known word once, in its order.
Trackers(setting) ==
    FoldLeft(LAMBDA kept, w : IF w \in Off \cup ToSet(kept) THEN kept ELSE Append(kept, w), <<>>, setting)
Refused(setting) == \E w \in ToSet(setting) : w \notin Off \cup Backends

\* The dashboard adds ray; ranks other than 0 have no other backend.
Built(setting, dashboard, rank, broken) ==
    LET asked == ToSet(Trackers(setting)) \cup (IF dashboard THEN {"ray"} ELSE {})
        mine == IF rank = 0 THEN Backends ELSE {"ray"}
    IN SelectSeq(<<"ray", "wandb", "mlflow">>, LAMBDA b : b \in (asked \cap mine) \ broken)

TelemetryInit ==
    /\ \E setting \in TrackerSettings, dashboard \in BOOLEAN, rank \in 0..1, broken \in Unavailable :
          IF Refused(setting) THEN children = <<>> /\ doing = "raised"
          ELSE children = Built(setting, dashboard, rank, broken) /\ doing = "window"
    /\ clock = 0 /\ bytes = 0 /\ grown = 0 /\ optSteps = 0
    /\ seen = 0 /\ lastT = 0 /\ times = <<>> /\ paused = 0 /\ ends = <<0>>
    /\ prev = <<>> /\ rates = <<>>

----------------------------------------------------------------------------
\* Time passes and the counter grows; a device that is reset starts it anew.
Pass ==
    /\ doing # "raised" /\ clock < MaxClock /\ clock' = clock + 1
    /\ \/ \E n \in 0..2 : bytes' = bytes + n /\ grown' = grown + n
       \/ bytes' = 0 /\ UNCHANGED grown
    /\ UNCHANGED <<children, doing, optSteps, meterVars, counterVars>>

\* ThroughputTracker.step.  Two calls at one time give no interval; those of
\* the first steps are not averaged.
FaultyAveraged(dt) == IF seen' >= WarmupSteps THEN Append(times, dt) ELSE times
Averaged(dt) == IF seen' > WarmupSteps THEN Append(times, dt) ELSE times
Meter ==
    /\ seen' = seen + 1 /\ lastT' = clock
    /\ ends' = Append(ends, clock - paused) /\ UNCHANGED paused
    /\ times' = IF clock = lastT THEN times
                ELSE LET all == Averaged(clock - lastT)
                     IN IF Len(all) > SmoothWindow THEN Tail(all) ELSE all

\* reset_step_clock, when an epoch begins: what came between is no step's time.
FaultyStartClock ==
    /\ doing = "window" /\ lastT # clock
    /\ paused' = paused + (clock - lastT) /\ UNCHANGED lastT
    /\ UNCHANGED <<children, doing, clock, bytes, grown, optSteps, seen, times, ends, counterVars>>
StartClock ==
    /\ doing = "window" /\ lastT # clock
    /\ paused' = paused + (clock - lastT) /\ lastT' = clock
    /\ UNCHANGED <<children, doing, clock, bytes, grown, optSteps, seen, times, ends, counterVars>>

\* _rate: each collection tells of the growth since the one before it, be it
\* of the loop or of a WandbLogger; a reset, or no time between, drops it.
FaultyPrev == IF prev = <<>> THEN <<bytes, clock>> ELSE prev
Prev == <<bytes, clock>>
Growth == IF prev = <<>> \/ prev[2] = clock \/ bytes < prev[1] THEN 0 ELSE bytes - prev[1]
Collect == prev' = Prev /\ rates' = Append(rates, Growth)

WandbCollects(step) == "wandb" \in ToSet(children) /\ step % GpuEvery = 0
TellChildren(step) == IF WandbCollects(step) THEN Collect ELSE UNCHANGED counterVars

\* A gradient norm that is not finite: the step is reported and skipped, its
\* time stays with the step that follows.
SkipReport ==
    /\ doing = "window" /\ Len(rates) < MaxReports
    /\ TellChildren(optSteps)
    /\ UNCHANGED <<children, doing, clock, bytes, grown, optSteps, meterVars>>

EndReport ==
    /\ doing = "window" /\ Len(rates) < MaxReports /\ optSteps < MaxReports
    /\ optSteps' = optSteps + 1 /\ Meter /\ TellChildren(optSteps')
    /\ doing' = IF children # <<>> /\ optSteps' % SystemEvery = 0 THEN "system" ELSE doing
    /\ UNCHANGED <<children, clock, bytes, grown>>

\* The loop collects and tells; a WandbLogger collects once more.
System ==
    /\ doing = "system" /\ doing' = "told" /\ Collect
    /\ UNCHANGED <<children, clock, bytes, grown, optSteps, meterVars>>
SystemTold ==
    /\ doing = "told" /\ doing' = "window" /\ TellChildren(optSteps)
    /\ UNCHANGED <<children, clock, bytes, grown, optSteps, meterVars>>

TelemetryNext == Pass \/ StartClock \/ SkipReport \/ EndReport \/ System \/ SystemTold

----------------------------------------------------------------------------
\* The smoothed step time is that of the steps that just ended
\* (throughput.py:85-104): the averaged intervals reach back from the last
\* end to an earlier one with no gap but the time between epochs, and not into
\* the first WarmupSteps steps.
SmoothedIsRecent ==
    times # <<>> =>
      /\ Len(times) <= SmoothWindow
      /\ \E i \in DOMAIN ends :
           i > WarmupSteps /\ FoldLeft(+, 0, times) = Last(ends) - ends[i]

\* Two collectors share the state of the rates (system_stats.py:109-123): what
\* both tell of together was counted only once.
RatesAddUp == FoldLeft(+, 0, rates) <= grown

=============================================================================
