---------------------------- MODULE MetricLogger -----------------------------
(* MLflowLogger behind MultiLogger: the trainer appends each batch of metrics *)
(* to training.log and to a bounded queue, a worker thread writes the queue   *)
(* to the tracking store.  Neither may hold up the other.  Every access to    *)
(* the queue is a step: the two threads interleave between any two of them.   *)
EXTENDS Integers, Sequences, FiniteSets, SequencesExt

CONSTANTS QueueMax,        \* _QUEUE_MAXSIZE
          ArtifactsEvery,  \* self._artifacts_every
          MaxStep          \* bound: the last step the trainer logs

ASSUME LoggerAssumption == QueueMax \in Nat \ {0} /\ ArtifactsEvery \in Nat \ {0} /\ MaxStep \in Nat

Steps == 1..MaxStep
Never == -1

VARIABLES
    available,  \* self._available
    trainer,    \* where the trainer thread is
    logged,     \* the last step given to log
    queue,      \* self._queue: steps, the oldest first
    worker,     \* where the worker thread is
    taken,      \* the batch the worker holds
    stop,       \* self._stop
    dropped,    \* self._dropped
    written,    \* the steps of the store, in the order they were written
    failed,     \* steps whose write raised
    lines,      \* steps in training.log
    uploaded,   \* last_uploaded_step
    artifact    \* the training.log the store has
loggerVars == <<available, trainer, logged, queue, worker, taken, stop, dropped,
                written, failed, lines, uploaded, artifact>>
workerVars == <<worker, taken, written, failed, uploaded>>
trainerVars == <<available, trainer, logged, stop, dropped, lines>>

\* On other ranks, without mlflow, or where the store cannot be opened, the
\* constructor returns before it starts the worker.
LoggerInit ==
    /\ available \in BOOLEAN
    /\ trainer = "train" /\ logged = 0 /\ stop = FALSE /\ dropped = 0 /\ lines = {}
    /\ queue = <<>> /\ taken = Never
    /\ worker = IF available THEN "wait" ELSE "ended"
    /\ written = <<>> /\ failed = {} /\ uploaded = Never /\ artifact = {}

----------------------------------------------------------------------------
(* The trainer thread.                                                       *)

\* A line that cannot be appended is given up; put_nowait comes after it.
Log ==
    /\ trainer = "train" /\ logged < MaxStep /\ logged' = logged + 1
    /\ IF ~available
       THEN UNCHANGED <<trainer, queue, dropped, lines>>
       ELSE /\ lines' \in {lines, lines \cup {logged'}}
            /\ IF Len(queue) < QueueMax
               THEN queue' = Append(queue, logged') /\ UNCHANGED <<trainer, dropped>>
               ELSE trainer' = "drain" /\ dropped' = dropped + 1 /\ UNCHANGED queue
    /\ UNCHANGED <<available, stop, artifact, workerVars>>

\* The oldest batch makes room; the worker may have emptied the queue.
FaultyOldestDropped == queue
OldestDropped == IF queue = <<>> THEN queue ELSE Tail(queue)
Drain ==
    /\ trainer = "drain" /\ trainer' = "put"
    /\ queue' = OldestDropped
    /\ UNCHANGED <<available, logged, stop, dropped, lines, artifact, workerVars>>

PutAgain ==
    /\ trainer = "put" /\ trainer' = "train"
    /\ queue' = IF Len(queue) < QueueMax THEN Append(queue, logged) ELSE queue
    /\ UNCHANGED <<available, logged, stop, dropped, lines, artifact, workerVars>>

\* finish: the flag is set, the worker is waited for at most ten seconds.
FinishLogger ==
    /\ trainer = "train" /\ logged = MaxStep
    /\ trainer' = IF available THEN "join" ELSE "end"
    /\ stop' = available
    /\ UNCHANGED <<available, logged, queue, dropped, lines, artifact, workerVars>>

\* Joined or timed out, the log is pushed a last time, if the store lets it.
Join ==
    /\ trainer = "join" /\ trainer' = "end"
    /\ artifact' \in {artifact, lines}
    /\ UNCHANGED <<available, logged, queue, stop, dropped, lines, workerVars>>

----------------------------------------------------------------------------
(* The worker thread.                                                        *)

Take ==
    /\ worker = "wait" /\ queue /= <<>>
    /\ taken' = Head(queue) /\ queue' = Tail(queue)
    /\ worker' = "write"
    /\ UNCHANGED <<trainerVars, artifact, written, failed, uploaded>>

\* A batch without a single number is taken for written.
Write ==
    /\ worker = "write" /\ worker' = "upload"
    /\ written' = Append(written, taken)
    /\ UNCHANGED <<trainerVars, artifact, queue, taken, failed, uploaded>>

\* The store raises: the worker sleeps, and goes on with the next batch.
FaultyAfterFailure == Append(queue, taken)
AfterFailure == queue
WriteRaises ==
    /\ worker = "write" /\ worker' = "wait"
    /\ failed' = failed \cup {taken} /\ taken' = Never
    /\ queue' = AfterFailure
    /\ UNCHANGED <<trainerVars, artifact, written, uploaded>>

Due == taken \div ArtifactsEvery /= uploaded \div ArtifactsEvery
Upload ==
    /\ worker = "upload" /\ worker' = "wait" /\ taken' = Never
    /\ IF Due
       THEN uploaded' = taken /\ artifact' \in {artifact, lines}
       ELSE UNCHANGED <<uploaded, artifact>>
    /\ UNCHANGED <<trainerVars, queue, written, failed>>

FaultyMayEnd == stop
MayEnd == stop /\ queue = <<>>
WorkerEnds ==
    /\ worker = "wait" /\ MayEnd
    /\ worker' = "ended"
    /\ UNCHANGED <<trainerVars, artifact, queue, taken, written, failed, uploaded>>

TrainerStep == Log \/ Drain \/ PutAgain \/ FinishLogger \/ Join
WorkerStep == Take \/ Write \/ WriteRaises \/ Upload \/ WorkerEnds
LoggerEnd == trainer = "end" /\ worker = "ended" /\ UNCHANGED loggerVars
LoggerNext == TrainerStep \/ WorkerStep \/ LoggerEnd

\* Both threads run; a step of either ends, if need be with a timeout.
LoggerFairness == WF_loggerVars(TrainerStep) /\ WF_loggerVars(WorkerStep)

----------------------------------------------------------------------------
\* The store receives the batches in the order they were logged, each once,
\* and the newest is never the one that is given up: a full queue costs its
\* oldest entry ("newest data is most useful"), also when the worker empties
\* it between the failed put and the next.
Waiting == (IF worker = "ended" THEN {} ELSE Range(queue)) \cup (IF worker \in {"write", "upload"} THEN {taken} ELSE {})
InOrder(s) == \A i, j \in DOMAIN s : i < j => s[i] < s[j]
StoreInOrder ==
    /\ InOrder(written) /\ InOrder(queue)
    /\ available /\ trainer = "train" /\ logged > 0 =>
          logged \in Waiting \cup Range(written) \cup failed

\* No batch is lost without trace: what is neither stored, waiting nor refused
\* by the store was counted as dropped.
Lost == (1..logged) \ (Waiting \cup Range(written) \cup failed)
LossesCounted == available /\ trainer \notin {"drain", "put"} => Cardinality(Lost) <= dropped

\* The worker thread ends once finish has been called, whatever the store does.
WorkerStops == stop ~> worker = "ended"
=============================================================================
