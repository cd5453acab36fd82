---------------------------- MODULE LaunchConfig ----------------------------
(***************************************************************************)
(* From a YAML file to the workers: bhaskera-train (launcher/train.py)     *)
(* loads the configuration (config.py), applies the command line, starts   *)
(* or joins a Ray cluster, counts the GPUs, partitions the data set and    *)
(* sends the configuration as a dictionary to every worker, which parses   *)
(* it again; a worker that fails is started again with the same dictionary.*)
(*                                                                         *)
(* A file is abstracted to the form each section and each value has.  The  *)
(* sections are the code's; of its more than a hundred fields there is one *)
(* for each way of reading a value in each group of sections.              *)
(*                                                                         *)
(* Forms of a value: "absent", "null", "false" (no, 0), "value" (of the    *)
(* field's own type), "word" (a non-empty string).  Forms of a section: it *)
(* is absent, null, "false" (no, 0, an empty string or list), another      *)
(* scalar or a mapping.                                                    *)
(* Bounds: Files, CommandLines and Clusters.                               *)
(***************************************************************************)
EXTENDS Integers, Sequences, TLC

CONSTANTS Files,         \* records [sections, values], see Parsed
          CommandLines,  \* records [noDashboard, port, workers, failures]
          Clusters       \* records [address, nodes, perNode, local]

VARIABLES file, arguments, cluster,   \* what main() was called with
          phase,                      \* the next step, "trained" or why it failed
          config,                     \* the driver's configuration
          received,                   \* the worker's configuration
          world, partitions,          \* number of workers, blocks of the data set
          restarts                    \* failures of workers so far

launchVars == <<file, arguments, cluster, phase, config, received, world, partitions, restarts>>

Sections == {"model", "data", "lora", "moe", "training", "distributed", "fsdp", "ddp", "checkpoint",
             "logging", "inference", "turboquant", "speculative", "colossus", "monitoring", "metrics"}
SectionForms == {"absent", "null", "false", "scalar", "map"}
ValueForms == {"absent", "null", "false", "value", "word"}
PathOf(s) ==
  CASE s \in {"fsdp", "ddp"} -> <<"training", "distributed", s>>
    [] s = "distributed" -> <<"training", s>>
    [] s \in {"turboquant", "speculative", "colossus"} -> <<"inference", s>>
    [] s = "metrics" -> <<"monitoring", s>>
    [] OTHER -> <<s>>

(* How each field is read, and what stands for it when it is absent. *)
Field(s, kind, default) == [section |-> s, kind |-> kind, default |-> default]
ModelSchema ==
  [attnImpl |-> Field("model", "plain", "null"),  liger |-> Field("model", "flag", "true"),
   lora |-> Field("lora", "flag", "false"),       targets |-> Field("lora", "list", "value"),
   auxWeight |-> Field("moe", "number", "value")]
ServeSchema ==
  [keyBits |-> Field("turboquant", "number", "value"), draft |-> Field("speculative", "text", "value"),
   placement |-> Field("colossus", "text", "value"),   kvCache |-> Field("inference", "text", "value")]
TrainSchema ==
  [dataName |-> Field("data", "plain", "value"),        seqLen |-> Field("data", "number", "value"),
   formatOptions |-> Field("data", "mapping", "empty"), layerCls |-> Field("fsdp", "list", "empty"),
   shardExperts |-> Field("fsdp", "flag", "true"),      staticGraph |-> Field("ddp", "flag", "false"),
   strategy |-> Field("distributed", "text", "value"),  gradClip |-> Field("training", "plain", "value"),
   maxSteps |-> Field("training", "number", "value"),   saveDir |-> Field("checkpoint", "text", "value")]
WatchSchema ==
  [tracker |-> Field("logging", "plain", "null"),      tags |-> Field("logging", "lenient", "empty"),
   dashboard |-> Field("monitoring", "flag", "true"),  port |-> Field("monitoring", "number", "value"),
   window |-> Field("metrics", "number", "value")]
Schemas == {ModelSchema, ServeSchema, TrainSchema, WatchSchema}
Fields == UNION {DOMAIN s : s \in Schemas}
Schema == [x \in Fields |-> (CHOOSE s \in Schemas : x \in DOMAIN s)[x]]

ASSUME LaunchAssumption ==
  /\ Files \subseteq [sections : [Sections -> SectionForms], values : [Fields -> ValueForms]]
  /\ CommandLines \subseteq [noDashboard : BOOLEAN, port : Nat, workers : Nat, failures : Nat]
  /\ Clusters \subseteq [address : {"none", "slurm", "connected"}, nodes : Nat, perNode : Nat, local : Nat]

(* _get and the "or {}" behind it: a section that is missing, null, false  *)
(* or under something that is no mapping reads as empty; any other scalar  *)
(* stays one.                                                              *)
SectionForm(f, s) ==
  LET path == PathOf(s)
      above == {f.sections[path[k]] : k \in 1 .. Len(path) - 1}
  IN  IF above \subseteq {"map"} THEN f.sections[s] ELSE "absent"
Form(f, x) == IF SectionForm(f, Schema[x].section) = "map" THEN f.values[x] ELSE "absent"

(* int(), bool(), str(), list() and dict() over a form; "raises" ends the  *)
(* program, "letters" is the list of the characters of a string.           *)
Converted(kind, form) ==
  CASE kind = "plain" -> form
    [] kind = "text" -> IF form = "null" THEN "None" ELSE form
    [] kind = "number" -> IF form \in {"null", "word", "None"} THEN "raises" ELSE form
    [] kind = "flag" -> IF form \in {"null", "false", "empty"} THEN "false" ELSE "true"
    [] kind = "list" -> IF form \in {"null", "false"} THEN "raises" ELSE IF form = "word" THEN "letters" ELSE form
    [] kind = "mapping" -> IF form \in {"null", "false"} THEN "empty" ELSE IF form = "word" THEN "raises" ELSE form
    [] kind = "lenient" -> IF form \in {"null", "false"} THEN "empty" ELSE IF form = "word" THEN "letters" ELSE form

Read(f, x) ==
  IF Form(f, x) = "absent" THEN Schema[x].default ELSE Converted(Schema[x].kind, Form(f, x))

(* _dict_to_config. *)
Parsed(f) == [x \in Fields |-> Read(f, x)]
Fails(f) == (\E s \in Sections : SectionForm(f, s) = "scalar") \/ (\E x \in Fields : Read(f, x) = "raises")

(* Config.as_dict: every section is there, nested like the dataclasses. *)
FaultyAsDict(c) == [sections |-> [s \in Sections |-> IF s = "ddp" THEN "absent" ELSE "map"], values |-> c]
AsDict(c) == [sections |-> [s \in Sections |-> "map"], values |-> c]

LaunchInit ==
  /\ file \in Files /\ arguments \in CommandLines /\ cluster \in Clusters
  /\ phase = "load"
  /\ config = <<>> /\ received = <<>>
  /\ world = 0 /\ partitions = 0 /\ restarts = 0

(* load_config, then the options of the command line. *)
FaultyOverridden(c) == c
Overridden(c) ==
  [c EXCEPT !.dashboard = IF arguments.noDashboard THEN "false" ELSE @,
            !.port = IF arguments.port # 0 THEN "fromCommandLine" ELSE @]
LoadFile ==
  /\ phase = "load"
  /\ ~Fails(file)
  /\ config' = Overridden(Parsed(file))
  /\ phase' = "ray"
  /\ UNCHANGED <<file, arguments, cluster, received, world, partitions, restarts>>

BadFile ==
  /\ phase = "load"
  /\ Fails(file)
  /\ phase' = "badFile"
  /\ UNCHANGED <<file, arguments, cluster, config, received, world, partitions, restarts>>

(* _count_gpus: what SLURM gives the job, otherwise what this host sees. *)
FaultyGpus == cluster.local
Gpus == IF cluster.nodes > 0 /\ cluster.perNode > 0 THEN cluster.nodes * cluster.perNode ELSE cluster.local

(* _init_ray counts only for a cluster it starts itself, not for one that  *)
(* SLURM names or that the process is connected to; main counts unless the *)
(* command line gives a number, for which 0 does not count.                *)
Counts == cluster.address = "none" \/ arguments.workers = 0
Workers == IF arguments.workers # 0 THEN arguments.workers ELSE Gpus

NoGpus ==
  /\ phase = "ray"
  /\ Counts /\ Gpus = 0
  /\ phase' = "noGpus"
  /\ UNCHANGED <<file, arguments, cluster, config, received, world, partitions, restarts>>

InitRay ==
  /\ phase = "ray"
  /\ ~(Counts /\ Gpus = 0)
  /\ world' = Workers
  /\ phase' = "dataset"
  /\ UNCHANGED <<file, arguments, cluster, config, received, partitions, restarts>>

(* _compute_num_partitions: 16 or four a worker or reader, rounded up to a *)
(* multiple of the number of workers.                                      *)
Largest(a, b) == IF a > b THEN a ELSE b
FaultyRoundedUp(base, w) == (base \div w) * w
RoundedUp(base, w) == ((base + w - 1) \div w) * w
NumPartitions(w, readers) == RoundedUp(Largest(Largest(w * 4, readers * 4), 16), w)

LoadTokenized ==
  /\ phase = "dataset"
  /\ \E readers \in {1, 5} : partitions' = NumPartitions(world, readers)
  /\ phase' = "workers"
  /\ UNCHANGED <<file, arguments, cluster, config, received, world, restarts>>

(* worker_fn parses the dictionary the driver made. *)
StartWorkers ==
  /\ phase = "workers"
  /\ received' = Parsed(AsDict(config))
  /\ phase' = "training"
  /\ UNCHANGED <<file, arguments, cluster, config, world, partitions, restarts>>

WorkerFails ==
  /\ phase = "training"
  /\ IF restarts < arguments.failures
     THEN restarts' = restarts + 1 /\ phase' = "workers"
     ELSE restarts' = restarts /\ phase' = "gaveUp"
  /\ UNCHANGED <<file, arguments, cluster, config, received, world, partitions>>

FitReturns ==
  /\ phase = "training"
  /\ phase' = "trained"
  /\ UNCHANGED <<file, arguments, cluster, config, received, world, partitions, restarts>>

LaunchNext ==
  \/ LoadFile \/ BadFile \/ NoGpus \/ InitRay \/ LoadTokenized \/ StartWorkers \/ WorkerFails \/ FitReturns

-----------------------------------------------------------------------------
(* Every worker, restarted or not, runs with the configuration of the      *)
(* driver, command line included, and not with what the file says: parsing *)
(* a dumped configuration gives the configuration back.                    *)
WorkersRunTheDriversConfig ==
  received # <<>> =>
     /\ received = config
     /\ arguments.noDashboard => received.dashboard = "false"
     /\ \A x \in Fields : received[x] = Read(file, x) \/ x \in {"dashboard", "port"}

(* A section the file leaves out, empties, denies or hides under such one  *)
(* reads as if nothing had been said about it.                             *)
SilenceMeansDefault ==
  config # <<>> =>
     \A x \in Fields \ {"dashboard", "port"} :
        SectionForm(file, Schema[x].section) # "map" => config[x] = Schema[x].default

(* Every worker gets the same number of blocks, four at least, and under   *)
(* SLURM there is a worker for every GPU of the job.                       *)
EveryWorkerGetsBlocks ==
  /\ partitions # 0 => partitions % world = 0 /\ partitions >= 16 /\ partitions >= 4 * world
  /\ world # 0 /\ arguments.workers = 0 /\ cluster.nodes > 0 /\ cluster.perNode > 0 => world = cluster.nodes * cluster.perNode
=============================================================================
