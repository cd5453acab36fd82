----------------------------- MODULE TrainSetup -----------------------------
(***************************************************************************)
(* How a training worker prepares its model (launcher/worker.py): load it, *)
(* read its profile, attach LoRA adapters, shard it or wrap it for DDP,    *)
(* install activation checkpointing, and hand the parameters that train to *)
(* the optimizer.  The ranks do this independently of each other on the    *)
(* same configuration, so one worker is modelled.                          *)
(*                                                                         *)
(* Bounds: Jobs, the records of a model, its configuration and the         *)
(* settings.                                                               *)
(***************************************************************************)
EXTENDS ModelProfile

CONSTANTS Jobs,          \* records [tree, config, set]
          PeftDefaults   \* what PEFT adapts when no targets are given

VARIABLES job,         \* what this worker was started with
          stage,       \* the next step of worker_fn, "done", or why it failed
          profile,     \* the ModelProfile
          adapters,    \* modules with a LoRA adapter
          adapterType, \* dtype of each adapter
          trainable,   \* parameters with requires_grad, pairs of module and part
          shards,      \* modules given to fully_shard, in order
          recomputed,  \* modules with activation checkpointing
          ddp          \* the flags DDP was built with

setupVars == <<job, stage, profile, adapters, adapterType, trainable, shards, recomputed, ddp>>

NoFlags == [findUnused |-> FALSE, staticGraph |-> FALSE]
Weights == {i \in Modules(job.tree) : job.tree[i].kind = "linear"}
Has(list, i) == \E k \in DOMAIN list : list[k] = i

(* Linear names inside the first expert of the profile. *)
ExpertLinears ==
  IF profile.experts = <<>> THEN {}
  ELSE {job.tree[i].name : i \in Within(job.tree, profile.experts[1]) \cap Weights}

SetupInit ==
  /\ job \in Jobs
  /\ stage = "load"
  /\ profile = [isMoe |-> FALSE]
  /\ adapters = {} /\ adapterType = <<>>
  /\ trainable = {} /\ shards = <<>> /\ recomputed = {} /\ ddp = NoFlags

(* build_model: load in the configured dtype and read the profile, whose   *)
(* dtype an explicit setting replaces.                                     *)
LoadType == IF job.set.dtype = "auto" THEN (IF job.config.dtype = "none" THEN job.config.stored ELSE job.config.dtype) ELSE job.set.dtype
LoadModel ==
  /\ stage = "load"
  /\ profile' = [Introspect(job.tree, job.config) EXCEPT !.dtype = IF job.set.dtype = "auto" THEN @ ELSE job.set.dtype]
  /\ trainable' = {<<i, "base">> : i \in Weights}
  /\ stage' = IF job.set.lora THEN "lora" ELSE "wrap"
  /\ UNCHANGED <<job, adapters, adapterType, shards, recomputed, ddp>>

(* apply_lora: the names to adapt; automatic ones are never extended. *)
TargetNames ==
  IF job.set.targets = "auto"
  THEN IF profile.loraTargets = {} THEN PeftDefaults ELSE profile.loraTargets
  ELSE job.set.names \cup (IF profile.isMoe /\ job.set.includeExperts THEN ExpertLinears ELSE {})

Matched == {i \in Modules(job.tree) : job.tree[i].name \in TargetNames}

(* PEFT refuses targets that match nothing or something it cannot adapt.   *)
NothingToAdapt ==
  /\ stage = "lora"
  /\ Matched = {} \/ ~(Matched \subseteq Weights)
  /\ stage' = "noTargets"
  /\ UNCHANGED <<job, profile, adapters, adapterType, trainable, shards, recomputed, ddp>>

(* get_peft_model freezes the base and adds adapters in single precision.  *)
AttachAdapters ==
  /\ stage = "lora"
  /\ Matched # {} /\ Matched \subseteq Weights
  /\ adapters' = Matched
  /\ adapterType' = [i \in Matched |-> "float32"]
  /\ trainable' = {<<i, "lora">> : i \in Matched}
  /\ stage' = "cast"
  /\ UNCHANGED <<job, profile, shards, recomputed, ddp>>

(* FSDP2 needs one dtype per shard group: adapters take the model's. *)
FaultyTypeOf(i) == adapterType[i]
TypeOf(i) == IF <<i, "lora">> \in trainable THEN profile.dtype ELSE adapterType[i]
CastAdapters ==
  /\ stage = "cast"
  /\ adapterType' = IF job.set.strategy = "fsdp" THEN [i \in adapters |-> TypeOf(i)] ELSE adapterType
  /\ stage' = "freeze"
  /\ UNCHANGED <<job, profile, adapters, trainable, shards, recomputed, ddp>>

(* _freeze_router_weights: parameters of a router, and every one whose     *)
(* dotted name holds a router keyword anywhere.                            *)
IsRouterParameter(i) == \E j \in Above(job.tree)[i] : j \in profile.routers \/ job.tree[j].name \in GateNames
FreezeRouters ==
  /\ stage = "freeze"
  /\ trainable' = IF profile.isMoe /\ job.set.freezeRouter THEN {p \in trainable : ~IsRouterParameter(p[1])} ELSE trainable
  /\ stage' = "wrap"
  /\ UNCHANGED <<job, profile, adapters, adapterType, shards, recomputed, ddp>>

(* apply_activation_checkpointing: the experts of an MoE model, otherwise  *)
(* the decoder layers.  The older API goes by the class of the experts.    *)
OfClass(cls) == {i \in Modules(job.tree) : job.tree[i].cls = cls}
Recomputed(decoder) ==
  LET experts == {profile.experts[k] : k \in DOMAIN profile.experts}
  IN  IF job.set.composable
      THEN IF profile.isMoe /\ experts # {} THEN experts ELSE OfClass(decoder)
      ELSE IF profile.isMoe /\ profile.expertCls # "none" THEN OfClass(profile.expertCls) ELSE OfClass(decoder)

(* wrap_fsdp2: experts, then decoder layers, then the root; sharding a     *)
(* module twice raises.                                                    *)
LayerClass == IF job.set.layerCls # "none" /\ OfClass(job.set.layerCls) # {} THEN job.set.layerCls ELSE profile.decoderCls
FaultyLayers(cls) == {1} \cup OfClass(cls)
Layers(cls) == OfClass(cls)
ShardOrder ==
  (IF profile.isMoe /\ job.set.shardExperts THEN profile.experts ELSE <<>>)
     \o InOrder(Layers(LayerClass)) \o <<1>>
ShardedTwice == Cardinality({ShardOrder[k] : k \in DOMAIN ShardOrder}) # Len(ShardOrder)
WrapFsdp ==
  /\ stage = "wrap"
  /\ job.set.strategy = "fsdp"
  /\ ~ShardedTwice
  /\ shards' = ShardOrder
  /\ recomputed' = IF job.set.recompute THEN Recomputed(LayerClass) ELSE {}
  /\ stage' = "done"
  /\ UNCHANGED <<job, profile, adapters, adapterType, trainable, ddp>>

ShardingRaises ==
  /\ stage = "wrap"
  /\ job.set.strategy = "fsdp"
  /\ ShardedTwice
  /\ stage' = "shardedTwice"
  /\ UNCHANGED <<job, profile, adapters, adapterType, trainable, shards, recomputed, ddp>>

(* wrap_ddp: an MoE model leaves parameters unused, which excludes a       *)
(* static graph.                                                           *)
FindUnused == job.set.findUnused \/ profile.isMoe
WrapDdp ==
  /\ stage = "wrap"
  /\ job.set.strategy = "ddp"
  /\ ddp' = [findUnused |-> FindUnused, staticGraph |-> job.set.staticGraph /\ ~FindUnused]
  /\ recomputed' = IF job.set.recompute THEN Recomputed(profile.decoderCls) ELSE {}
  /\ stage' = "done"
  /\ UNCHANGED <<job, profile, adapters, adapterType, trainable, shards>>

UnknownStrategy ==
  /\ stage = "wrap"
  /\ job.set.strategy \notin {"fsdp", "ddp"}
  /\ stage' = "unknown"
  /\ UNCHANGED <<job, profile, adapters, adapterType, trainable, shards, recomputed, ddp>>

SetupNext ==
  \/ LoadModel \/ NothingToAdapt \/ AttachAdapters \/ CastAdapters \/ FreezeRouters
  \/ WrapFsdp \/ ShardingRaises \/ WrapDdp \/ UnknownStrategy

-----------------------------------------------------------------------------
TrueRouters == {i \in Modules(job.tree) : job.tree[i].role = "router"}

(* Automatic targets never adapt a router, and a frozen router does not    *)
(* train, whatever the architecture calls its modules.                     *)
RoutersKeepStill ==
  (stage = "done" /\ job.set.lora) =>
     /\ job.set.targets = "auto" => adapters \cap TrueRouters = {}
     /\ job.set.freezeRouter /\ profile.isMoe => \A i \in TrueRouters : <<i, "lora">> \notin trainable

(* A dense model trains every adapter it was given, and its projections    *)
(* named like gates are among the automatic targets.                       *)
DenseTrainsAll ==
  (stage = "done" /\ job.set.lora /\ ~profile.isMoe) =>
     /\ trainable = {<<i, "lora">> : i \in adapters}
     /\ job.set.targets = "auto" /\ profile.loraTargets # {} =>
          \A i \in Weights : job.tree[i].name = "gate_proj" => i \in adapters

(* Every shard group holds one dtype: FSDP2 cannot flatten a mixture.      *)
OneTypePerShard ==
  (stage = "done" /\ job.set.strategy = "fsdp") => \A i \in adapters : adapterType[i] = LoadType

(* What lies inside is sharded first, and sharding fails only where the    *)
(* experts themselves were taken for the decoder layers.                   *)
ShardsNest ==
  /\ stage = "done" => \A k, l \in DOMAIN shards : k < l => shards[k] \notin Above(job.tree)[shards[l]]
  /\ stage = "shardedTwice" => LayerClass = profile.expertCls
=============================================================================
