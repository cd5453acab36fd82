------------------------------ MODULE MCSetup ------------------------------
(***************************************************************************)
(* Instances for TLC of what comes before and around the training loop:    *)
(* the tokenized data sets, the MLflow UI, the launcher's configuration,   *)
(* the preparation of the model, the rows of the data set and the router   *)
(* loss; and of the launcher of inference.  They share no state; `part`    *)
(* says which of them a behaviour is about.                                *)
(***************************************************************************)
EXTENDS LaunchConfig, TrainSetup, DataRows, RouterLoss, InferCommand, TokenCache, Dashboard

VARIABLE part

preparation == <<launchVars, setupVars, dataVars>>
files == <<tokenVars, dashVars>>
mcVars == <<part, outputs, preparation, files, inferVars>>

-----------------------------------------------------------------------------
(* Models.  M is a module, L a container, W a linear layer.                *)
M(name, up, cls) == [name |-> name, up |-> up, cls |-> cls, kind |-> "plain", role |-> "other"]
L(name, up) == [name |-> name, up |-> up, cls |-> "ModuleList", kind |-> "list", role |-> "other"]
W(name, up) == [name |-> name, up |-> up, cls |-> "Linear", kind |-> "linear", role |-> "other"]
R(name, up) == [name |-> name, up |-> up, cls |-> "Linear", kind |-> "linear", role |-> "router"]
Top == <<M("root", 0, "CausalLM"), M("model", 1, "Model"), L("layers", 2)>>

Dense == Top \o <<M("0", 3, "Layer"), W("q_proj", 4), M("mlp", 4, "Mlp"), W("gate_proj", 6), W("down_proj", 6),
                  M("1", 3, "Layer"), W("q_proj", 9), M("mlp", 9, "Mlp"), W("gate_proj", 11), W("down_proj", 11)>>
(* Mixtral and Qwen2-MoE: one layer; the latter with a gated shared expert.*)
Mixtral == Top \o <<M("0", 3, "Layer"), W("q_proj", 4), M("block_sparse_moe", 4, "Moe"), R("gate", 6),
                    L("experts", 6), M("0", 8, "Expert"), W("w1", 9), M("1", 8, "Expert"), W("w1", 11)>>
Qwen == Top \o <<M("0", 3, "Layer"), W("q_proj", 4), M("mlp", 4, "Moe"), R("gate", 6), L("experts", 6),
                 M("0", 8, "Mlp"), W("gate_proj", 9), M("1", 8, "Mlp"), W("gate_proj", 11),
                 M("shared_expert", 6, "Mlp"), W("gate_proj", 13), R("shared_expert_gate", 6)>>
(* DeepSeek: the first layer is dense. *)
DeepSeek == Top \o <<M("0", 3, "Layer"), W("q_proj", 4), M("mlp", 4, "Mlp"), W("gate_proj", 6),
                     M("1", 3, "Layer"), W("q_proj", 8), M("mlp", 8, "Moe"), L("experts", 10),
                     M("0", 11, "Mlp"), W("gate_proj", 12), M("1", 11, "Mlp"), W("gate_proj", 14),
                     R("gate", 10), M("shared_experts", 10, "Mlp"), W("gate_proj", 17)>>
(* Layers of two classes, and as many experts in one as there are layers.  *)
Hybrid == Top \o <<M("0", 3, "AttentionLayer"), W("q_proj", 4), M("1", 3, "MoeLayer"), M("moe", 6, "Moe"),
                   R("router", 7), L("experts", 7), M("0", 9, "Expert"), W("w1", 10), M("1", 9, "Expert"), W("w1", 12)>>

Config(layers, experts, moeName, dtype) ==
  [layers |-> layers, experts |-> experts, moeName |-> moeName, auxLoss |-> FALSE, dtype |-> dtype, stored |-> "float16"]
TreeJobs ==
  {<<Dense, Config(2, 0, FALSE, "bfloat16")>>, <<Dense, Config(0, 0, FALSE, "none")>>,
   <<Mixtral, Config(1, 2, FALSE, "bfloat16")>>, <<Qwen, Config(1, 0, TRUE, "bfloat16")>>,
   <<DeepSeek, Config(2, 2, FALSE, "none")>>, <<Hybrid, Config(2, 2, FALSE, "float16")>>}

Base == [dtype |-> "bfloat16", lora |-> TRUE, targets |-> "auto", names |-> {"q_proj"}, includeExperts |-> FALSE,
         freezeRouter |-> TRUE, strategy |-> "fsdp", shardExperts |-> TRUE, layerCls |-> "none",
         recompute |-> TRUE, composable |-> TRUE, findUnused |-> FALSE, staticGraph |-> TRUE]
LoraSettings ==
  {[Base EXCEPT !.dtype = d, !.lora = l, !.targets = t, !.includeExperts = i, !.freezeRouter = f, !.names = n] :
     d \in {"auto", "bfloat16"}, l \in BOOLEAN, t \in {"auto", "names"}, i \in BOOLEAN, f \in BOOLEAN,
     n \in {{"q_proj"}, {"q_proj", "gate"}, {"nothing"}}}
Settings ==
  {[s EXCEPT !.shardExperts = e, !.layerCls = c] : s \in LoraSettings, e \in BOOLEAN, c \in {"none", "Layer", "Missing"}}
  \cup {[s EXCEPT !.strategy = "ddp", !.recompute = r, !.composable = c, !.findUnused = u, !.staticGraph = g] :
          s \in LoraSettings, r \in BOOLEAN, c \in BOOLEAN, u \in BOOLEAN, g \in BOOLEAN}
  \cup {[Base EXCEPT !.strategy = "deepspeed"]}
MCJobs == {[tree |-> t[1], config |-> t[2], set |-> s] : t \in TreeJobs, s \in Settings}
MCPeftDefaults == {"q_proj"}

-----------------------------------------------------------------------------
MCSetting == [verified : {"f"}, hashed : {"o1", "o2"}]

-----------------------------------------------------------------------------
(* Files: one odd section, or one odd value among ordinary ones. *)
Whole == [s \in Sections |-> "map"]
MCFiles ==
  {[sections |-> [Whole EXCEPT ![s] = f], values |-> [x \in Fields |-> v]] :
     s \in Sections, f \in SectionForms, v \in {"absent", "value"}}
  \cup {[sections |-> Whole, values |-> [[y \in Fields |-> "absent"] EXCEPT ![x] = v]] :
          x \in Fields, v \in {"null", "false", "value", "word"}}
MCCommandLines ==
  {[noDashboard |-> n, port |-> p, workers |-> w, failures |-> 1] : n \in BOOLEAN, p \in {0, 9000}, w \in {0, 3}}
MCClusters ==
  {[address |-> a, nodes |-> n, perNode |-> g, local |-> l] :
     a \in {"none", "slurm", "connected"}, n \in {0, 3}, g \in {0, 2}, l \in {0, 1}}

-----------------------------------------------------------------------------
MCSources ==
  {[name |-> n, split |-> s, train |-> t, val |-> v, plain |-> p, cache |-> c, files |-> f] :
     n \in {"local", "hub", "unknown"}, s \in {"none", "train", "val"}, t \in {"none", "trainPath"}, v \in {"none", "valPath"},
     p \in {"none", "path"}, c \in {"none", "cachePath"}, f \in {{}, {"json"}, {"json", "parquet"}}}
Turn(sender, content) == [bare |-> FALSE, sender |-> sender, content |-> content]
Turns(turns) == [kind |-> "turns", missing |-> FALSE, turns |-> turns]
NoTurns == [kind |-> "turns", missing |-> TRUE, turns |-> <<>>]
MCBatches ==
  {<<NoTurns>>, <<Turns(<<>>), NoTurns>>,
   <<Turns(<<Turn("user", <<5>>), Turn("assistant", <<6, Eos>>)>>), Turns(<<>>)>>,
   <<Turns(<<Turn("system", <<4>>), Turn("user", <<>>), Turn("tool", <<7>>)>>)>>,
   <<Turns(<<[bare |-> TRUE, sender |-> "user", content |-> <<5>>], Turn("gpt", <<6>>)>>)>>,
   <<[kind |-> "instruction", instruction |-> <<5>>, input |-> <<>>, output |-> <<6>>]>>,
   <<[kind |-> "text", text |-> <<>>], [kind |-> "text", text |-> <<<<"plain", <<5, 6, 7, Eos>>>>>>]>>,
   <<[kind |-> "text", text |-> <<>>]>>}
MCTokenizers ==
  {[pad |-> p, bos |-> b, seqLen |-> n, format |-> f, chat |-> c] :
     p \in {NoPad, 9}, b \in BOOLEAN, n \in {3, 6}, f \in {"none", "chatml", "sharegpt", "alpaca"}, c \in BOOLEAN}
(* The builder does not look at the tokenizer: only an ordinary source is  *)
(* combined with all of them.                                              *)
OrdinarySource == [name |-> "local", split |-> "train", train |-> "trainPath", val |-> "none", plain |-> "none",
                   cache |-> "none", files |-> {"json"}]
OrdinaryTokenizer == [pad |-> NoPad, bos |-> FALSE, seqLen |-> 6, format |-> "chatml", chat |-> TRUE]

-----------------------------------------------------------------------------
MCScale == 6
Rows(n) == {r \in [1 .. n -> 0 .. MCScale] : n > 1 => r[1] + r[2] + (IF n > 2 THEN r[3] ELSE 0) = MCScale}
Layers3 == {[form |-> f, rows |-> <<r1, r2>>] : f \in {"tensor", "pair", "other"}, r1 \in Rows(3), r2 \in {<<2, 2, 2>>, <<0, 1, 5>>, <<3, 3, 0>>, <<1, 4, 1>>}}
Gate == [form |-> "tensor", rows |-> <<<<6>>, <<6>>>>]
Layers2 == {[form |-> "tensor", rows |-> <<r, <<4, 2>>>>] : r \in Rows(2)}
Outputs == {<<l, m>> : l \in Layers3, m \in {Gate} \cup Layers2} \cup {<<l>> : l \in Layers3} \cup {<<l, l>> : l \in Layers3} \cup {<<>>, <<Gate>>}
Profiles == {[isMoe |-> TRUE, experts |-> e, shared |-> s, perToken |-> k] : e \in {0, 3, 4}, s \in {0, 1}, k \in {0, 1, 2}}
MCAsked == {[own |-> FALSE, layers |-> o, profile |-> p] : o \in Outputs, p \in Profiles}
         \cup {[own |-> w, layers |-> <<Gate>>, profile |-> [isMoe |-> m, experts |-> 3, shared |-> 0, perToken |-> 2]] : w \in BOOLEAN, m \in BOOLEAN}

-----------------------------------------------------------------------------
(* bhaskera-infer: every choice of the flags that decide between planning, *)
(* tiered serving and the engine, on small machines.                       *)
Tensor(container, role, mb, type, shape) ==
    [container |-> container, shared |-> FALSE, role |-> role, mb |-> mb, type |-> type, shape |-> shape]
Embedding == Tensor("none", "embedding", 500, "BF16", <<100, 4096>>)
SharedTensor == [Tensor("experts", "gate", 100, "F32", <<64, 4096>>) EXCEPT !.shared = TRUE]
ExpertTensor(mb, type) == Tensor("experts", "gate", mb, type, <<512, 4096>>)
MCModels == {
    [tensors |-> <<Embedding, ExpertTensor(1600, "BF16"), ExpertTensor(1600, "BF16")>>, profile |-> [experts |-> 8, shared |-> 0, perToken |-> 2, layers |-> 4]],
    [tensors |-> <<SharedTensor, Embedding, ExpertTensor(6400, "F8")>>, profile |-> [experts |-> 16, shared |-> 1, perToken |-> 8, layers |-> 4]],
    [tensors |-> <<Embedding>>, profile |-> [experts |-> 0, shared |-> 0, perToken |-> 0, layers |-> 4]]}

MCMachines ==
    {[cuda |-> c, cards |-> <<card>>, pcie |-> p, dram |-> 100, ram |-> r, bf16 |-> c] :
       c \in BOOLEAN, card \in {1010, 8000}, p \in {25, 50}, r \in {0, 1200, 64000}}
(* Only the planner looks at the machine and the weights. *)
AnyMachine == CHOOSE m \in MCMachines : TRUE
AnyModel == CHOOSE m \in MCModels : TRUE

File == [device |-> "cuda", maxNew |-> 64, temperature |-> 7, sample |-> TRUE, kvCache |-> "static", turboquant |-> FALSE,
         keyBits |-> 4, speculative |-> FALSE, draft |-> "none", placement |-> "off", capacity |-> 8, mode |-> "bitwise", chunk |-> 1]
MCYamls == {File, [File EXCEPT !.placement = "cpu", !.mode = "ulp1"], [File EXCEPT !.placement = "slots"]}

Typed == [prompt |-> "one", plan |-> FALSE, planApply |-> FALSE, planFidelity |-> "bitwise", planBatch |-> 1, planDiverse |-> FALSE,
          model |-> "dir", remoteRepo |-> FALSE, remoteCache |-> FALSE, mirror |-> FALSE, tier |-> "none", capacity |-> None,
          mode |-> "none", chunk |-> None, maxNew |-> None, teacher |-> FALSE, temperature |-> None, noSample |-> FALSE,
          device |-> "auto", kvCache |-> "notGiven", keyBits |-> None, draft |-> "none", speculative |-> FALSE]
MCCommands ==
    {[Typed EXCEPT !.plan = TRUE, !.prompt = p, !.planApply = a, !.planFidelity = f, !.planBatch = b, !.maxNew = n, !.mode = m] :
       p \in {"one", "none"}, a \in BOOLEAN, f \in {"bitwise", "ulp1"}, b \in {1, 4}, n \in {None, 8}, m \in {"none", "bitwise"}}
    \cup {[Typed EXCEPT !.tier = t, !.capacity = c, !.mode = m, !.maxNew = n, !.model = d, !.remoteRepo = r, !.remoteCache = k] :
            t \in {"none", "off", "slots", "cpu"}, c \in {None, 0, 4}, m \in {"none", "ulp1"}, n \in {None, 8},
            d \in {"dir", "id"}, r \in BOOLEAN, k \in BOOLEAN}
    \cup {[Typed EXCEPT !.prompt = p, !.kvCache = v, !.draft = d, !.noSample = s, !.temperature = t, !.model = m, !.plan = l] :
            p \in {"one", "file", "missingFile", "none"}, v \in {"notGiven", "none", "turboquant"}, d \in {"none", "draft"},
            s \in BOOLEAN, t \in {None, 0, 5}, m \in {"none", "id"}, l \in BOOLEAN}

-----------------------------------------------------------------------------
Idle(p) ==
  /\ p # "launch" => /\ file = "-" /\ arguments = "-" /\ cluster = "-" /\ phase = "-" /\ config = <<>> /\ received = <<>>
                     /\ world = 0 /\ partitions = 0 /\ restarts = 0
  /\ p # "setup" => /\ job = "-" /\ stage = "-" /\ profile = "-" /\ adapters = {} /\ adapterType = <<>> /\ trainable = {}
                    /\ shards = <<>> /\ recomputed = {} /\ ddp = "-"
  /\ p # "rows" => /\ source = [name |-> "-"] /\ tokenizer = [format |-> "-"] /\ origin = "none" /\ actor = "-" /\ batch = <<>> /\ texts = <<>> /\ rows = <<>>
  /\ p # "loss" => outputs = [answer |-> <<>>]
  /\ p # "infer" => /\ command = "-" /\ yaml = "-" /\ machine = "-" /\ model = "-" /\ todo = "-" /\ prompts = 0
                    /\ flags = <<>> /\ serving = <<>> /\ result = <<>> /\ served = <<>>

MCSetupInit ==
  /\ part \in {"launch", "setup", "rows", "loss", "infer", "tokens", "dashboard"}
  /\ Idle(part)
  /\ TokenInit /\ DashInit
  /\ part = "launch" => LaunchInit
  /\ part = "setup" => SetupInit
  /\ part = "rows" => DataInit /\ (source = OrdinarySource \/ tokenizer = OrdinaryTokenizer)
  /\ part = "loss" => LossInit
  /\ part = "infer" => InferInit /\ (~command.plan => machine = AnyMachine /\ model = AnyModel)

MCSetupNext ==
  \/ part = "launch" /\ LaunchNext /\ UNCHANGED <<part, outputs, setupVars, dataVars, files, inferVars>>
  \/ part = "setup" /\ SetupNext /\ UNCHANGED <<part, outputs, launchVars, dataVars, files, inferVars>>
  \/ part = "rows" /\ DataNext /\ UNCHANGED <<part, outputs, launchVars, setupVars, files, inferVars>>
  \/ part = "loss" /\ Compute /\ UNCHANGED <<part, preparation, files, inferVars>>
  \/ part = "infer" /\ InferNext /\ UNCHANGED <<part, outputs, preparation, files>>
  \/ part = "tokens" /\ TokenNext /\ UNCHANGED <<part, outputs, preparation, dashVars, inferVars>>
  \/ part = "dashboard" /\ DashNext /\ UNCHANGED <<part, outputs, preparation, tokenVars, inferVars>>

MCSetupSpec == MCSetupInit /\ [][MCSetupNext]_mcVars

(* The worker's model is prepared as its settings and its structure demand.*)
PreparedModel == part = "setup" => RoutersKeepStill /\ DenseTrainsAll /\ OneTypePerShard /\ ShardsNest
(* What is launched is what was configured. *)
LaunchedAsConfigured == part = "launch" => WorkersRunTheDriversConfig /\ SilenceMeansDefault /\ EveryWorkerGetsBlocks
(* Training rows hold the text of their conversation and nothing else. *)
RowsAreTheText == part = "rows" => SplitsStayApart /\ LabelsFollowText /\ SameTurns
(* The loss punishes collapse, and the logged loads are all assignments. *)
RouterLossIsSound ==
  (part = "loss" /\ outputs.answer # <<>> /\ ~outputs.asked.own) =>
     /\ CollapseCostsMost(outputs.asked.layers, outputs.asked.profile)
     /\ LoadsAddUp(outputs.asked.layers, outputs.asked.profile)
(* What is on disk for later processes is true: a printed data set is      *)
(* whole, the recorded process is the UI.                                  *)
FilesTellTruth == PrintedIsGood /\ RecordIsTrue
(* Plans hold on the machine at hand, and more hardware never hurts them. *)
PlansAreSound ==
    /\ ServedAsDecided /\ HostOnlyIfAllowed
    /\ todo = "plan" =>
         MoreHardwareNeverHurts(DescribeModel(model.tensors, model.profile), Probe(machine), {Probe(m) : m \in Machines},
                                Work, command.planFidelity)
(* What is planned is sound, and what is served is what was decided. *)
InferenceAsDecided == part = "infer" => PlansAreSound
=============================================================================
