---------------------------- MODULE InferCommand ----------------------------
(***************************************************************************)
(* bhaskera-infer (launcher/infer.py): flags over a YAML file, the planner *)
(* and its recommendation, the tiered path for models larger than the      *)
(* device and the inference engine for the others.                         *)
(*                                                                         *)
(* None is what a flag has when it was not given, for the numbers, "none"  *)
(* for the rest: but --kv-cache, which can be given as none.  A model is a *)
(* sequence of tensors and a profile; "dir" is a local directory, "id" the *)
(* name of a model on the hub.                                             *)
(* Bounds: Commands, Yamls, Machines and Models.                           *)
(***************************************************************************)
EXTENDS ServePlanner

CONSTANTS Commands, Yamls, Machines, Models

ASSUME InferAssumption ==
  /\ \A m \in Models :
       /\ m.tensors \in Seq([container : {"none", "experts", "local_experts", "routed_experts"}, shared : BOOLEAN,
                            role : {"gate", "up", "down", "embedding", "other"}, mb : Nat,
                            type : {"BF16", "F16", "F32", "F8", "U8"}, shape : Seq(Nat)])
       /\ m.profile \in [experts : Nat, shared : Nat, perToken : Nat, layers : Nat]
  /\ Machines \subseteq [cuda : BOOLEAN, cards : Seq(Nat), pcie : Nat, dram : Nat, ram : Nat, bf16 : BOOLEAN]
  /\ \A c \in Commands : c.planBatch \in Nat /\ c.planFidelity \in {"bitwise", "ulp1"}
  /\ \A y \in Yamls : "mode" \in DOMAIN y

VARIABLES command, yaml, machine, model,  \* flags, file, machine, checkpoint
          todo,                          \* next step, "done", or how it ended
          prompts,                        \* how many there are
          flags,                          \* the flags --plan-apply may set
          serving,                         \* the configuration in use
          result,                         \* the planner's answer, <<>> before
          served                          \* what was served with, <<>> before

inferVars == <<command, yaml, machine, model, todo, prompts, flags, serving, result, served>>

None == 0 - 1
NonZero(flag, other) == IF flag \in {None, 0} THEN other ELSE flag     \* a or b, on numbers
OrElse(flag, other) == IF flag = "none" THEN other ELSE flag
IfGiven(flag, other) == IF flag = None THEN other ELSE flag

InferInit ==
  /\ command \in Commands /\ yaml \in Yamls /\ machine \in Machines /\ model \in Models
  /\ todo = "prompts" /\ prompts = 0
  /\ flags = [tier |-> command.tier, capacity |-> command.capacity, mode |-> command.mode]
  /\ serving = <<>> /\ result = <<>> /\ served = <<>>

Goes(next) == todo' = next
Keep(vars) == UNCHANGED <<command, yaml, machine, model, vars>>

(* parser.error and a failed assertion end the program. *)
Usage(why) ==
  /\ Goes(why)
  /\ Keep(<<prompts, flags, serving, result, served>>)

(* The prompts: one, those of a file, or none if there is only to plan.    *)
ReadPrompts ==
  /\ todo = "prompts"
  /\ \/ /\ command.prompt \in {"one", "file"}
        /\ prompts' = IF command.prompt = "one" THEN 1 ELSE 2
     \/ /\ command.prompt = "none" /\ command.plan
        /\ prompts' = 0
  /\ Goes("config")
  /\ Keep(<<flags, serving, result, served>>)

NoPrompts ==
  /\ todo = "prompts"
  /\ command.prompt \in {"missingFile", "emptyFile"} \/ (command.prompt = "none" /\ ~command.plan)
  /\ Usage("noPrompts")

(* _build_config: flags that were given replace what the file says.  The   *)
(* device flag has the default "auto" and always replaces it; bits are     *)
(* looked at for the turboquant cache only; --missing-col-ratio sets an    *)
(* attribute nothing reads.                                                *)
Configured ==
  LET kv == IF command.kvCache = "notGiven" THEN yaml.kvCache ELSE command.kvCache
      drafted == command.draft # "none"
  IN  [yaml EXCEPT !.device = command.device,
                   !.maxNew = IfGiven(command.maxNew, @),
                   !.temperature = IfGiven(command.temperature, @),
                   !.sample = @ /\ ~command.noSample,
                   !.kvCache = kv,
                   !.turboquant = @ \/ kv = "turboquant",
                   !.keyBits = IF kv = "turboquant" THEN IfGiven(command.keyBits, @) ELSE @,
                   !.speculative = @ \/ command.speculative \/ drafted,
                   !.draft = OrElse(command.draft, @)]
BuildConfig ==
  /\ todo = "config"
  /\ serving' = Configured
  /\ Goes(IF command.plan THEN "plan" ELSE "resolve")
  /\ Keep(<<prompts, flags, result, served>>)

(* Model and hardware discovery, and the table.  No weights are loaded.    *)
Work == [batch |-> command.planBatch, prompt |-> 32, gen |-> 16, shared |-> ~command.planDiverse]
Planned == Plan(DescribeModel(model.tensors, model.profile), Probe(machine), Work, command.planFidelity)
Describable == command.remoteRepo \/ command.model = "dir"
PlanModel ==
  /\ todo = "plan"
  /\ Describable
  /\ result' = Planned
  /\ Goes(IF command.planApply THEN "apply" ELSE "done")
  /\ Keep(<<prompts, flags, serving, served>>)
NothingToPlan ==
  /\ todo = "plan"
  /\ ~Describable
  /\ Usage("noModel")

(* --plan-apply: the recommendation becomes the flags.                     *)
Recommended == result.recommended # <<>> /\ result.recommended[1].fits
FaultyApplyPlan ==
  /\ todo = "apply"
  /\ result.recommended # <<>> /\ prompts > 0
  /\ flags' = [tier |-> result.recommended[1].placement, capacity |-> result.recommended[1].capacity,
               mode |-> IF result.recommended[1].placement = "cpu" THEN "ulp1" ELSE flags.mode]
  /\ Goes("resolve")
  /\ Keep(<<prompts, serving, result, served>>)
ApplyPlan ==
  /\ todo = "apply"
  /\ Recommended /\ prompts > 0
  /\ flags' = [tier |-> result.recommended[1].placement, capacity |-> result.recommended[1].capacity,
               mode |-> IF result.recommended[1].placement = "cpu" THEN "ulp1" ELSE flags.mode]
  /\ Goes("resolve")
  /\ Keep(<<prompts, serving, result, served>>)
NothingToApply ==
  /\ todo = "apply"
  /\ ~Recommended \/ prompts = 0
  /\ Usage("planNotApplied")

(* Explicit flags, then the file, then the defaults the file starts from.  *)
FaultyCapacity == NonZero(flags.capacity, serving.capacity)
Capacity == IfGiven(flags.capacity, serving.capacity)
Tier == OrElse(flags.tier, serving.placement)
Mode == OrElse(flags.mode, serving.mode)
Chunk == IfGiven(command.chunk, serving.chunk)

FaultyTierRefused == ~command.remoteRepo /\ command.model # "dir"
TierRefused ==
  \/ Tier = "cpu" /\ Mode # "ulp1"
  \/ command.remoteRepo /\ ~command.remoteCache
  \/ ~command.remoteRepo /\ command.model # "dir"
ResolveTier ==
  /\ todo = "resolve"
  /\ Tier # "off" => ~TierRefused
  /\ Goes(IF Tier = "off" THEN "engine" ELSE "open")
  /\ Keep(<<prompts, flags, serving, result, served>>)
RefuseTier ==
  /\ todo = "resolve"
  /\ Tier # "off" /\ TierRefused
  /\ Usage("badTier")

(* The handles the weights come from. *)
Handles ==
  IF ~command.remoteRepo THEN "local" ELSE IF command.mirror THEN "localThenRemote" ELSE "remote"
(* serve_huge_moe.  `infer` is bound only further down in main(), so the   *)
(* budget must be a non-zero flag: otherwise reading it raises after       *)
(* everything was opened.                                                  *)
ServeTiered ==
  /\ todo = "open"
  /\ command.maxNew \notin {None, 0}
  /\ served' = [by |-> "tier", tier |-> Tier, capacity |-> Capacity, chunk |-> Chunk, handles |-> Handles,
                budget |-> command.maxNew, teacher |-> command.teacher, prompts |-> prompts]
  /\ Goes("report")
  /\ Keep(<<prompts, flags, serving, result>>)
UnboundBudget ==
  /\ todo = "open"
  /\ command.maxNew \in {None, 0}
  /\ Usage("unbound")

(* InferenceEngine.load() and generate(): a zero on the command line reads *)
(* as not given there (and was put into the configuration before).         *)
GenerateByEngine ==
  /\ todo = "engine"
  /\ served' = [by |-> "engine", budget |-> NonZero(command.maxNew, serving.maxNew),
                temperature |-> NonZero(command.temperature, serving.temperature),
                sample |-> ~command.noSample /\ serving.sample, device |-> serving.device,
                kvCache |-> serving.kvCache, prompts |-> prompts]
  /\ Goes("report")
  /\ Keep(<<prompts, flags, serving, result>>)

(* One text per prompt is printed and, if asked, written to a file. *)
Report ==
  /\ todo = "report"
  /\ Goes("done")
  /\ Keep(<<prompts, flags, serving, result, served>>)

InferNext ==
  \/ ReadPrompts \/ NoPrompts \/ BuildConfig \/ PlanModel \/ NothingToPlan \/ ApplyPlan \/ NothingToApply
  \/ ResolveTier \/ RefuseTier \/ ServeTiered \/ UnboundBudget \/ GenerateByEngine \/ Report

-----------------------------------------------------------------------------
(* A plan alone serves nothing, and a plan that is applied is served as    *)
(* it was recommended, and fits ("Resolution: explicit flags > YAML        *)
(* colossus.* > off/defaults", infer.py:347; a capacity of 0 is explicit). *)
ServedAsDecided ==
  served # <<>> =>
    /\ command.plan => command.planApply /\ result.feasible
    /\ (command.plan /\ served.by = "tier") =>
         \E c \in ToSet(result.candidates) : c.fits /\ c.placement = served.tier /\ c.capacity = served.capacity
    /\ command.plan => served.by = "tier"
    /\ (~command.plan /\ served.by = "tier" /\ command.capacity # None) => served.capacity = command.capacity
    /\ (~command.plan /\ served.by = "tier" /\ command.tier # "none") => served.tier = command.tier
    /\ served.prompts > 0

(* Experts are computed by the host, which rounds differently, only if the *)
(* command line, the file or the plan asked for ulp1 ("bitwise: GPU-only   *)
(* exact; ulp1: allow CPU placement", infer.py:114).                       *)
HostOnlyIfAllowed ==
  (served # <<>> /\ served.by = "tier" /\ served.tier = "cpu") =>
     "ulp1" \in {OrElse(command.mode, yaml.mode), IF command.plan THEN command.planFidelity ELSE "none"}
=============================================================================
