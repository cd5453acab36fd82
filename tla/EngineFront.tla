---------------------------- MODULE EngineFront ----------------------------
(***************************************************************************)
(* InferenceEngine objects of one process (inference/engine.py): which     *)
(* backend each loads, what a request becomes, and the patch that the      *)
(* turboquant backend puts over vLLM's attention, a class all of them      *)
(* share (inference/vllm_turboquant.py).                                   *)
(*                                                                         *)
(* A patcher is named after the engine that made it.  A key is abstracted  *)
(* to the number of the decode step it belongs to.                         *)
(* Bounds: Engines with EngineConfigs; MaxSteps decode steps.              *)
(***************************************************************************)
EXTENDS Integers, Sequences, FiniteSets

CONSTANTS Engines, EngineConfigs,
          Installations,   \* records [vllm, native, starts, layerIdx, cuda, cards, mps]
          ModelLayers,     \* attention layers of a model, in order
          Protected, MaxSteps

ASSUME FrontAssumption ==
  /\ IsFiniteSet(Engines) /\ Engines \cap {"vllm", "none"} = {}
  /\ \A c \in EngineConfigs : c.speculative \in BOOLEAN
  /\ ModelLayers \in Seq(Nat)
  /\ \A i, j \in 1 .. Len(ModelLayers) : ModelLayers[i] = ModelLayers[j] => i = j

VARIABLES settings, installation,   \* an engine's configuration; what is installed
          backend,                  \* engine -> the loaded backend, [kind |-> "none"] before
          forward,                  \* what Attention.forward is: "vllm" or a patcher
          original,                 \* patcher -> the forward it saved
          patched,                  \* patchers that hold themselves patched
          buffers,                  \* patcher -> layer -> [steps, cached, valid, bits]
          appended,                 \* patcher -> decode steps since reset_buffers (history)
          steps,                    \* decode steps of the process
          call                      \* the last request or reading

frontVars == <<settings, installation, backend, forward, original, patched, buffers, appended, steps, call>>

NotLoaded == [kind |-> "none"]

FrontInit ==
  /\ settings \in [Engines -> EngineConfigs] /\ installation \in Installations
  /\ backend = [e \in Engines |-> NotLoaded]
  /\ forward = "vllm" /\ original = [e \in Engines |-> "none"] /\ patched = {}
  /\ buffers = [e \in Engines |-> <<>>]
  /\ appended = [e \in Engines |-> <<>>]
  /\ steps = 0 /\ call = [kind |-> "none"]

-----------------------------------------------------------------------------
(* _resolve_device *)
ResolveDevice(e) ==
  IF settings[e].device # "auto" THEN settings[e].device
  ELSE IF installation.cuda THEN "cuda" ELSE IF installation.mps THEN "mps" ELSE "cpu"

FaultyShouldUseVllm(e) == ~settings[e].forceHf /\ installation.vllm /\ ResolveDevice(e) = "cuda"
ShouldUseVllm(e) ==
  ~settings[e].speculative /\ ~settings[e].forceHf /\ installation.vllm /\ ResolveDevice(e) = "cuda"

(* The monkey patch is for a turboquant cache of a vLLM without its own.   *)
WantsPatch(e) == settings[e].kv = "turboquant" /\ ~installation.native

(* VLLMTurboQuantPatcher.patch and unpatch. *)
FaultyPatch(p) ==
  /\ forward' = p
  /\ original' = [original EXCEPT ![p] = forward]
  /\ patched' = patched \cup {p}
Patch(p) ==
  IF p \in patched THEN UNCHANGED <<forward, original, patched>>
  ELSE /\ forward' = p
       /\ original' = [original EXCEPT ![p] = forward]
       /\ patched' = patched \cup {p}
Unpatch(p) ==
  IF p \notin patched \/ original[p] = "none" THEN UNCHANGED <<forward, original, patched>>
  ELSE /\ forward' = original[p]
       /\ patched' = patched \ {p}
       /\ UNCHANGED original

(* _HFBackend: the tokenizer and the model, the hook of a MoE model (one   *)
(* that fails to be built is left out), the cache object and the draft     *)
(* model, which does not use that object.                                  *)
HfBackend(e) ==
  [kind |-> "hf", device |-> ResolveDevice(e),
   sharded |-> ResolveDevice(e) = "cuda" /\ installation.cards > 1,
   thinking |-> settings[e].param2,
   hook |-> IF ~settings[e].colossus \/ settings[e].hook = "fails" THEN "off"
            ELSE IF settings[e].hook = "dense" THEN "dense" ELSE "attached",
   cache |-> IF settings[e].kv = "none" \/ ~settings[e].layersKnown THEN "none" ELSE settings[e].kv,
   drafts |-> settings[e].speculative]
VllmBackend(e) ==
  [kind |-> "vllm", device |-> "cuda", recipe |-> IF settings[e].kv # "turboquant" THEN "none"
     ELSE IF ~installation.native THEN "patched"
     ELSE IF settings[e].keyBits + settings[e].valueBits >= 6 THEN "turboquant35" ELSE "turboquant25"]

(* InferenceEngine.load: a backend is loaded once.  When the vLLM engine   *)
(* does not start the patch stays, and the transformers backend is loaded. *)
Load(e) ==
  /\ backend[e].kind = "none"
  /\ \/ /\ ShouldUseVllm(e)
        /\ IF WantsPatch(e) THEN Patch(e) ELSE UNCHANGED <<forward, original, patched>>
        /\ \E starts \in installation.starts :
             backend' = [backend EXCEPT ![e] = IF starts THEN VllmBackend(e) ELSE HfBackend(e)]
     \/ /\ ~ShouldUseVllm(e)
        /\ backend' = [backend EXCEPT ![e] = HfBackend(e)]
        /\ UNCHANGED <<forward, original, patched>>
  /\ call' = [kind |-> "none"] /\ UNCHANGED <<settings, installation, buffers, appended, steps>>

(* The patch is an object of its own: it can be taken off and put on       *)
(* again.  Patches are taken off in the reverse order of putting them on;  *)
(* patch() may be called again at any time.                                *)
Repatch(e) ==
  /\ backend[e].kind = "vllm" /\ backend[e].recipe = "patched"
  /\ \/ Patch(e)
     \/ forward = e /\ Unpatch(e)
  /\ call' = [kind |-> "none"] /\ UNCHANGED <<settings, installation, backend, buffers, appended, steps>>

-----------------------------------------------------------------------------
(* The forward functions a call of Attention.forward runs through.         *)
Chain ==
  LET link[k \in 0 .. Cardinality(Engines) + 1] ==
        IF k = 0 THEN forward ELSE IF link[k - 1] \in Engines THEN original[link[k - 1]] ELSE link[k - 1]
  IN  link
ChainEnds == Chain[Cardinality(Engines) + 1] = "vllm"
Passed == {Chain[k] : k \in DOMAIN Chain} \cap Engines

(* _get_or_create_buffer: a layer that does not tell its number is taken   *)
(* for a new one at every call; the first and last layers get more bits.   *)
LayerOf(buffer, layer) == IF installation.layerIdx THEN layer ELSE Cardinality(DOMAIN buffer) + 1
Bits(p, layer, bits) ==
  IF layer <= Protected \/ layer > Len(ModelLayers) - Protected THEN IF bits + 2 > 8 THEN 8 ELSE bits + 2 ELSE bits
NewBuffer(p, layer) ==
  [steps |-> <<>>, cached |-> <<>>, valid |-> FALSE,
   bits |-> <<Bits(p, layer, settings[p].keyBits), Bits(p, layer, settings[p].valueBits)>>]

(* append: compress, keep, and the concatenation is no longer valid.       *)
FaultyAppended(b, step) == [b EXCEPT !.steps = Append(@, step)]
Appended(b, step) == [b EXCEPT !.steps = Append(@, step), !.valid = FALSE]

AppendTo(p, buffer, layer, step) ==
  LET at == LayerOf(buffer, layer)
      all == DOMAIN buffer \cup {at}
  IN  [l \in all |-> IF l # at THEN buffer[l]
                     ELSE Appended(IF at \in DOMAIN buffer THEN buffer[at] ELSE NewBuffer(p, at), step)]
AfterLayers(p, step) ==
  LET upTo[k \in 0 .. Len(ModelLayers)] ==
        IF k = 0 THEN buffers[p] ELSE AppendTo(p, upTo[k - 1], ModelLayers[k], step)
  IN  upTo[Len(ModelLayers)]

(* A decode step of a vLLM engine: every patched forward it runs through   *)
(* keeps the keys and values of every layer.                               *)
Decode(e) ==
  /\ backend[e].kind = "vllm" /\ ChainEnds /\ steps < MaxSteps
  /\ steps' = steps + 1
  /\ buffers' = [p \in Engines |-> IF p \in Passed THEN AfterLayers(p, steps + 1) ELSE buffers[p]]
  /\ appended' = [p \in Engines |-> IF p \in Passed THEN Append(appended[p], steps + 1) ELSE appended[p]]
  /\ call' = [kind |-> "none"] /\ UNCHANGED <<settings, installation, backend, forward, original, patched>>

(* A prompt is read without being kept, by either backend. *)
FrontGenerate(e) ==
  /\ backend[e].kind # "none"
  /\ call' = [kind |-> "generate", backend |-> backend[e].kind,
              cache |-> IF backend[e].kind = "vllm" THEN "paged"
                        ELSE IF backend[e].thinking \/ backend[e].drafts THEN "none" ELSE backend[e].cache,
              offloads |-> backend[e].kind = "hf" /\ backend[e].hook = "attached",
              drafts |-> backend[e].kind = "hf" /\ backend[e].drafts,
              marksKept |-> backend[e].kind = "hf" /\ backend[e].thinking]
  /\ UNCHANGED <<settings, installation, backend, forward, original, patched, buffers, appended, steps>>

(* generate_param2 goes past the backend's generate: no draft, no hook,    *)
(* and the cache object is handed over, which generate does not do for     *)
(* such a model.                                                           *)
GenerateParam2(e) ==
  /\ backend[e].kind # "none"
  /\ call' = IF backend[e].kind = "vllm" THEN [kind |-> "raised"]
             ELSE [kind |-> "param2", backend |-> "hf", cache |-> backend[e].cache, offloads |-> FALSE,
                   drafts |-> FALSE, marksKept |-> TRUE]
  /\ UNCHANGED <<settings, installation, backend, forward, original, patched, buffers, appended, steps>>

(* kv_cache_stats: for the patch it fails as soon as a token was kept,     *)
(* because it asks the compressor for the batch the buffer knows.          *)
KeptLayers(p) == {l \in DOMAIN buffers[p] : buffers[p][l].steps # <<>>}
Stats(e) ==
  /\ backend[e].kind # "none"
  /\ call' = [kind |-> IF backend[e].kind = "vllm" /\ backend[e].recipe = "patched" /\ KeptLayers(e) # {} THEN "raised"
                       ELSE IF backend[e].kind = "vllm" /\ backend[e].recipe = "patched" THEN "empty"
                       ELSE IF backend[e].kind = "vllm" \/ backend[e].thinking \/ backend[e].cache = "none"
                            THEN "none" ELSE "cacheStats"]
  /\ UNCHANGED <<settings, installation, backend, forward, original, patched, buffers, appended, steps>>

(* get_all: the concatenation is built again when it is not valid.         *)
GetAll(p, l) ==
  LET b == buffers[p][l]
      cat == IF b.valid THEN b.cached ELSE b.steps
  IN  /\ l \in DOMAIN buffers[p]
      /\ call' = [kind |-> "read", of |-> p, layer |-> l, got |-> IF b.steps = <<>> THEN <<>> ELSE cat]
      /\ buffers' = IF b.steps = <<>> THEN buffers
                    ELSE [buffers EXCEPT ![p][l] = [b EXCEPT !.cached = cat, !.valid = TRUE]]
      /\ UNCHANGED <<settings, installation, backend, forward, original, patched, appended, steps>>

ResetOf(b) == [b EXCEPT !.steps = <<>>, !.valid = FALSE]
ResetBuffers(p) ==
  /\ DOMAIN buffers[p] # {}
  /\ buffers' = [buffers EXCEPT ![p] = [l \in DOMAIN @ |-> ResetOf(@[l])]]
  /\ appended' = [appended EXCEPT ![p] = <<>>]
  /\ call' = [kind |-> "none"]
  /\ UNCHANGED <<settings, installation, backend, forward, original, patched, steps>>

FrontNext ==
  \E e \in Engines :
    \/ Load(e) \/ Repatch(e) \/ Decode(e) \/ FrontGenerate(e) \/ GenerateParam2(e) \/ Stats(e) \/ ResetBuffers(e)
    \/ \E l \in DOMAIN buffers[e] : GetAll(e, l)

-----------------------------------------------------------------------------
(* Patches of several engines nest: a call of the attention ends in vLLM's *)
(* own forward after each patched patcher once, also when vLLM failed to   *)
(* start after it was patched (vllm_turboquant.py:405).                    *)
PatchesNest ==
  /\ ChainEnds
  /\ Passed = patched
  /\ \A j, k \in DOMAIN Chain : (j < k /\ Chain[j] = Chain[k]) => Chain[j] = "vllm"

(* What is read back of a layer is what was decoded since the last reset,  *)
(* no matter when it was read before (one sequence, one head: the layout   *)
(* of the concatenation mixes more than one).                              *)
BuffersReadBack ==
  (call.kind = "read" /\ installation.layerIdx /\ buffers[call.of][call.layer].valid) =>
     call.got = buffers[call.of][call.layer].steps /\ call.got = appended[call.of]

(* Speculative decoding that was asked for is done: such an engine never   *)
(* has a backend without the draft model (engine.py:526).                  *)
DraftsWhenAsked ==
  \A e \in Engines : (settings[e].speculative /\ backend[e].kind # "none") => backend[e].kind = "hf" /\ backend[e].drafts

=============================================================================
