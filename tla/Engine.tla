------------------------------- MODULE Engine -------------------------------
(***************************************************************************)
(* The HuggingFace backend of the inference engine (inference/engine.py,   *)
(* _HFBackend.generate): one request after the other, with its own cache   *)
(* object that is reset for each and lives as long as the engine.          *)
(*                                                                         *)
(* A request is generated either by the speculative loop, on the models'   *)
(* own caches, or by the library's generate(), which calls every layer     *)
(* once per forward, first with the whole prompt and then with one token   *)
(* at a time, never calls advance() and stops where it decides.  Nothing   *)
(* bounds a prompt by max_seq_len where it comes from a chat template.     *)
(* Tokenizing and the offload hook are left out.                           *)
(***************************************************************************)
EXTENDS KvCache, Speculative

CONSTANTS NumLayers,  \* attention layers
          Batches,    \* sizes of the batches of prompts
          Lengths     \* lengths of the padded prompts

ASSUME EngineAssumption ==
  /\ NumLayers \in Nat \ {0}
  /\ MaxSeqLen > MaxNewTokens      \* it adds the model's own limit
  /\ Batches \subseteq Nat \ {0} /\ Lengths \subseteq Nat \ {0}

Layers == 1..NumLayers

VARIABLES
  config,  \* fixed when the engine is loaded: the kind of cache, the decoder
  kv,      \* the cache object: its stores, or its keys and its seq_len
  request, \* the request that is served
  seen     \* seen[l]: what the last update of layer l has returned

kvVars == <<kv, request, seen>>
engineVars == <<config, kvVars, specVars>>

Requests ==
  [pc    : {"idle", "forward", "sample", "failed"},
   batch : Nat,
   layer : Layers,        \* the layer whose attention is next
   new   : Seq(Nat),      \* positions of the columns of this forward
   done  : Nat,           \* columns all layers have seen
   left  : Nat]           \* tokens generate() may still choose

NoRequest ==
  [pc |-> "idle", batch |-> 0, layer |-> 1, new |-> << >>, done |-> 0, left |-> 0]

EmptyKeys == [i \in 1..MaxSeqLen |-> Blank]

EngineInit ==
  /\ SpecInit
  /\ config \in [cache : {"turboquant", "static"}, speculative : BOOLEAN]
  /\ kv = [store |-> [l \in Layers |-> EmptyStore],
           keys |-> [l \in Layers |-> EmptyKeys], seqLen |-> 0]
  /\ request = NoRequest
  /\ seen = [l \in Layers |-> << >>]

-----------------------------------------------------------------------------

Reset ==
  kv' = [store |-> [l \in Layers |-> ResetStore(kv.store[l])],
         keys |-> [l \in Layers |-> EmptyKeys], seqLen |-> 0]

Idle == request.pc \in {"idle", "failed"} /\ spec.pc = "off"

(* generate: a request that raised before is forgotten like any other.     *)
Generate(batch, length) ==
  /\ Idle
  /\ ~ config.speculative
  /\ Reset
  /\ request' = [NoRequest EXCEPT !.pc = "forward", !.batch = batch,
                                  !.new = [i \in 1..length |-> i],
                                  !.left = MaxNewTokens]
  /\ seen' = [l \in Layers |-> << >>]
  /\ UNCHANGED <<config, specVars>>

GenerateSpeculative ==
  /\ Idle
  /\ config.speculative
  /\ Reset
  /\ SpecStart
  /\ UNCHANGED <<config, request, seen>>

(* update, called by the attention of one layer.                           *)
NewColumns == [i \in DOMAIN request.new |-> Exact(request.new[i])]
UpdateFails ==
  IF config.cache = "turboquant"
  THEN StoreFails(kv.store[request.layer], request.batch, NewColumns)
  ELSE StaticFails(kv.seqLen, request.batch, NewColumns)

NextLayer ==
  IF request.layer < NumLayers THEN [request EXCEPT !.layer = @ + 1]
  ELSE [request EXCEPT !.pc = "sample", !.layer = 1,
                       !.done = @ + Len(request.new)]

UpdateStore ==
  LET l == request.layer
      d == Stored(kv.store[l], request.batch, NewColumns)
  IN  /\ request.pc = "forward" /\ config.cache = "turboquant"
      /\ ~ UpdateFails
      /\ kv' = [kv EXCEPT !.store[l] = d]
      /\ seen' = [seen EXCEPT ![l] = FullStore(d)]
      /\ request' = NextLayer
      /\ UNCHANGED <<config, specVars>>

UpdateStatic ==
  LET l == request.layer
      keys == StaticWritten(kv.keys[l], kv.seqLen, NewColumns)
  IN  /\ request.pc = "forward" /\ config.cache = "static"
      /\ ~ UpdateFails
      /\ kv' = [kv EXCEPT !.keys[l] = keys]
      /\ seen' = [seen EXCEPT ![l] = FullStatic(keys, kv.seqLen, NewColumns)]
      /\ request' = NextLayer
      /\ UNCHANGED <<config, specVars>>

(* An update that raises ends the request.                                 *)
Raise ==
  /\ request.pc = "forward"
  /\ UpdateFails
  /\ kv' = IF config.cache = "turboquant"
           THEN [kv EXCEPT !.store[request.layer] = StoreRaised(@, NewColumns)]
           ELSE kv
  /\ request' = [request EXCEPT !.pc = "failed"]
  /\ UNCHANGED <<config, seen, specVars>>

(* generate() chooses a token and goes on, or stops.                       *)
SampleNext ==
  /\ request.pc = "sample"
  /\ request.left > 1
  /\ request' = [request EXCEPT !.pc = "forward", !.new = <<request.done + 1>>,
                                !.left = @ - 1]
  /\ UNCHANGED <<config, kv, seen, specVars>>
Stop ==
  /\ request.pc = "sample"
  /\ request' = [request EXCEPT !.pc = "idle"]
  /\ UNCHANGED <<config, kv, seen, specVars>>

ForwardStep == UpdateStore \/ UpdateStatic \/ Raise \/ SampleNext \/ Stop
DecoderStep == (SpecStep \/ SpecEnd) /\ UNCHANGED <<config, kvVars>>

EngineNext ==
  \/ \E b \in Batches, n \in Lengths : Generate(b, n)
  \/ GenerateSpeculative
  \/ ForwardStep
  \/ DecoderStep

EngineSpec == EngineInit /\ [][EngineNext]_engineVars

-----------------------------------------------------------------------------
(* Properties *)

EngineTypeOK ==
  /\ SpecTypeOK
  /\ config \in [cache : {"turboquant", "static"}, speculative : BOOLEAN]
  /\ request \in Requests
  /\ \A l \in Layers : seen[l] \in Seq([pos : Nat, exact : BOOLEAN])

(* How many columns layer l has been given in this request.                *)
Given(l) == IF request.pc = "forward" /\ l < request.layer
            THEN request.done + Len(request.new) ELSE request.done

(* "Decode cache must be consistent regardless of whether tokens arrive    *)
(* one at a time or in a batch" (test_inference.py:184-185): what a layer  *)
(* sees is the whole sequence in order, the last Window columns exactly    *)
(* and the others dequantized, after any number of requests and growths.   *)
CompressedSeesAll ==
  config.cache = "turboquant" /\ request.pc \in {"forward", "sample"} =>
    \A l \in Layers :
      seen[l] = [i \in 1..Given(l) |->
                   IF i > Given(l) - Window THEN Exact(i) ELSE Quantized(Exact(i))]

(* The rows behind _comp_ptr's back hold what was decoded from them, so    *)
(* compression_stats counts every column once (kv_cache.py:611-614).       *)
RowsHoldHistory ==
  \A l \in Layers :
    LET s == kv.store[l]
    IN  /\ s.ptr <= Len(s.idx)
        /\ SubSeq(s.idx, 1, s.ptr) = s.dec

=============================================================================
