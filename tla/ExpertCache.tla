---------------------------- MODULE ExpertCache ----------------------------
(***************************************************************************)
(* The host thread that serves MoE layers through the dynamic expert       *)
(* cache: ColossusMoEHook (colossus/hook.py) driving one                   *)
(* DynamicMoELayerWrapper (colossus/dynamic_cache.py) per layer.           *)
(*                                                                         *)
(* A pass runs the layers in order, for one sequence: a prompt of several  *)
(* tokens or one token to decode.  Before a layer's attention the hook may *)
(* prefetch the experts it predicts for that layer and for the next few;   *)
(* where the hook sees nothing, forward itself prefetches for its own      *)
(* layer when it decodes.  Then forward routes the tokens, makes the       *)
(* routed experts resident and runs them.  The router's choice and the     *)
(* predictions are arbitrary sets: the predictor only ever moves data.     *)
(* One loop iteration of the code is one step here, so every state between *)
(* two loads is visible; what the CUDA streams do meanwhile is ExpertDma.  *)
(***************************************************************************)
EXTENDS ExpertSlots

CONSTANTS NumLayers,    \* MoE layers that were wrapped
          Mixtral,      \* the layers whose block has no moe_infer (is_mixtral)
          TopK,         \* experts the router picks for one token
          Lookahead,    \* lookahead_enabled
          Hooked,       \* does the pre-attention hook see the hidden states
                        \* (a positional tensor), or does forward fall back?
          Depth,        \* layers predict_lookahead looks past the current one
          WarmupSlots   \* warmup_slots

ASSUME CacheAssumption ==
  /\ NumLayers \in Nat \ {0}
  /\ Mixtral \subseteq 1..NumLayers
  /\ TopK \in 1..NumExperts
  /\ Lookahead \in BOOLEAN /\ Hooked \in BOOLEAN
  /\ Depth \in Nat
  /\ WarmupSlots \in Nat

Layers == 1..NumLayers

VARIABLES
  cache,   \* cache[l]: the slot table of layer l
  host     \* where the host thread is, see HostState

(* pc: "between" two passes; "hook" in front of the prefetch for layer     *)
(* target; "prefetch" in its loop; "forward" at the entry of the wrapper   *)
(* of layer; "lock" and "load" the two loops of the path where everything  *)
(* routed fits; "infer" in front of moe_infer; "step" and "exec" the       *)
(* one-expert-at-a-time loop; "seed" and "warm" the warmup from a prefill. *)
HostState ==
  [pc     : {"between", "hook", "prefetch", "forward", "lock", "load", "infer",
             "step", "exec", "warm", "seed"},
   decode : BOOLEAN,          \* seq_len == 1
   layer  : Layers,
   target : Layers,
   todo   : SUBSET Experts,   \* what the current loop has not handled yet
   batch  : SUBSET Experts,   \* what it started with (need of a forward)
   expert : Experts \cup {None},
   locked : SUBSET Slots]     \* locked_slots

vars == <<cache, host>>

Smaller(m, n) == IF m <= n THEN m ELSE n

(* warmup of the first min(warmup_slots, capacity, num_experts) experts.   *)
FreshTable == WarmTable(Smaller(WarmupSlots, Smaller(Capacity, NumExperts)))

Between ==
  [pc |-> "between", decode |-> FALSE, layer |-> 1, target |-> 1,
   todo |-> {}, batch |-> {}, expert |-> None, locked |-> {}]

Init == /\ cache = [l \in Layers |-> FreshTable]
        /\ host = Between

-----------------------------------------------------------------------------
(* Walking through the layers *)

(* The host in front of layer l.                                           *)
AtLayer(l, decode) ==
  [Between EXCEPT !.pc = IF Lookahead /\ (Hooked \/ decode) THEN "hook"
                         ELSE "forward",
                  !.decode = decode, !.layer = l, !.target = l]

NextLayer == IF host.layer < NumLayers THEN AtLayer(host.layer + 1, host.decode)
             ELSE Between

StartPass(decode) ==
  /\ host.pc = "between"
  /\ host' = AtLayer(1, decode)
  /\ UNCHANGED cache

-----------------------------------------------------------------------------
(* on_layer_pre_attention, pre_attention_prefetch and async_prefetch *)

LastTarget == IF Hooked THEN Smaller(host.layer + Depth, NumLayers)
              ELSE host.layer

(* After the prefetch for one layer the hook turns to the next one it has  *)
(* a plan for, and after the last one the layer itself runs.               *)
NextTarget ==
  IF host.target < LastTarget
  THEN [host EXCEPT !.pc = "hook", !.target = host.target + 1,
                    !.todo = {}, !.batch = {}]
  ELSE [host EXCEPT !.pc = "forward", !.target = host.layer,
                    !.todo = {}, !.batch = {}]

(* The misses among the predicted experts are computed once, before the    *)
(* loop.  Nothing locks a slot for a prefetch.                             *)
Prefetch(predicted) ==
  LET misses == predicted \ Resident(cache[host.target])
  IN  /\ host.pc = "hook"
      /\ host' = IF misses = {} THEN NextTarget
                 ELSE [host EXCEPT !.pc = "prefetch", !.todo = misses,
                                   !.batch = misses]
      /\ UNCHANGED cache

(* One iteration, in the order of the scores: any order.                   *)
PrefetchStep(e) ==
  /\ host.pc = "prefetch"
  /\ e \in host.todo
  /\ cache' = [cache EXCEPT ![host.target] = Loaded(@, e, {})]
  /\ host' = [host EXCEPT !.todo = @ \ {e}]

PrefetchEnd ==
  /\ host.pc = "prefetch"
  /\ host.todo = {}
  /\ host' = NextTarget
  /\ UNCHANGED cache

-----------------------------------------------------------------------------
(* forward *)

(* The router picks TopK experts for each token; with several tokens the   *)
(* union may exceed the capacity.                                          *)
FaultyForward(need) ==
  /\ host.pc = "forward"
  /\ host.decode => Cardinality(need) = TopK
  /\ host' = [host EXCEPT
       !.pc = IF host.layer \notin Mixtral /\ Cardinality(need) <= Capacity + 1
              THEN "lock" ELSE "step",
       !.todo = need, !.batch = need, !.locked = {}]
  /\ UNCHANGED cache
Forward(need) ==
  /\ host.pc = "forward"
  /\ host.decode => Cardinality(need) = TopK
  /\ host' = [host EXCEPT
       !.pc = IF host.layer \notin Mixtral /\ Cardinality(need) <= Capacity
              THEN "lock" ELSE "step",
       !.todo = need, !.batch = need, !.locked = {}]
  /\ UNCHANGED cache

(* Expert ids come sorted out of unique() and nonzero().                   *)
Foremost(e) == e \in host.todo /\ \A x \in host.todo : e <= x

(* First loop of the fitting path: the hits become most recent and locked. *)
FaultyLockHit(e) ==
  LET c == cache[host.layer]
      s == c.expert_to_slot[e]
  IN  /\ host.pc = "lock"
      /\ Foremost(e)
      /\ cache' = IF s = None THEN cache
                  ELSE [cache EXCEPT ![host.layer] = Touched(c, s)]
      /\ host' = [host EXCEPT !.todo = @ \ {e}, !.locked = @ \cup {s}]
LockHit(e) ==
  LET c == cache[host.layer]
      s == c.expert_to_slot[e]
  IN  /\ host.pc = "lock"
      /\ Foremost(e)
      /\ IF s # None
         THEN /\ cache' = [cache EXCEPT ![host.layer] = Touched(c, s)]
              /\ host' = [host EXCEPT !.todo = @ \ {e}, !.locked = @ \cup {s}]
         ELSE /\ host' = [host EXCEPT !.todo = @ \ {e}]
              /\ UNCHANGED cache

FindMisses ==
  /\ host.pc = "lock"
  /\ host.todo = {}
  /\ host' = [host EXCEPT !.pc = "load",
                          !.todo = host.batch \ Resident(cache[host.layer])]
  /\ UNCHANGED cache

(* Second loop: each miss is loaded around the slots locked so far.        *)
LoadMiss(e) ==
  LET d == Loaded(cache[host.layer], e, host.locked)
  IN  /\ host.pc = "load"
      /\ Foremost(e)
      /\ cache' = [cache EXCEPT ![host.layer] = d]
      /\ host' = [host EXCEPT !.todo = @ \ {e},
                              !.locked = @ \cup {d.expert_to_slot[e]}]

LoadsIssued ==
  /\ host.pc = "load"
  /\ host.todo = {}
  /\ host' = [host EXCEPT !.pc = "infer"]
  /\ UNCHANGED cache

(* moe_infer runs every routed expert through its binding.                 *)
Infer ==
  /\ host.pc = "infer"
  /\ host' = NextLayer
  /\ UNCHANGED cache

(* Mixtral blocks, and any block when the routed experts do not fit: each  *)
(* expert is touched or loaded (without locks) and run before the next.    *)
FaultyStepExpert(e) ==
  /\ host.pc = "step"
  /\ Foremost(e)
  /\ cache' = [cache EXCEPT ![host.layer] = Loaded(@, e, {})]
  /\ host' = [host EXCEPT !.pc = "exec", !.expert = e]
StepExpert(e) ==
  LET c == cache[host.layer]
  IN  /\ host.pc = "step"
      /\ Foremost(e)
      /\ cache' = [cache EXCEPT ![host.layer] = Loaded(c, e, {})]
      /\ host' = [host EXCEPT !.pc = "exec", !.todo = @ \ {e}, !.expert = e]

ExecExpert ==
  /\ host.pc = "exec"
  /\ host' = IF host.todo = {} THEN NextLayer
             ELSE [host EXCEPT !.pc = "step", !.expert = None]
  /\ UNCHANGED cache

-----------------------------------------------------------------------------
(* Between two passes *)

(* ColossusMoEHook.reset_state: every layer starts over, warmup included.  *)
ResetState ==
  /\ host.pc = "between"
  /\ cache' = [l \in Layers |-> FreshTable]
  /\ UNCHANGED host

(* warmup_from_prefill: for each layer the experts the prompt activated    *)
(* most, as many as there are slots, loaded by decreasing count.           *)
StartWarmup ==
  /\ host.pc = "between"
  /\ host' = [host EXCEPT !.pc = "seed"]
  /\ UNCHANGED cache

SeedLayer(top) ==
  /\ host.pc = "seed"
  /\ host' = [host EXCEPT !.pc = "warm", !.todo = top, !.batch = top]
  /\ UNCHANGED cache

WarmupStep(e) ==
  /\ host.pc = "warm"
  /\ e \in host.todo
  /\ cache' = [cache EXCEPT ![host.target] = Loaded(@, e, {})]
  /\ host' = [host EXCEPT !.todo = @ \ {e}]

WarmupEnd ==
  /\ host.pc = "warm"
  /\ host.todo = {}
  /\ host' = IF host.target < NumLayers
             THEN [Between EXCEPT !.pc = "seed", !.target = host.target + 1]
             ELSE Between
  /\ UNCHANGED cache

-----------------------------------------------------------------------------

(* A prediction is empty where the confidence gate suppresses it; it and a *)
(* prefill's ranking are empty for a layer without a router weight.        *)
Predictions == {P \in SUBSET Experts : Cardinality(P) \in {0, TopK}}
Routings    == {R \in SUBSET Experts : Cardinality(R) >= TopK}
PrefillTops == {T \in SUBSET Experts :
                  Cardinality(T) \in {0, Smaller(Capacity, NumExperts)}}

Next ==
  \/ \E decode \in BOOLEAN : StartPass(decode)
  \/ \E P \in Predictions : Prefetch(P)
  \/ \E e \in Experts : PrefetchStep(e)
  \/ PrefetchEnd
  \/ \E R \in Routings : Forward(R)
  \/ \E e \in Experts : LockHit(e)
  \/ FindMisses
  \/ \E e \in Experts : LoadMiss(e)
  \/ LoadsIssued
  \/ Infer
  \/ \E e \in Experts : StepExpert(e)
  \/ ExecExpert
  \/ ResetState
  \/ StartWarmup
  \/ \E T \in PrefillTops : SeedLayer(T)
  \/ \E e \in Experts : WarmupStep(e)
  \/ WarmupEnd

Spec == Init /\ [][Next]_vars

-----------------------------------------------------------------------------
(* Properties *)

TypeOK == cache \in [Layers -> SlotTable] /\ host \in HostState

(* Whatever the order of prefetches, demand loads, resets and warmups, the *)
(* four bookkeeping structures of every wrapper describe the same table:   *)
(* nothing the code removes, pops or indexes can be missing.               *)
TablesConsistent == \A l \in Layers : Consistent(cache[l])

(* When an expert runs, alone or inside moe_infer, it is resident: it is   *)
(* never the zero dummy that computes for a routed expert.                 *)
RoutedResident ==
  /\ host.pc = "infer" => host.batch \subseteq Resident(cache[host.layer])
  /\ host.pc = "exec" => host.expert \in Resident(cache[host.layer])

(* A prefetch or warmup loop that starts with no more experts than there   *)
(* are slots does not evict what it has just loaded: all of it is resident *)
(* in the end.  No lock protects these loops, only the LRU order.          *)
LoopKeepsItsLoads ==
  host.pc \in {"prefetch", "warm"} /\ Cardinality(host.batch) <= Capacity
    => host.batch \ host.todo \subseteq Resident(cache[host.target])

(* Seen as experts instead of slots, the tables are LRU sets, one per      *)
(* layer: the specification LruSet, which knows no slot, free list or dict. *)
(* Pinned are the experts whose slots the running forward has locked.      *)
ResidentOrder(c) == [i \in DOMAIN c.slot_lru |-> c.slot_to_expert[c.slot_lru[i]]]
Pinned == {cache[host.layer].slot_to_expert[s] : s \in host.locked}

Lru == INSTANCE LruSet WITH Owners <- Layers, Items <- Experts,
                            Size <- Capacity,
                            order <- [l \in Layers |-> ResidentOrder(cache[l])],
                            pinned <- Pinned
ImplementsLru == Lru!Spec

=============================================================================
