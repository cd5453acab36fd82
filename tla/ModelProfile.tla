---------------------------- MODULE ModelProfile ----------------------------
(***************************************************************************)
(* What bhaskera reads off a loaded model (introspect.py).                 *)
(*                                                                         *)
(* A model is the sequence of its modules in the order of named_modules(), *)
(* the root first.  A module has a leaf name, the position of its parent   *)
(* (0 for the root), a class and a kind: "list" (nn.ModuleList), "linear"  *)
(* (nn.Linear, the only kind with weights of its own) or "plain".  The     *)
(* code matches names by substrings and suffixes; here the names that      *)
(* match are listed.                                                       *)
(***************************************************************************)
EXTENDS Integers, FiniteSets, Sequences, SequencesExt

ExpertNames == {"experts", "local_experts", "routed_experts"}
SharedNames == {"shared_expert", "shared_experts", "shared_expert_gate"}
GateNames == {"gate", "router", "shared_expert_gate", "gate_proj"}
ProjectionNames == {"q_proj", "gate_proj", "down_proj"}

(* The paths of layer containers that are tried first, in this order. *)
KnownPaths == <<<<"model", "layers">>, <<"transformer", "h">>, <<"gpt_neox", "layers">>, <<"model", "decoder", "layers">>>>

Modules(t) == DOMAIN t
Children(t, i) == {j \in Modules(t) : t[j].up = i}

(* Every module with the ones it lies in. *)
Above(t) ==
  LET path[i \in Modules(t)] == {i} \cup (IF t[i].up = 0 THEN {} ELSE path[t[i].up])
  IN  path
PathTo(t) ==
  LET path[i \in Modules(t)] == IF t[i].up = 0 THEN <<>> ELSE Append(path[t[i].up], t[i].name)
  IN  path
Within(t, i) == {j \in Modules(t) : i \in Above(t)[j]}
HasParameters(t, i) == \E j \in Within(t, i) : t[j].kind = "linear"

First(s) == CHOOSE i \in s : \A j \in s : i <= j
InOrder(s) == SetToSortSeq(s, <)

(* A container whose children all have one class, as many as the config    *)
(* says there are layers: the first of the known paths with one, otherwise *)
(* the first anywhere.  A known path does without the config's number.     *)
OneClass(t, i) ==
  /\ t[i].kind = "list"
  /\ Children(t, i) # {}
  /\ Cardinality({t[j].cls : j \in Children(t, i)}) = 1
DecoderClass(t, layers) ==
  LET counted(i) == Cardinality(Children(t, i)) = layers
      at(path) == {i \in Modules(t) : PathTo(t)[i] = path /\ OneClass(t, i) /\ (layers = 0 \/ counted(i))}
      fast == SelectSeq(KnownPaths, LAMBDA path : at(path) # {})
      slow == {i \in Modules(t) : OneClass(t, i) /\ layers > 0 /\ counted(i)}
      found == IF fast # <<>> THEN at(Head(fast)) ELSE slow
  IN  IF found = {} THEN "none" ELSE t[First(Children(t, First(found)))].cls

(* Containers of experts, and blocks of shared experts beside them. *)
Containers(t) == {i \in Modules(t) : t[i].name \in ExpertNames /\ t[i].kind = "list" /\ Cardinality(Children(t, i)) >= 2}
Routed(t) == UNION {Children(t, i) : i \in Containers(t)}
SharedBlocks(t) ==
  {i \in Modules(t) : t[i].name \in SharedNames
     /\ (t[i].kind = "list" \/ (HasParameters(t, i) /\ i \notin Routed(t)))}
Shared(t) == UNION {IF t[i].kind = "list" THEN Children(t, i) ELSE {i} : i \in SharedBlocks(t)} \ Routed(t)
ExpertModules(t) == InOrder(Routed(t)) \o InOrder(Shared(t))
ExpertClass(t) == IF Routed(t) = {} THEN "none" ELSE t[First(Routed(t))].cls

(* Routers are looked for only beside experts, and are never projections. *)
FaultyLooksLikeRouter(name) == name \in {"gate", "router"}
LooksLikeRouter(name) == name \in GateNames \ ProjectionNames
RouterModules(t) ==
  {i \in Modules(t) :
     /\ t[i].up \in {t[j].up : j \in Containers(t) \cup SharedBlocks(t)} \ {0}
     /\ LooksLikeRouter(t[i].name)
     /\ HasParameters(t, i)}

(* The linear layers of one decoder layer, without the names of routers. *)
LoraTargets(t, decoder, routers) ==
  LET samples == {i \in Modules(t) : t[i].cls = decoder}
      linear(s) == {t[i].name : i \in {j \in Within(t, s) : t[j].kind = "linear"}}
  IN  IF samples = {} THEN {} ELSE linear(First(samples)) \ {t[r].name : r \in routers}

MoeConfig(config) == config.experts > 0 \/ config.moeName
AuxLoss(config) == config.auxLoss \/ MoeConfig(config)
OrIfZero(a, b) == IF a > 0 THEN a ELSE b

(* introspect_model.  The structure overrules the configuration. *)
Introspect(t, config) ==
  LET routers == RouterModules(t)
      experts == ExpertModules(t)
      decoder == DecoderClass(t, config.layers)
  IN  [isMoe       |-> MoeConfig(config) \/ experts # <<>>,
       numExperts  |-> IF experts = <<>> THEN config.experts
                       ELSE OrIfZero(config.experts, Len(experts) \div OrIfZero(config.layers, 1)),
       decoderCls  |-> decoder,
       expertCls   |-> ExpertClass(t),
       experts     |-> experts,
       routers     |-> routers,
       hasAuxLoss  |-> AuxLoss(config),
       loraTargets |-> LoraTargets(t, decoder, routers),
       dtype       |-> IF config.dtype = "none" THEN config.stored ELSE config.dtype]
=============================================================================
