---------------------------- MODULE ExpertOffload ----------------------------
(* ExpertOffloadManager as the engine uses it: before generate() the experts  *)
(* a prompt is not predicted to need are moved to the CPU behind a wrapper    *)
(* that fetches them when they are routed to, afterwards all are moved back   *)
(* and unwrapped.  A generate() that raises skips the second half.            *)
EXTENDS Naturals, Sequences, FiniteSets

CONSTANTS Layer, Index,    \* the MoE layers, the experts of each
          HotTopK,         \* hot_expert_topk
          MaxRequests      \* bound: requests in a behaviour

Module == Layer \X Index

VARIABLES
    place,     \* Module -> where its parameters are
    depth,      \* Module -> how many wrappers its forward goes through
    original,   \* Module -> depth of the forward the module has saved, or <<>>
    wrapped,    \* self._jit_wrapped (a module listed twice is unwrapped once)
    offloaded,  \* self._offloaded: layer -> experts, for the layers profiled
    phase, profile,    \* the request; what the profile of its prompt says
    remaining,       \* experts the offload loop has still to look at
    requests,
    abandoned   \* history: experts off the place or wrapped when a request raised
offloadVars == <<place, depth, original, wrapped, offloaded, phase, profile, remaining, requests, abandoned>>

Recorded == {e \in Module : e[1] \in DOMAIN offloaded /\ e[2] \in offloaded[e[1]]}
OffDevice == {e \in Module : place[e] = "cpu"}
Wrapped == {e \in Module : depth[e] > 0}

OffloadInit ==
    /\ place = [e \in Module |-> "gpu"] /\ depth = [e \in Module |-> 0]
    /\ original = [e \in Module |-> <<>>] /\ wrapped = {}
    /\ offloaded = <<>> /\ profile = <<>> /\ remaining = {}
    /\ phase = "idle" /\ requests = 0 /\ abandoned = {}

\* A layer is profiled if its router is known and the hook has seen a state.
HotMaps == UNION {[layers -> {s \in SUBSET Index : Cardinality(s) <= HotTopK}] : layers \in SUBSET Layer}

\* profile_prompt, and the start of offload_cold_experts, which forgets what
\* an earlier call moved.  An empty profile leaves everything alone.
ProfileAndOffload(map) ==
    /\ phase = "idle" /\ requests < MaxRequests /\ requests' = requests + 1
    /\ profile' = map
    /\ IF DOMAIN map = {}
       THEN phase' = "generate" /\ UNCHANGED <<offloaded, remaining>>
       ELSE /\ phase' = "offload"
            /\ offloaded' = [l \in DOMAIN map |-> {}]
            /\ remaining' = {e \in Module : e[1] \in DOMAIN map}
    /\ UNCHANGED <<place, depth, original, wrapped, abandoned>>

InstallWrapper(e) ==
    /\ original' = [original EXCEPT ![e] = <<depth[e]>>]
    /\ depth' = [depth EXCEPT ![e] = @ + 1]
    /\ wrapped' = wrapped \cup {e}

OffloadExpert(e) ==
    /\ phase = "offload" /\ e \in remaining
    /\ remaining' = remaining \ {e}
    /\ IF e[2] \in profile[e[1]]
       THEN UNCHANGED <<place, depth, original, wrapped, offloaded>>
       ELSE /\ place' = [place EXCEPT ![e] = "cpu"]
            /\ offloaded' = [offloaded EXCEPT ![e[1]] = @ \cup {e[2]}]
            /\ InstallWrapper(e)
    /\ UNCHANGED <<phase, profile, requests, abandoned>>

OffloadEnds ==
    /\ phase = "offload" /\ remaining = {}
    /\ phase' = "generate"
    /\ UNCHANGED <<place, depth, original, wrapped, offloaded, profile, remaining, requests, abandoned>>

RequestRaises ==
    /\ phase' = "idle" /\ abandoned' = abandoned \cup OffDevice \cup Wrapped
    /\ UNCHANGED <<place, depth, original, wrapped, offloaded, profile, remaining, requests>>

\* generate() routes to an expert: a wrapper brings it to the place, where it
\* stays; an expert off the place without one makes the forward raise.
RunExpert(e) ==
    /\ phase = "generate"
    /\ IF place[e] = "gpu" \/ depth[e] > 0
       THEN /\ place' = [place EXCEPT ![e] = "gpu"]
            /\ UNCHANGED <<depth, original, wrapped, offloaded, phase, profile, remaining, requests, abandoned>>
       ELSE RequestRaises

GenerateRaises == phase = "generate" /\ RequestRaises

\* _uninstall_all_jit_wrappers: a module wrapped twice has lost its first
\* saved forward, and gets back the one saved last.
FaultyUnwrapped == {e \in wrapped \cap Recorded : original[e] /= <<>> /\ place[e] = "cpu"}
Unwrapped == {e \in wrapped : original[e] /= <<>>}
UninstallWrappers ==
    /\ depth' = [e \in Module |-> IF e \in Unwrapped THEN original[e][1] ELSE depth[e]]
    /\ original' = [e \in Module |-> IF e \in Unwrapped THEN <<>> ELSE original[e]]
    /\ wrapped' = {}

RestoreAllExperts ==
    /\ phase = "generate" /\ phase' = "idle"
    /\ UninstallWrappers
    /\ place' = [e \in Module |-> IF e \in Recorded THEN "gpu" ELSE place[e]]
    /\ offloaded' = <<>>
    /\ UNCHANGED <<profile, remaining, requests, abandoned>>

RequestsDone == phase = "idle" /\ requests = MaxRequests /\ UNCHANGED offloadVars

OffloadNext ==
    \/ \E map \in HotMaps : ProfileAndOffload(map)
    \/ \E e \in Module : OffloadExpert(e) \/ RunExpert(e)
    \/ OffloadEnds \/ GenerateRaises \/ RestoreAllExperts \/ RequestsDone

----------------------------------------------------------------------------
\* Between requests every expert is on the place and calls its own forward,
\* and during one every expert that is not can be fetched ("correct execution
\* for any routing decision the model makes"), except for experts that were
\* away when an earlier request raised.
StrandedOnlyByFailures ==
    /\ phase = "idle" => OffDevice \cup Wrapped \subseteq abandoned
    /\ phase = "generate" => OffDevice \subseteq Wrapped \cup abandoned
=============================================================================
