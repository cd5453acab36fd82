----------------------------- MODULE TieredMoE -----------------------------
(***************************************************************************)
(* The MoE layers of a model that does not fit the GPU: every layer is a   *)
(* TieredMoEWrapper (inference/colossus/placement.py) with a few slots for *)
(* whole experts, and the layers share the transfer stream on which the    *)
(* weights come in.  A call of the model runs its layers one after the     *)
(* other.                                                                  *)
(*                                                                         *)
(* The host executes forward step by step and enqueues copies on the       *)
(* transfer stream and computations on the current stream; the streams     *)
(* execute them later, each in order, independently of each other.         *)
(* wait_stream orders the current stream after the transfers issued so     *)
(* far; nothing orders a transfer after a computation.  tolist() and cpu() *)
(* block the host until the current stream has drained.  With placement    *)
(* "cpu" the experts run on the host and their weights come from a FIFO    *)
(* cache in host memory.                                                   *)
(*                                                                         *)
(* Slots and experts are numbered from 1; None stands for "not a key".     *)
(* zssr_prefetch is left out, since nothing in the package calls it, and   *)
(* with it the _prefetched dict, which only that method fills.             *)
(***************************************************************************)
EXTENDS SlotOrder, FiniteSets

CONSTANTS NumExperts,  \* spec.n_routed
          NumLayers,   \* MoE layers of the model
          TopK,        \* experts per token
          MaxCapacity, \* bound on the capacity a model is prepared with
          CpuCacheCap  \* cpu_cache_cap

ASSUME TieredAssumption ==
  /\ {NumExperts, NumLayers, TopK, CpuCacheCap} \subseteq Nat \ {0}
  /\ MaxCapacity \in Nat

VARIABLES
  option,   \* how the model was prepared: placement and capacity
  tier,     \* tier[l]: the slots of layer l
  fifo,     \* fifo[l]: _cpu_fifo of layer l, which lists the keys of _cpu_cache
  host,     \* where the host is in forward
  current,  \* what the current stream has not executed yet
  dma,      \* what the transfer stream has not executed yet
  held      \* held[l][s]: the expert whose weights are in slot s of layer l

tieredVars == <<option, tier, fifo, host, current, dma, held>>

Experts == 1..NumExperts
Layers  == 1..NumLayers
None    == 0

Streaming == option.capacity = 0
Capacity  == IF Streaming THEN 1 ELSE option.capacity
Slots     == 1..Capacity

EmptyTier(n) ==
  [expert_to_slot |-> [e \in Experts |-> None],
   slot_to_expert |-> [s \in 1..n |-> None],
   slot_lru       |-> [i \in 1..n |-> i]]

Resident(c) == {e \in Experts : c.expert_to_slot[e] # None}

HostStates ==
  [pc    : {"idle", "route", "touch", "admit", "count", "dispatch", "cpu", "failed"},
   layer : Layers,
   rows  : Nat,                 \* token positions of the call
   need  : SUBSET Experts,      \* needed_experts
   todo  : SUBSET Experts]      \* those the loop under way has not reached
Idle == [pc |-> "idle", layer |-> 1, rows |-> 0, need |-> {}, todo |-> {}]

(* needed_experts fit the slots: forward then loads what is missing first. *)
Fits == Cardinality(host.need) <= Capacity

(* sorted() and unique() make every loop go through the ids in order.      *)
First(S) == CHOOSE e \in S : \A x \in S : e <= x

-----------------------------------------------------------------------------
(* The tables *)

(* slot_lru.remove(slot); slot_lru.append(slot)                            *)
FaultyTouch(c, e) == c
Touch(c, e) == [c EXCEPT !.slot_lru = MoveToEnd(@, c.expert_to_slot[e])]

(* The oldest slot gives up its expert and takes e.                        *)
FaultyTake(c, e) ==
  LET s == Head(c.slot_lru)
  IN  [expert_to_slot |-> [c.expert_to_slot EXCEPT ![e] = s],
       slot_to_expert |-> [c.slot_to_expert EXCEPT ![s] = e],
       slot_lru       |-> Append(Tail(c.slot_lru), s)]
Take(c, e) ==
  LET s == Head(c.slot_lru)
  IN  [expert_to_slot |->
         [x \in Experts |-> IF x = e THEN s
                            ELSE IF x = c.slot_to_expert[s] THEN None
                            ELSE c.expert_to_slot[x]],
       slot_to_expert |-> [c.slot_to_expert EXCEPT ![s] = e],
       slot_lru       |-> Append(Tail(c.slot_lru), s)]

-----------------------------------------------------------------------------
(* The streams *)

Copy(l, s, e) == [op |-> "copy", layer |-> l, slot |-> s, expert |-> e]
Run(l, s, e)  == [op |-> "run", layer |-> l, slot |-> s, expert |-> e]
Event == [op |-> "event"]
Wait  == [op |-> "wait"]

Operations(s) ==
  {Event, Wait} \cup [op : {"copy", "run"}, layer : Layers, slot : s, expert : Experts]

Count(q, mark) == Cardinality({i \in DOMAIN q : q[i] = mark})

(* current_stream.wait_stream(dma_stream) records an event behind the      *)
(* transfers issued so far and makes the current stream wait for it.       *)
FaultyAfterTransfers(run) == run
AfterTransfers(run) == <<Wait>> \o run

Drained == current = << >>

CopyWeights ==
  /\ dma # << >>
  /\ dma' = Tail(dma)
  /\ held' = LET t == Head(dma)
             IN  IF t.op = "copy" THEN [held EXCEPT ![t.layer][t.slot] = t.expert]
                 ELSE held
  /\ UNCHANGED <<option, tier, fifo, host, current>>

(* Events and waits come in pairs, in the same order on both streams.      *)
Compute ==
  /\ current # << >>
  /\ Head(current) = Wait => Count(dma, Event) < Count(current, Wait)
  /\ current' = Tail(current)
  /\ UNCHANGED <<option, tier, fifo, host, dma, held>>

-----------------------------------------------------------------------------
(* forward *)

Init ==
  /\ option \in [placement : {"slots", "cpu"}, capacity : 0..MaxCapacity]
  /\ tier = [l \in Layers |-> EmptyTier(Capacity)]
  /\ fifo = [l \in Layers |-> << >>]
  /\ host = Idle
  /\ current = << >>
  /\ dma = << >>
  /\ held = [l \in Layers |-> [s \in Slots |-> None]]

(* The model is called with n token positions.                             *)
Call(n) ==
  /\ host.pc = "idle"
  /\ host' = [Idle EXCEPT !.pc = "route", !.rows = n]
  /\ UNCHANGED <<option, tier, fifo, current, dma, held>>

(* The router's choice comes back from the device.                         *)
Routings == {R \in SUBSET Experts : /\ TopK <= Cardinality(R)
                                    /\ Cardinality(R) <= TopK * host.rows}
Route(need) ==
  /\ host.pc = "route"
  /\ Drained
  /\ need \in Routings
  /\ LET fits == Cardinality(need) <= Capacity
         hits == need \cap Resident(tier[host.layer])
     IN  host' = IF option.placement = "cpu"
                   THEN [host EXCEPT !.pc = "cpu", !.need = need, !.todo = need]
                 ELSE IF fits
                   THEN [host EXCEPT !.pc = "touch", !.need = need, !.todo = hits]
                 ELSE [host EXCEPT !.pc = "count", !.need = need, !.todo = {}]
  /\ UNCHANGED <<option, tier, fifo, current, dma, held>>

(* First loop of a call that fits: the hits become the most recent.        *)
TouchHit(e) ==
  /\ host.pc = "touch"
  /\ host.todo # {}
  /\ e = First(host.todo)
  /\ tier' = [tier EXCEPT ![host.layer] = Touch(@, e)]
  /\ host' = [host EXCEPT !.todo = @ \ {e}]
  /\ UNCHANGED <<option, fifo, current, dma, held>>

FindMissing ==
  /\ host.pc = "touch"
  /\ host.todo = {}
  /\ host' = [host EXCEPT !.pc = "admit",
                          !.todo = host.need \ Resident(tier[host.layer])]
  /\ UNCHANGED <<option, tier, fifo, current, dma, held>>

(* Second loop: what is missing goes into the oldest slots.                *)
Admit(e) ==
  /\ host.pc = "admit"
  /\ host.todo # {}
  /\ e = First(host.todo)
  /\ tier' = [tier EXCEPT ![host.layer] = Take(@, e)]
  /\ dma' = Append(dma, Copy(host.layer, Head(tier[host.layer].slot_lru), e))
  /\ host' = [host EXCEPT !.todo = @ \ {e}]
  /\ UNCHANGED <<option, fifo, current, held>>

FaultyAdmitted ==
  /\ host.pc = "admit"
  /\ host.todo = {}
  /\ host' = [host EXCEPT !.pc = "count"]
  /\ UNCHANGED <<option, tier, fifo, current, dma, held>>
Admitted ==
  /\ host.pc = "admit"
  /\ host.todo = {}
  /\ current' = current \o AfterTransfers(<< >>)
  /\ dma' = Append(dma, Event)
  /\ host' = [host EXCEPT !.pc = "count"]
  /\ UNCHANGED <<option, tier, fifo, held>>

(* tokens_per_expert comes back from the device.                           *)
CountTokens ==
  /\ host.pc = "count"
  /\ Drained
  /\ host' = [host EXCEPT !.pc = "dispatch", !.todo = host.need]
  /\ UNCHANGED <<option, tier, fifo, current, dma, held>>

(* Last loop: the computations, one per expert.  Where the experts do not  *)
(* fit it also touches and loads.                                          *)
RunResident(e) ==
  LET c == tier[host.layer]
  IN  /\ host.pc = "dispatch"
      /\ host.todo # {}
      /\ e = First(host.todo)
      /\ e \in Resident(c)
      /\ tier' = IF Fits THEN tier ELSE [tier EXCEPT ![host.layer] = Touch(c, e)]
      /\ current' = Append(current, Run(host.layer, c.expert_to_slot[e], e))
      /\ host' = [host EXCEPT !.todo = @ \ {e}]
      /\ UNCHANGED <<option, fifo, dma, held>>

LoadAndRun(e) ==
  LET l == host.layer
      s == Head(tier[l].slot_lru)
  IN  /\ host.pc = "dispatch"
      /\ host.todo # {}
      /\ e = First(host.todo)
      /\ e \notin Resident(tier[l])
      /\ tier' = [tier EXCEPT ![l] = Take(@, e)]
      /\ dma' = dma \o <<Copy(l, s, e), Event>>
      /\ current' = current \o AfterTransfers(<<Run(l, s, e)>>)
      /\ host' = [host EXCEPT !.todo = @ \ {e}]
      /\ UNCHANGED <<option, fifo, held>>

(* get_tensor raises: the slot was already taken from the list, and the    *)
(* error ends the serving.                                                 *)
ReadFails ==
  /\ host.todo # {}
  /\ \/ /\ host.pc = "admit"
        /\ tier' = [tier EXCEPT ![host.layer].slot_lru = Tail(@)]
     \/ /\ host.pc = "dispatch"
        /\ First(host.todo) \notin Resident(tier[host.layer])
        /\ tier' = [tier EXCEPT ![host.layer].slot_lru = Tail(@)]
     \/ /\ host.pc = "cpu"
        /\ \E e \in host.todo : e \notin ToSet(fifo[host.layer])
        /\ UNCHANGED tier
  /\ host' = [host EXCEPT !.pc = "failed"]
  /\ UNCHANGED <<option, fifo, current, dma, held>>

(* An expert on the CPU: its weights are cached, the oldest entry leaves.  *)
FaultyCached(q, e) ==
  LET more == Append(q, e) IN IF Len(more) > CpuCacheCap THEN Tail(more) ELSE more
Cached(q, e) ==
  IF e \in ToSet(q) THEN q
  ELSE LET more == Append(q, e)
       IN  IF Len(more) > CpuCacheCap THEN Tail(more) ELSE more
RunOnCpu(e) ==
  /\ host.pc = "cpu"
  /\ e \in host.todo
  /\ fifo' = [fifo EXCEPT ![host.layer] = Cached(@, e)]
  /\ host' = [host EXCEPT !.todo = @ \ {e}]
  /\ UNCHANGED <<option, tier, current, dma, held>>

(* The layer's output is ready; a streaming layer forgets its bindings.    *)
EndLayer ==
  /\ host.pc \in {"dispatch", "cpu"}
  /\ host.todo = {}
  /\ tier' = IF Streaming /\ host.pc = "dispatch"
               THEN [tier EXCEPT ![host.layer] = EmptyTier(Capacity)] ELSE tier
  /\ host' = IF host.layer < NumLayers
               THEN [host EXCEPT !.pc = "route", !.layer = @ + 1,
                                 !.need = {}, !.todo = {}]
               ELSE Idle
  /\ UNCHANGED <<option, fifo, current, dma, held>>

Forward ==
  \/ \E need \in SUBSET Experts : Route(need)
  \/ \E e \in Experts : \/ TouchHit(e) \/ Admit(e)
                        \/ RunResident(e) \/ LoadAndRun(e) \/ RunOnCpu(e)
  \/ FindMissing \/ Admitted \/ CountTokens \/ EndLayer

Next ==
  \/ \E n \in Nat \ {0} : Call(n)
  \/ Forward \/ ReadFails \/ CopyWeights \/ Compute

Spec == Init /\ [][Next]_tieredVars

-----------------------------------------------------------------------------
(* Properties *)

TierTable ==
  [expert_to_slot : [Experts -> Slots \cup {None}],
   slot_to_expert : [Slots -> Experts \cup {None}],
   slot_lru       : Seq(Slots)]

(* Every variable has its type.                                            *)
TypeOK ==
  /\ option \in [placement : {"slots", "cpu"}, capacity : 0..MaxCapacity]
  /\ tier \in [Layers -> TierTable]
  /\ fifo \in [Layers -> Seq(Experts)]
  /\ host \in HostStates
  /\ current \in Seq(Operations(Slots))
  /\ dma \in Seq(Operations(Slots))
  /\ held \in [Layers -> [Slots -> Experts \cup {None}]]

(* The two dicts are inverse to each other, slot_lru lists every slot      *)
(* once, and the FIFO of the CPU cache lists no expert twice and stays     *)
(* below its bound; otherwise a remove or a pop of the code would raise or *)
(* two experts would share a slot (placement.py:153-156, 201-205).         *)
ConsistentTier(c) ==
  /\ \A e \in Experts : c.expert_to_slot[e] # None
                          => c.slot_to_expert[c.expert_to_slot[e]] = e
  /\ \A s \in Slots : c.slot_to_expert[s] # None
                        => c.expert_to_slot[c.slot_to_expert[s]] = s
  /\ Injective(c.slot_lru)
  /\ ToSet(c.slot_lru) = Slots
TiersConsistent ==
  host.pc # "failed"
    => \A l \in Layers : /\ ConsistentTier(tier[l])
                         /\ Injective(fifo[l])
                         /\ Len(fifo[l]) <= CpuCacheCap

(* A forward whose experts fit never evicts one of them: although no slot  *)
(* is locked, what it has touched or loaded stays resident until its last  *)
(* loop has run it, so that loop never loads (placement.py:267-304).       *)
FittingStaysResident ==
  LET resident == Resident(tier[host.layer])
  IN  (option.placement = "slots" /\ Fits) =>
        /\ host.pc = "admit" => host.need \ host.todo \subseteq resident
        /\ host.pc \in {"count", "dispatch"} => host.need \subseteq resident

(* Once a forward that fits has reached its last loop, every computation   *)
(* it enqueues will find the weights of its own expert in the slot,        *)
(* however the streams interleave (placement.py:280-306).                      *)
FittingRunsOwnWeights ==
  (host.pc = "dispatch" /\ Fits)
    => \A i \in DOMAIN current :
         current[i].op = "run" => held[current[i].layer][current[i].slot]
                                    = current[i].expert

(* Whether the experts fit or not, no computation starts before the        *)
(* transfer of its expert into its slot is over (placement.py:160-162,     *)
(* 304).                                                                   *)
WeightsArrived ==
  (current # << >> /\ Head(current).op = "run")
    => \A i \in DOMAIN dma : [dma[i] EXCEPT !.op = "run"] # Head(current)

=============================================================================
