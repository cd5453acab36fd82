---------------------------- MODULE ExpertSlots ----------------------------
(***************************************************************************)
(* The slot table of one DynamicMoELayerWrapper (inference/colossus/       *)
(* dynamic_cache.py): which expert each preallocated GPU slot holds and in *)
(* which order the slots were last used.  The operators are the wrapper's  *)
(* updates of that table, one for each way the code changes it; the        *)
(* machines that run them are ExpertCache and ExpertDma.                   *)
(*                                                                         *)
(* Slots and experts are numbered from 1 where the code counts from 0, and *)
(* None stands for "not a key of the dict".  The rebinding of an expert's  *)
(* weight tensors (to the slot on a load, to the zero dummy on an          *)
(* eviction or a reset) follows expert_to_slot in the same call, so        *)
(* expert_to_slot[e] = None also says that e is bound to the dummy.        *)
(***************************************************************************)
EXTENDS SlotOrder, FiniteSets

CONSTANTS NumExperts,  \* len(moe_block.experts)
          Capacity     \* GPU slots per layer (hot_expert_topk)

ASSUME SlotAssumption == NumExperts \in Nat \ {0} /\ Capacity \in Nat \ {0}

Experts == 1..NumExperts
Slots   == 1..Capacity
None    == 0

SlotTable ==
  [expert_to_slot : [Experts -> Slots \cup {None}],
   slot_to_expert : [Slots -> Experts \cup {None}],
   free_slots     : Seq(Slots),
   slot_lru       : Seq(Slots)]

Resident(c) == {e \in Experts : c.expert_to_slot[e] # None}
Occupied(c) == {s \in Slots : c.slot_to_expert[s] # None}

(* The table after the first w experts were loaded into an empty one,      *)
(* whose free list is in index order.                                      *)
WarmTable(w) ==
  [expert_to_slot |-> [e \in Experts |-> IF e <= w THEN e ELSE None],
   slot_to_expert |-> [s \in Slots |-> IF s <= w THEN s ELSE None],
   free_slots     |-> [i \in 1..(Capacity - w) |-> w + i],
   slot_lru       |-> [i \in 1..w |-> i]]

-----------------------------------------------------------------------------

(* Definitions named Faulty... are what a plausible slip in the code would *)
(* make of the definition that follows; no specification uses them.        *)

(* A hit: s becomes the most recent.                                       *)
Touched(c, s) == [c EXCEPT !.slot_lru = MoveToEnd(@, s)]

(* The position in slot_lru of the slot an eviction takes: the least       *)
(* recently used one outside locked, or the very oldest when every slot is *)
(* locked.                                                                 *)
Evictable(c, locked) == {i \in DOMAIN c.slot_lru : c.slot_lru[i] \notin locked}
FaultyVictimPosition(c, locked) == Len(c.slot_lru)
VictimPosition(c, locked) ==
  LET E == Evictable(c, locked)
  IN  IF E = {} THEN 1 ELSE CHOOSE i \in E : \A j \in E : i <= j

(* Bind expert e to slot s and make s the most recent entry of lru.        *)
FaultyBound(c, e, s, free, lru) ==
  [expert_to_slot |-> [c.expert_to_slot EXCEPT ![e] = s],
   slot_to_expert |-> [c.slot_to_expert EXCEPT ![s] = e],
   free_slots     |-> free,
   slot_lru       |-> Append(lru, s)]
Bound(c, e, s, free, lru) ==
  [expert_to_slot |->
     [x \in Experts |-> IF x = e THEN s
                        ELSE IF x = c.slot_to_expert[s] THEN None
                        ELSE c.expert_to_slot[x]],
   slot_to_expert |-> [c.slot_to_expert EXCEPT ![s] = e],
   free_slots     |-> free,
   slot_lru       |-> Append(lru, s)]

(* _load_to_slot: a hit only touches the slot; a miss takes the first free *)
(* slot, or evicts the victim and takes its slot.                          *)
Loaded(c, e, locked) ==
  IF c.expert_to_slot[e] # None THEN Touched(c, c.expert_to_slot[e])
  ELSE IF c.free_slots # << >>
       THEN Bound(c, e, Head(c.free_slots), Tail(c.free_slots), c.slot_lru)
       ELSE LET v == VictimPosition(c, locked)
            IN  Bound(c, e, c.slot_lru[v], c.free_slots, RemoveAt(c.slot_lru, v))

-----------------------------------------------------------------------------

(* The two dicts are inverse to each other, and slot_lru and free_slots    *)
(* list every slot between them, once.  It is what keeps the code's        *)
(* list.remove, dict.pop and candidates[0] from raising.                   *)
Consistent(c) ==
  /\ \A e \in Experts : c.expert_to_slot[e] # None
                          => c.slot_to_expert[c.expert_to_slot[e]] = e
  /\ \A s \in Slots : c.slot_to_expert[s] # None
                        => c.expert_to_slot[c.slot_to_expert[s]] = s
  /\ Injective(c.slot_lru)
  /\ Injective(c.free_slots)
  /\ ToSet(c.slot_lru) = Occupied(c)
  /\ ToSet(c.free_slots) = Slots \ Occupied(c)

=============================================================================
