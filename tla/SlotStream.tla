----------------------------- MODULE SlotStream -----------------------------
(***************************************************************************)
(* One DeepSeekColossusMoEWrapper (rudra/serve_deepseek_colossus.py): the  *)
(* expert slots of a layer, the ways weights get into them, and the two    *)
(* CUDA streams involved.                                                  *)
(*                                                                         *)
(* The weights move as whole matrices, as blocks of which the hot ones are *)
(* prefetched and the rest completed on demand (C-1), as compressed bytes  *)
(* decoded on the device (ANS), or only the hot columns move at all (H2b). *)
(* A slot is two parts, hot and cold.  Copies of whole matrices, blocks    *)
(* and columns run on dma_stream; decoding and the expert products run on  *)
(* the current stream; the host only waits where the code reads a value    *)
(* back from the device (item, tolist, cpu), and the current stream only   *)
(* where wait_stream tells it to.                                          *)
(***************************************************************************)
EXTENDS Integers, FiniteSets, SlotOrder

CONSTANTS
  Expert,        \* the routed experts
  Capacity,      \* slots of the layer
  PrefetchTopK,  \* --prefetch_topk
  Calibrated,    \* the experts calib.json has an entry for
  Indexed,       \* those of them whose hot blocks the block index lists
  Movement,      \* the ways of moving weights to look at
  Pinning,       \* the values of --pinned_staging to look at
  MaxForwards    \* bound: forward passes

ASSUME SlotAssumption ==
  /\ Expert \subseteq Nat /\ IsFiniteSet(Expert) /\ Capacity \in Nat \ {0} /\ PrefetchTopK \in Nat
  /\ Indexed \subseteq Calibrated /\ Calibrated \subseteq Expert /\ Pinning \subseteq BOOLEAN
  /\ Movement \subseteq {"whole", "columns", "ans", "hot"}

VARIABLES
  config,      \* the flags the process was started with
  slotExpert,  \* slot_to_expert
  expertSlot,  \* expert_to_slot
  lru,         \* slot_lru
  prefetched,  \* the keys of _prefetched: moved ahead, not yet verified
  colState,    \* slot_col_state[s]["expert"]: whose hot blocks are staged
  staged,      \* _c1_staged
  held,        \* device: whose weights each part of each slot holds
  pinnedBuf,   \* whose weights the shared pinned triple holds
  dma,         \* copies dma_stream has not executed yet
  current,     \* operations of the current stream not executed yet
  behind,      \* copies the current stream was last told to wait for
  misread,     \* products that met other weights: did their forward fit?
  host,        \* where the host is
  needed,      \* needed_experts of this forward
  todo,        \* experts the loop the host is in has still to go through
  quota,       \* experts it may still stage
  forwards

books == <<slotExpert, expertSlot, lru, colState, staged>>
device == <<held, pinnedBuf, dma, current, behind, misread>>
slotVars == <<config, books, prefetched, device, host, needed, todo, quota, forwards>>

Slot == 0 .. Capacity - 1
None == -1
Hot == "hot"
Cold == "cold"
Part == {Hot, Cold}
First(S) == CHOOSE e \in S : \A x \in S : e <= x

(* What the assertions before the run let through.                         *)
LegalFlags ==
  {c \in [movement : Movement, zssr : BOOLEAN, pinned : Pinning] :
     /\ c.movement = "columns" => c.zssr
     /\ c.movement = "hot" => ~c.zssr}

SlotInit ==
  /\ config \in LegalFlags
  /\ slotExpert = [s \in Slot |-> None]
  /\ expertSlot = [e \in Expert |-> None]
  /\ lru = [i \in 1 .. Capacity |-> i - 1]
  /\ prefetched = {}
  /\ colState = [s \in Slot |-> None] /\ staged = [e \in Expert |-> None]
  /\ held = [s \in Slot |-> [p \in Part |-> None]]
  /\ pinnedBuf = None
  /\ dma = << >> /\ current = << >> /\ behind = 0 /\ misread = {}
  /\ host = "entrance" /\ needed = {} /\ todo = {} /\ quota = 0 /\ forwards = 0

Fits == Cardinality(needed) <= Capacity
Resident(e) == expertSlot[e] # None

-----------------------------------------------------------------------------
(* The streams *)

(* A copy from the pinned triple takes what is there when it runs.         *)
Triple == -2
Copy(s, parts, e) == [slot |-> s, parts |-> parts, from |-> e]

DmaStep ==
  /\ dma # << >>
  /\ LET c == Head(dma)
         e == IF c.from = Triple THEN pinnedBuf ELSE c.from
     IN  held' = [held EXCEPT ![c.slot] = [p \in Part |-> IF p \in c.parts THEN e ELSE @[p]]]
  /\ dma' = Tail(dma)
  /\ behind' = IF behind > 0 THEN behind - 1 ELSE 0
  /\ current' = [i \in DOMAIN current |->
                   [current[i] EXCEPT !.after = IF @ > 0 THEN @ - 1 ELSE 0]]
  /\ UNCHANGED <<config, books, prefetched, pinnedBuf, misread, host, needed, todo, quota, forwards>>

(* The hot columns are all the device multiplies with in H2b.              *)
Read == IF config.movement = "hot" THEN {Hot} ELSE Part

CurrentStep ==
  /\ current # << >>
  /\ LET op == Head(current)
     IN  /\ op.after = 0
         /\ IF op.op = "decode"
            THEN /\ held' = [held EXCEPT ![op.slot] = [p \in Part |-> op.expert]]
                 /\ UNCHANGED misread
            ELSE /\ misread' = IF \A p \in Read : held[op.slot][p] = op.expert
                               THEN misread ELSE misread \cup {op.fit}
                 /\ UNCHANGED held
  /\ current' = Tail(current)
  /\ UNCHANGED <<config, books, prefetched, pinnedBuf, dma, behind, host, needed, todo, quota, forwards>>

Launch(op, s, e, after) ==
  current' = Append(current, [op |-> op, slot |-> s, expert |-> e, after |-> after, fit |-> Fits])

(* The host is held up until the current stream has nothing left.          *)
ReadBack == current = << >> /\ behind = 0

-----------------------------------------------------------------------------
(* Moving an expert into a slot *)

Bind(e, s) ==
  /\ slotExpert' = [slotExpert EXCEPT ![s] = e]
  /\ expertSlot' = [x \in Expert |-> IF x = e THEN s
                                     ELSE IF x = slotExpert[s] THEN None ELSE expertSlot[x]]

(* _c1_unbind_slot: what the two tables of the staging forget about s.     *)
Unstaged(s) ==
  /\ colState' = [colState EXCEPT ![s] = None]
  /\ staged' = [e \in Expert |-> IF e = colState[s] THEN None ELSE staged[e]]
Unverified(s) == prefetched \ {colState[s]}

(* _load_expert_to_slot, and _h2b_load_hot, which moves only the hot part. *)
Stream(e, s) ==
  LET viaTriple == config.pinned /\ config.movement # "hot"
  IN  /\ dma' = Append(dma, Copy(s, Read, IF viaTriple THEN Triple ELSE e))
      /\ pinnedBuf' = IF viaTriple THEN e ELSE pinnedBuf
      /\ Bind(e, s)

(* The oldest slot takes e: a copy, or a decoding on the current stream.   *)
FaultyTakeOldest(e) ==
  LET s == Head(lru) IN
  /\ lru' = Append(Tail(lru), s)
  /\ IF config.movement = "ans"
     THEN /\ Bind(e, s) /\ Launch("decode", s, e, behind)
          /\ UNCHANGED <<dma, pinnedBuf, colState, staged>>
     ELSE /\ Stream(e, s) /\ UNCHANGED current
          /\ UNCHANGED <<colState, staged>>
TakeOldest(e) ==
  LET s == Head(lru) IN
  /\ lru' = Append(Tail(lru), s)
  /\ IF config.movement = "ans"
     THEN /\ Bind(e, s) /\ Launch("decode", s, e, behind)
          /\ UNCHANGED <<dma, pinnedBuf, colState, staged>>
     ELSE /\ Stream(e, s) /\ UNCHANGED current
          /\ IF config.movement = "columns" THEN Unstaged(s)
             ELSE UNCHANGED <<colState, staged>>

-----------------------------------------------------------------------------
(* The layer-entrance hook: zssr_prefetch *)

(* The probe reads its scores back.  It may be refused for its confidence; *)
(* else what is neither resident nor under way is moved ahead, in the      *)
(* order of the scores.  At most half of the slots are to hold stagings.   *)
Predicted == IF PrefetchTopK <= Cardinality(Expert) THEN PrefetchTopK ELSE Cardinality(Expert)
MayStage ==
  LET cap == IF Capacity >= 2 THEN Capacity \div 2 ELSE 1
      have == Cardinality({s \in Slot : colState[s] # None})
  IN  IF have < cap THEN cap - have ELSE 0

Probe ==
  /\ host = "entrance" /\ forwards < MaxForwards /\ config.zssr
  /\ ReadBack
  /\ \E pred \in SUBSET Expert, admitted \in BOOLEAN :
       /\ Cardinality(pred) = Predicted
       /\ todo' = {e \in pred : admitted /\ ~Resident(e) /\ e \notin prefetched}
  /\ quota' = MayStage
  /\ host' = "prefetch"
  /\ UNCHANGED <<config, books, prefetched, device, needed, forwards>>

NoProbe ==
  /\ host = "entrance" /\ forwards < MaxForwards /\ ~config.zssr
  /\ host' = "gate"
  /\ UNCHANGED <<config, books, prefetched, device, needed, todo, quota, forwards>>

(* A compressed prefetch takes all its slots before it gives one back: an  *)
(* exception for want of a slot leaves them taken, and the hook drops it.  *)
RunsDry == config.movement = "ans" /\ Cardinality(todo) > Len(lru)
PrefetchFails ==
  /\ host = "prefetch" /\ RunsDry
  /\ lru' = << >> /\ todo' = {} /\ host' = "gate"
  /\ UNCHANGED <<config, slotExpert, expertSlot, colState, staged, prefetched, device,
                 needed, quota, forwards>>

PrefetchOne(e) ==
  /\ host = "prefetch" /\ e \in todo /\ config.movement # "columns" /\ ~RunsDry
  /\ TakeOldest(e)
  /\ prefetched' = prefetched \cup {e}
  /\ todo' = todo \ {e}
  /\ UNCHANGED <<config, held, behind, misread, host, needed, quota, forwards>>

(* _c1_prefetch_stage: the slot goes to the back, whatever becomes of it.  *)
(* What is not calibrated leaves it alone; what has no hot block unbinds   *)
(* it and is not staged.                                                   *)
Unbound(s) ==
  /\ slotExpert' = [slotExpert EXCEPT ![s] = None]
  /\ expertSlot' = [x \in Expert |-> IF x = slotExpert[s] THEN None ELSE expertSlot[x]]

StageOne(e) ==
  /\ host = "prefetch" /\ e \in todo /\ config.movement = "columns" /\ quota > 0
  /\ todo' = todo \ {e}
  /\ LET s == Head(lru) IN
     /\ lru' = Append(Tail(lru), s)
     /\ \/ /\ e \notin Calibrated
           /\ UNCHANGED <<slotExpert, expertSlot, colState, staged, prefetched, dma, quota>>
        \/ /\ e \in Calibrated \ Indexed
           /\ Unbound(s) /\ Unstaged(s) /\ prefetched' = Unverified(s)
           /\ UNCHANGED <<dma, quota>>
        \/ /\ e \in Indexed
           /\ Unbound(s)
           /\ colState' = [colState EXCEPT ![s] = e]
           /\ staged' = [x \in Expert |-> IF x = e THEN s
                                          ELSE IF x = colState[s] THEN None ELSE staged[x]]
           /\ prefetched' = Unverified(s) \cup {e}
           /\ dma' = Append(dma, Copy(s, {Hot}, e))
           /\ quota' = quota - 1
  /\ UNCHANGED <<config, held, pinnedBuf, current, behind, misread, host, needed, forwards>>

PrefetchEnds ==
  /\ host = "prefetch"
  /\ todo = {} \/ (config.movement = "columns" /\ quota = 0)
  /\ host' = "gate" /\ todo' = {}
  /\ UNCHANGED <<config, books, prefetched, device, needed, quota, forwards>>

-----------------------------------------------------------------------------
(* forward *)

(* The routing is read back and settles what was moved ahead.  A draft     *)
(* forward (shared_only) ends there.                                       *)
RouteTo(n, draft) ==
  LET short == ~draft /\ Cardinality(n) <= Capacity IN
  /\ needed' = n
  /\ prefetched' = prefetched \ n
  /\ host' = IF draft THEN "done" ELSE IF short THEN "touch" ELSE "count"
  /\ todo' = {e \in n : short /\ Resident(e)}

Route ==
  /\ host = "gate" /\ ReadBack
  /\ \E n \in SUBSET Expert \ {{}}, draft \in BOOLEAN : RouteTo(n, draft)
  /\ UNCHANGED <<config, books, device, quota, forwards>>

(* If all needed experts fit, the slots of the resident ones go to the     *)
(* back first, so that none is taken.                                      *)
TouchHit ==
  /\ host = "touch" /\ todo # {}
  /\ LET s == expertSlot[First(todo)] IN
     IF s \in ToSet(lru)
     THEN lru' = MoveToEnd(lru, s) /\ todo' = todo \ {First(todo)} /\ UNCHANGED host
     ELSE host' = "failed" /\ UNCHANGED <<lru, todo>>
  /\ UNCHANGED <<config, slotExpert, expertSlot, colState, staged, prefetched, device,
                 needed, quota, forwards>>

HitsTouched ==
  /\ host = "touch" /\ todo = {}
  /\ host' = "missing" /\ todo' = {e \in needed : ~Resident(e)}
  /\ UNCHANGED <<config, books, prefetched, device, needed, quota, forwards>>

(* C-1: the hot blocks are there, the others follow (_c1_complete).  The   *)
(* slot had nobody: only the two entries of e are written.                 *)
IsStaged(e) == config.movement = "columns" /\ staged[e] # None
FaultyComplete(e) ==
  LET s == staged[e] IN
  /\ dma' = Append(dma, Copy(s, {Cold}, e))
  /\ colState' = [colState EXCEPT ![s] = None]
  /\ staged' = [staged EXCEPT ![e] = None]
  /\ slotExpert' = [slotExpert EXCEPT ![s] = e] /\ expertSlot' = [expertSlot EXCEPT ![e] = s]
  /\ lru' = Append(lru, s)
  /\ behind' = Len(dma')
  /\ UNCHANGED <<current, pinnedBuf>>
Complete(e) ==
  LET s == staged[e] IN
  /\ dma' = Append(dma, Copy(s, IF colState[s] = None THEN Part ELSE {Cold}, e))
  /\ colState' = [colState EXCEPT ![s] = None]
  /\ staged' = [staged EXCEPT ![e] = None]
  /\ slotExpert' = [slotExpert EXCEPT ![s] = e] /\ expertSlot' = [expertSlot EXCEPT ![e] = s]
  /\ lru' = IF s \in ToSet(lru) THEN MoveToEnd(lru, s) ELSE Append(lru, s)
  /\ behind' = Len(dma')
  /\ UNCHANGED <<current, pinnedBuf>>

Unavailable == lru = << >>
LoadMissing ==
  /\ host = "missing" /\ todo # {}
  /\ LET e == First(todo) IN
     IF ~IsStaged(e) /\ Unavailable
     THEN host' = "failed" /\ UNCHANGED <<books, prefetched, device, todo>>
     ELSE /\ IF IsStaged(e) THEN Complete(e) /\ UNCHANGED prefetched
             ELSE /\ TakeOldest(e)
                  /\ prefetched' = IF config.movement = "columns" THEN Unverified(Head(lru))
                                   ELSE prefetched
                  /\ UNCHANGED behind
          /\ todo' = todo \ {e}
          /\ UNCHANGED <<held, misread>>
          /\ host' = IF todo = {e} THEN "loaded" ELSE host
  /\ UNCHANGED <<config, needed, quota, forwards>>

(* wait_stream, only where something was missing and came over the bus.    *)
FaultyMissingLoaded ==
  /\ host = "loaded"
  /\ UNCHANGED behind
  /\ host' = "count"
  /\ UNCHANGED <<config, books, prefetched, held, pinnedBuf, dma, current, misread, needed,
                 todo, quota, forwards>>
MissingLoaded ==
  /\ host = "loaded"
  /\ behind' = IF config.movement = "ans" THEN behind ELSE Len(dma)
  /\ host' = "count"
  /\ UNCHANGED <<config, books, prefetched, held, pinnedBuf, dma, current, misread, needed,
                 todo, quota, forwards>>
NothingMissing ==
  /\ host = "missing" /\ todo = {}
  /\ host' = "count"
  /\ UNCHANGED <<config, books, prefetched, device, needed, todo, quota, forwards>>

(* tokens_per_expert is read back before the products are launched.        *)
CountTokens ==
  /\ host = "count" /\ ReadBack
  /\ todo' = needed /\ host' = "compute"
  /\ UNCHANGED <<config, books, prefetched, device, needed, quota, forwards>>

(* One expert of the loop: its slot, loaded on the spot when it is in none *)
(* because the forward needs more experts than there are slots.            *)
ComputeResident ==
  /\ host = "compute" /\ todo # {} /\ Resident(First(todo))
  /\ LET e == First(todo)  s == expertSlot[e] IN
     IF ~Fits /\ s \notin ToSet(lru)
     THEN host' = "failed" /\ UNCHANGED <<lru, current>>
     ELSE /\ lru' = IF Fits THEN lru ELSE MoveToEnd(lru, s)
          /\ Launch("product", s, e, behind)
          /\ UNCHANGED host
  /\ todo' = todo \ {First(todo)}
  /\ UNCHANGED <<config, slotExpert, expertSlot, colState, staged, prefetched, held, pinnedBuf,
                 dma, behind, misread, needed, quota, forwards>>

LoadOnTheSpot ==
  /\ host = "compute" /\ todo # {} /\ ~Resident(First(todo))
  /\ IF Unavailable
     THEN host' = "failed" /\ UNCHANGED <<books, prefetched, device>>
     ELSE /\ TakeOldest(First(todo))
          /\ prefetched' = IF config.movement = "columns" THEN Unverified(Head(lru)) ELSE prefetched
          /\ behind' = IF config.movement = "ans" THEN behind ELSE Len(dma')
          /\ UNCHANGED <<held, misread, host>>
  /\ UNCHANGED <<config, needed, todo, quota, forwards>>

ForwardReturns ==
  /\ \/ host = "compute" /\ todo = {}
     \/ host = "done"
  /\ host' = "entrance" /\ forwards' = forwards + 1
  /\ UNCHANGED <<config, books, prefetched, device, needed, todo, quota>>

SlotNext ==
  \/ DmaStep \/ CurrentStep
  \/ Probe \/ NoProbe \/ PrefetchFails \/ PrefetchEnds
  \/ \E e \in Expert : PrefetchOne(e) \/ StageOne(e)
  \/ Route \/ TouchHit \/ HitsTouched \/ LoadMissing \/ MissingLoaded \/ NothingMissing
  \/ CountTokens \/ ComputeResident \/ LoadOnTheSpot \/ ForwardReturns

-----------------------------------------------------------------------------
(* A slot is never lost or listed twice, the two tables are inverse to one *)
(* another, and an expert is staged only in a slot that knows it and that  *)
(* no resident expert has; so a forward always finds the slot it needs.    *)
(* Only a compressed prefetch of more experts than slots can break this.   *)
RanDry == config.movement = "ans" /\ config.zssr /\ PrefetchTopK > Capacity /\ lru = << >>
BooksAgree ==
  /\ RanDry \/ (Injective(lru) /\ ToSet(lru) = Slot /\ host # "failed")
  /\ \A s \in Slot, e \in Expert : slotExpert[s] = e <=> expertSlot[e] = s
  /\ \A e \in Expert : staged[e] # None =>
       colState[staged[e]] = e /\ slotExpert[staged[e]] = None

(* When the needed experts fit into the slots, every product meets the     *)
(* weights of its own expert, whatever was staged, evicted or completed    *)
(* before: unless whole experts are moved ahead (their hits wait for       *)
(* nothing) or pass through the shared pinned triple.                      *)
DecodeExact ==
  TRUE \in misread => config.pinned \/ (config.zssr /\ config.movement = "whole")

(* The code says of the prefetch that it moves data only and that the      *)
(* result is exact: no product meets weights that are not its expert's.    *)
(* The code breaks this where a hit on a prefetched expert is not waited   *)
(* for.  (No run checks it; see the README.)                               *)
PrefetchExact == TRUE \notin misread
=============================================================================
