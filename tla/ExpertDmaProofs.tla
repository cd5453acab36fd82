-------------------------- MODULE ExpertDmaProofs --------------------------
(***************************************************************************)
(* Proofs about the dynamic expert cache, alone and on its device, for any *)
(* number of experts, slots and layers.                                    *)
(*                                                                         *)
(* Part 1 is about ExpertCache: the slot tables stay consistent, every     *)
(* expert that runs is resident, a prefetch or warmup keeps what it loads, *)
(* and seen as experts the tables are LRU sets.  It begins with the        *)
(* operators of ExpertSlots alone.                                         *)
(*                                                                         *)
(* Part 2 is about ExpertDma: the composed system is the cache of part 1   *)
(* with a device that lags behind (DmaImplementsCache); whoever waits for  *)
(* the events waits for the transfers (EventsAlwaysCover); where every     *)
(* forward waits, weights are in their slots when they are read            *)
(* (WeightsAlwaysArrive); and where moreover the streams work in turn, the *)
(* receive buffers they share lose nothing (TransfersAlwaysLossless).  The *)
(* last two are false without their hypotheses, EveryForwardWaits and      *)
(* TransfersInTurn.                                                        *)
(***************************************************************************)
EXTENDS ExpertDma, SlotOrderProofs, FiniteSetTheorems, TLAPS

(***************************************************************************)
(* PART 1.  THE CACHE                                                      *)
(***************************************************************************)

(* What is locked while a forward serves a batch that fits: the slots of   *)
(* those experts of the batch that were handled and are resident; in the   *)
(* second loop all the handled ones are.                                   *)
ServedLocked ==
  LET c == cache[host.layer]
      handled == (host.batch \ host.todo) \cap Resident(c)
  IN  /\ host.pc \in {"lock", "load"}
           => /\ host.todo \subseteq host.batch
              /\ Cardinality(host.batch) <= Capacity
              /\ host.locked = {c.expert_to_slot[e] : e \in handled}
      /\ host.pc = "load" => host.batch \ host.todo \subseteq Resident(c)

(* The inductive invariant.                                                *)
IInv == TypeOK /\ TablesConsistent /\ RoutedResident /\ ServedLocked

(***************************************************************************)
(* The slot table                                                          *)
(***************************************************************************)

(* None stands for "not a key" and is no index.                            *)
LEMMA NoneIsNoSlot == None \notin Slots /\ None \notin Experts
BY SlotAssumption DEF None, Slots, Experts

(* A slot used last stays in the table; nothing is bound or unbound.       *)
LEMMA TouchedKeeps ==
  ASSUME NEW c \in SlotTable, Consistent(c), NEW s \in Occupied(c)
  PROVE  /\ Touched(c, s) \in SlotTable
         /\ Consistent(Touched(c, s))
         /\ Touched(c, s).expert_to_slot = c.expert_to_slot
<1> DEFINE q == c.slot_lru
           d == Touched(c, s)
<1>1. /\ q \in Seq(Slots) /\ Injective(q) /\ ToSet(q) = Occupied(c)
      /\ s \in Slots
  BY DEF SlotTable, Consistent, Occupied
<1>2. /\ MoveToEnd(q, s) \in Seq(Slots)
      /\ Injective(MoveToEnd(q, s))
      /\ ToSet(MoveToEnd(q, s)) = ToSet(q)
  BY <1>1, MoveToEndKeeps
<1>3. /\ d.expert_to_slot = c.expert_to_slot
      /\ d.slot_to_expert = c.slot_to_expert
      /\ d.free_slots = c.free_slots
      /\ d.slot_lru = MoveToEnd(q, s)
      /\ d \in SlotTable
  BY <1>2 DEF Touched, SlotTable
<1>4. Occupied(d) = Occupied(c)
  BY <1>3 DEF Occupied
<1>5. Consistent(d)
  BY <1>1, <1>2, <1>3, <1>4 DEF Consistent
<1> QED
  BY <1>3, <1>5

(* A slot that is off both lists, with whatever expert it held, can be     *)
(* bound to an expert that has none.                                       *)
LEMMA BoundKeeps ==
  ASSUME NEW c \in SlotTable, Consistent(c),
         NEW e \in Experts, c.expert_to_slot[e] = None,
         NEW s \in Slots,
         NEW free \in Seq(Slots), Injective(free),
         NEW lru \in Seq(Slots), Injective(lru),
         ToSet(lru) = Occupied(c) \ {s},
         ToSet(free) = (Slots \ Occupied(c)) \ {s}
  PROVE  /\ Bound(c, e, s, free, lru) \in SlotTable
         /\ Consistent(Bound(c, e, s, free, lru))
<1> DEFINE d == Bound(c, e, s, free, lru)
<1>1. /\ Append(lru, s) \in Seq(Slots)
      /\ Injective(Append(lru, s))
      /\ ToSet(Append(lru, s)) = ToSet(lru) \cup {s}
  BY AppendInjectiveSeq
<1>2. /\ d.expert_to_slot = [x \in Experts |->
                               IF x = e THEN s
                               ELSE IF x = c.slot_to_expert[s] THEN None
                               ELSE c.expert_to_slot[x]]
      /\ d.slot_to_expert = [c.slot_to_expert EXCEPT ![s] = e]
      /\ d.free_slots = free
      /\ d.slot_lru = Append(lru, s)
  BY DEF Bound
<1>3. d \in SlotTable
  BY <1>1 DEF Bound, SlotTable
<1>4. /\ c.slot_to_expert \in [Slots -> Experts \cup {None}]
      /\ c.expert_to_slot \in [Experts -> Slots \cup {None}]
      /\ \A x \in Experts : c.expert_to_slot[x] # None
                              => c.slot_to_expert[c.expert_to_slot[x]] = x
      /\ \A t \in Slots : c.slot_to_expert[t] # None
                            => c.expert_to_slot[c.slot_to_expert[t]] = t
  BY DEF SlotTable, Consistent
<1>5. Occupied(d) = Occupied(c) \cup {s}
  BY <1>2, <1>4, NoneIsNoSlot DEF Occupied
<1> HIDE DEF d
<1>6. ASSUME NEW x \in Experts, d.expert_to_slot[x] # None
      PROVE  d.slot_to_expert[d.expert_to_slot[x]] = x
  <2>1. CASE x = e
    BY <1>2, <1>4, <2>1
  <2>2. CASE x # e
    <3>1. x # c.slot_to_expert[s] /\ d.expert_to_slot[x] = c.expert_to_slot[x]
      BY <1>2, <1>6, <2>2
    <3>2. c.expert_to_slot[x] \in Slots /\ c.expert_to_slot[x] # s
      BY <1>4, <1>6, <3>1
    <3> QED
      BY <1>2, <1>4, <1>6, <3>1, <3>2
  <2> QED
    BY <2>1, <2>2
<1>7. ASSUME NEW t \in Slots, d.slot_to_expert[t] # None
      PROVE  d.expert_to_slot[d.slot_to_expert[t]] = t
  <2>1. CASE t = s
    BY <1>2, <1>4, <2>1
  <2>2. CASE t # s
    <3>1. /\ d.slot_to_expert[t] = c.slot_to_expert[t]
          /\ c.slot_to_expert[t] \in Experts
      BY <1>2, <1>4, <1>7, <2>2
    <3>2. c.expert_to_slot[c.slot_to_expert[t]] = t
      BY <1>4, <1>7, <3>1
    <3>3. c.slot_to_expert[t] # e
      BY <3>2, NoneIsNoSlot
    <3>4. c.slot_to_expert[t] # c.slot_to_expert[s]
      BY <1>4, <2>2, <3>1, <3>2, NoneIsNoSlot
    <3> QED
      BY <1>2, <3>1, <3>2, <3>3, <3>4
  <2> QED
    BY <2>1, <2>2
<1>8. /\ ToSet(d.slot_lru) = Occupied(d)
      /\ ToSet(d.free_slots) = Slots \ Occupied(d)
  BY <1>1, <1>2, <1>5
<1>9. Consistent(d)
  BY <1>1, <1>2, <1>6, <1>7, <1>8 DEF Consistent
<1> QED
  BY <1>3, <1>9 DEF d

(* The victim of an eviction is a slot in use, and one outside locked when *)
(* there is such a slot.                                                   *)
LEMMA VictimUnlocked ==
  ASSUME NEW c \in SlotTable, Consistent(c), c.slot_lru # << >>, NEW locked
  PROVE  LET v == VictimPosition(c, locked)
         IN  /\ v \in DOMAIN c.slot_lru
             /\ Evictable(c, locked) # {} => c.slot_lru[v] \notin locked
<1> DEFINE E == Evictable(c, locked)
<1>1. /\ c.slot_lru \in Seq(Slots)
      /\ DOMAIN c.slot_lru = 1..Len(c.slot_lru)
      /\ Len(c.slot_lru) \in Nat \ {0}
  <2>1. c.slot_lru \in Seq(Slots)
    BY DEF SlotTable
  <2> QED
    BY <2>1, LenProperties, EmptySeq
<1>2. CASE E = {}
  BY <1>1, <1>2 DEF VictimPosition
<1>3. CASE E # {}
  <2>1. E \in SUBSET Nat
    BY <1>1 DEF Evictable
  <2>2. \E i \in E : \A j \in E : i <= j
    BY <1>3, <2>1, LeastNatural
  <2>3. VictimPosition(c, locked) \in E
    BY <1>3, <2>2 DEF VictimPosition
  <2> QED
    BY <2>3 DEF Evictable
<1> QED
  BY <1>2, <1>3

(* _load_to_slot makes its expert resident and keeps the table consistent, *)
(* whatever is locked; an expert in a locked slot stays where it is, if    *)
(* there is any slot that is not locked.                                   *)
LEMMA LoadedKeeps ==
  ASSUME NEW c \in SlotTable, Consistent(c), NEW e \in Experts, NEW locked
  PROVE  LET d == Loaded(c, e, locked)
         IN  /\ d \in SlotTable
             /\ Consistent(d)
             /\ d.expert_to_slot[e] \in Slots
             /\ (\E s \in Slots : s \notin locked)
                  => \A x \in Experts : c.expert_to_slot[x] \in locked \cap Slots
                       => d.expert_to_slot[x] = c.expert_to_slot[x]
<1> DEFINE d == Loaded(c, e, locked)
           s0 == c.expert_to_slot[e]
<1>1. /\ c.expert_to_slot \in [Experts -> Slots \cup {None}]
      /\ c.slot_to_expert \in [Slots -> Experts \cup {None}]
      /\ c.free_slots \in Seq(Slots) /\ c.slot_lru \in Seq(Slots)
      /\ Injective(c.slot_lru) /\ Injective(c.free_slots)
      /\ ToSet(c.slot_lru) = Occupied(c)
      /\ ToSet(c.free_slots) = Slots \ Occupied(c)
      /\ \A x \in Experts : c.expert_to_slot[x] # None
                              => c.slot_to_expert[c.expert_to_slot[x]] = x
  BY DEF SlotTable, Consistent
<1>2. CASE s0 # None
  <2>1. s0 \in Occupied(c)
    BY <1>1, <1>2, NoneIsNoSlot DEF Occupied
  <2>2. d = Touched(c, s0)
    BY <1>2 DEF Loaded
  <2> QED
    BY <1>1, <1>2, <2>1, <2>2, TouchedKeeps
<1>3. CASE s0 = None /\ c.free_slots # << >>
  <2> DEFINE s == Head(c.free_slots)
             free == Tail(c.free_slots)
  <2>1. /\ s \in Slots /\ s \in Slots \ Occupied(c)
        /\ free \in Seq(Slots) /\ Injective(free)
        /\ ToSet(free) = (Slots \ Occupied(c)) \ {s}
    BY <1>1, <1>3, TailInjective
  <2>2. d = Bound(c, e, s, free, c.slot_lru)
    BY <1>3 DEF Loaded
  <2>3. ToSet(c.slot_lru) = Occupied(c) \ {s}
    BY <1>1, <2>1
  <2> HIDE DEF s, free
  <2>4. d \in SlotTable /\ Consistent(d)
    BY <1>1, <1>3, <2>1, <2>2, <2>3, BoundKeeps
  <2>5. d.expert_to_slot = [x \in Experts |->
                               IF x = e THEN s
                               ELSE IF x = c.slot_to_expert[s] THEN None
                               ELSE c.expert_to_slot[x]]
    BY <2>2 DEF Bound
  <2>6. c.slot_to_expert[s] = None
    BY <2>1 DEF Occupied
  <2> QED
    BY <1>3, <2>1, <2>4, <2>5, <2>6, NoneIsNoSlot
<1>4. CASE s0 = None /\ c.free_slots = << >>
  <2> DEFINE v == VictimPosition(c, locked)
             s == c.slot_lru[v]
             lru == RemoveAt(c.slot_lru, v)
  <2>1. Occupied(c) = Slots
    <3>1. ToSet(c.free_slots) = {}
      BY <1>4 DEF ToSet
    <3> QED
      BY <1>1, <3>1 DEF Occupied
  <2>2. c.slot_lru # << >>
    <3>1. 1 \in Slots
      BY SlotAssumption DEF Slots
    <3> QED
      BY <1>1, <2>1, <3>1 DEF ToSet
  <2>3. /\ v \in DOMAIN c.slot_lru
        /\ Evictable(c, locked) # {} => s \notin locked
    BY <2>2, VictimUnlocked
  <2>4. s \in Slots
    BY <1>1, <2>1, <2>3 DEF ToSet
  <2>5. /\ lru \in Seq(Slots) /\ Injective(lru)
        /\ ToSet(lru) = Occupied(c) \ {s}
    BY <1>1, <2>3, RemoveAtInjective
  <2>6. d = Bound(c, e, s, c.free_slots, lru)
    BY <1>4 DEF Loaded
  <2>7. ToSet(c.free_slots) = (Slots \ Occupied(c)) \ {s}
    BY <1>1, <2>1
  <2>8. (\E t \in Slots : t \notin locked) => Evictable(c, locked) # {}
    BY <1>1, <2>1 DEF Evictable, ToSet
  <2> HIDE DEF s, lru, v
  <2>9. d \in SlotTable /\ Consistent(d)
    <3> DEFINE free == c.free_slots
    <3>1. free \in Seq(Slots) /\ Injective(free)
      BY <1>1
    <3>2. ToSet(free) = (Slots \ Occupied(c)) \ {s}
      BY <2>7
    <3> HIDE DEF free
    <3>3. /\ Bound(c, e, s, free, lru) \in SlotTable
          /\ Consistent(Bound(c, e, s, free, lru))
      BY <1>4, <2>4, <2>5, <3>1, <3>2, BoundKeeps
    <3> QED
      BY <2>6, <3>3 DEF free
  <2>10. d.expert_to_slot = [x \in Experts |->
                               IF x = e THEN s
                               ELSE IF x = c.slot_to_expert[s] THEN None
                               ELSE c.expert_to_slot[x]]
    BY <2>6 DEF Bound
  <2>11. d.expert_to_slot[e] \in Slots
    BY <2>4, <2>10
  <2>12. ASSUME \E t \in Slots : t \notin locked,
                NEW x \in Experts, c.expert_to_slot[x] \in locked \cap Slots
         PROVE  d.expert_to_slot[x] = c.expert_to_slot[x]
    <3>1. s \notin locked
      BY <2>3, <2>8, <2>12 DEF s
    <3>2. x # e
      BY <1>4, <2>12, NoneIsNoSlot
    <3>3. x # c.slot_to_expert[s]
      <4>1. c.slot_to_expert[s] # None
        BY <2>1, <2>4 DEF Occupied
      <4>2. c.expert_to_slot[c.slot_to_expert[s]] = s
        BY <2>4, <4>1 DEF Consistent
      <4> QED
        BY <2>12, <3>1, <4>2
    <3> QED
      BY <2>10, <3>2, <3>3
  <2> QED
    BY <2>9, <2>11, <2>12
<1> QED
  BY <1>2, <1>3, <1>4

(* The table after a warmup that fits the slots.                           *)
LEMMA WarmTableConsistent ==
  ASSUME NEW w \in Nat, w <= Capacity, w <= NumExperts
  PROVE  WarmTable(w) \in SlotTable /\ Consistent(WarmTable(w))
<1> DEFINE c == WarmTable(w)
           free == [i \in 1..(Capacity - w) |-> w + i]
           lru == [i \in 1..w |-> i]
<1>1. /\ Capacity \in Nat /\ Slots = 1..Capacity
      /\ NumExperts \in Nat /\ Experts = 1..NumExperts
      /\ None = 0 /\ Capacity - w \in Nat
  BY SlotAssumption DEF Slots, Experts, None
<1>2. free \in Seq(Slots) /\ lru \in Seq(Slots)
  <2>1. free \in [1..(Capacity - w) -> Slots]
    BY <1>1
  <2>2. lru \in [1..w -> Slots]
    BY <1>1
  <2> QED
    BY <1>1, <2>1, <2>2, SeqDef
<1>3. Injective(free) /\ Injective(lru)
  BY <1>1 DEF Injective
<1>4. /\ c.expert_to_slot = [e \in Experts |-> IF e <= w THEN e ELSE None]
      /\ c.slot_to_expert = [s \in Slots |-> IF s <= w THEN s ELSE None]
      /\ c.free_slots = free
      /\ c.slot_lru = lru
  BY DEF WarmTable
<1>5. c \in SlotTable
  <2>1. /\ [e \in Experts |-> IF e <= w THEN e ELSE None]
             \in [Experts -> Slots \cup {None}]
        /\ [s \in Slots |-> IF s <= w THEN s ELSE None]
             \in [Slots -> Experts \cup {None}]
    BY <1>1
  <2> QED
    BY <1>2, <2>1 DEF WarmTable, SlotTable
<1>6. Occupied(c) = 1..w
  BY <1>1, <1>4 DEF Occupied
<1>7. ToSet(lru) = 1..w
  BY DEF ToSet
<1>8. ToSet(free) = Slots \ (1..w)
  <2>1. ASSUME NEW s \in Slots, s \notin 1..w
        PROVE  \E i \in 1..(Capacity - w) : s = w + i
    <3>1. s - w \in 1..(Capacity - w) /\ s = w + (s - w)
      BY <1>1, <2>1
    <3> QED
      BY <3>1
  <2>2. ASSUME NEW i \in 1..(Capacity - w)
        PROVE  w + i \in Slots \ (1..w)
    BY <1>1
  <2> QED
    BY <2>1, <2>2 DEF ToSet
<1>9. /\ \A e \in Experts : c.expert_to_slot[e] # None
                              => c.slot_to_expert[c.expert_to_slot[e]] = e
      /\ \A s \in Slots : c.slot_to_expert[s] # None
                            => c.expert_to_slot[c.slot_to_expert[s]] = s
  BY <1>1, <1>4
<1> HIDE DEF c, free, lru
<1>10. Consistent(c)
  BY <1>3, <1>4, <1>6, <1>7, <1>8, <1>9 DEF Consistent
<1> QED
  BY <1>5, <1>10 DEF c

(* The slots of the experts E in the table c.                              *)
SlotsOf(c, E) == {c.expert_to_slot[e] : e \in E}

(* Fewer experts than slots leave a slot without one of them.              *)
LEMMA SomeSlotFree ==
  ASSUME NEW c \in SlotTable, Consistent(c), NEW K \in SUBSET Resident(c),
         Cardinality(K) < Capacity
  PROVE  \E s \in Slots : s \notin SlotsOf(c, K)
<1> SUFFICES ASSUME \A s \in Slots : s \in SlotsOf(c, K)
             PROVE  FALSE
  OBVIOUS
<1> DEFINE f == [s \in Slots |-> c.slot_to_expert[s]]
<1>1. ASSUME NEW s \in Slots
      PROVE  f[s] \in K /\ c.expert_to_slot[f[s]] = s
  <2>1. PICK x \in K : c.expert_to_slot[x] = s
    BY DEF SlotsOf
  <2>2. c.slot_to_expert[s] = x
    BY <2>1, NoneIsNoSlot DEF Consistent, Resident
  <2> QED
    BY <2>1, <2>2
<1>2. f \in [Slots -> K]
  BY <1>1
<1>3. IsFiniteSet(Slots) /\ IsFiniteSet(K) /\ Cardinality(Slots) = Capacity
  <2>1. /\ IsFiniteSet(Experts) /\ IsFiniteSet(Slots)
        /\ Cardinality(Slots) = Capacity
    BY SlotAssumption, FS_Interval DEF Experts, Slots
  <2>2. K \in SUBSET Experts
    BY DEF Resident
  <2> QED
    BY <2>1, <2>2, FS_Subset
<1> HIDE DEF f
<1>4. \E s, t \in Slots : s # t /\ f[s] = f[t]
  BY <1>2, <1>3, FS_PigeonHole
<1> QED
  BY <1>1, <1>4

(* A load makes its expert the last to be given up, and keeps what came    *)
(* last before it, if that leaves a slot.                                  *)
LEMMA LoadedLast ==
  ASSUME NEW c \in SlotTable, Consistent(c), NEW e \in Experts,
         NEW K \in SUBSET Resident(c), e \notin K, Cardinality(K) < Capacity,
         ComeLast(c.slot_lru, SlotsOf(c, K))
  PROVE  LET d == Loaded(c, e, {})
         IN  /\ K \cup {e} \subseteq Resident(d)
             /\ ComeLast(d.slot_lru, SlotsOf(d, K \cup {e}))
<1> DEFINE d == Loaded(c, e, {})
           q == c.slot_lru
           s0 == c.expert_to_slot[e]
<1> SUFFICES /\ K \cup {e} \subseteq Resident(d)
             /\ ComeLast(d.slot_lru, SlotsOf(d, K \cup {e}))
  OBVIOUS
<1>1. /\ c.expert_to_slot \in [Experts -> Slots \cup {None}]
      /\ c.slot_to_expert \in [Slots -> Experts \cup {None}]
      /\ c.free_slots \in Seq(Slots) /\ q \in Seq(Slots)
      /\ Injective(q) /\ Injective(c.free_slots)
      /\ ToSet(q) = Occupied(c)
      /\ ToSet(c.free_slots) = Slots \ Occupied(c)
      /\ \A x \in Experts : c.expert_to_slot[x] # None
                              => c.slot_to_expert[c.expert_to_slot[x]] = x
  BY DEF SlotTable, Consistent
<1>2. /\ K \subseteq Experts
      /\ \A x \in K : c.expert_to_slot[x] \in Slots /\ c.expert_to_slot[x] # None
  BY <1>1 DEF Resident
\* It is enough to know which slot e gets and that the others keep theirs.
<1>3. ASSUME NEW s \in Slots, d.expert_to_slot[e] = s,
             \A x \in K : d.expert_to_slot[x] = c.expert_to_slot[x],
             ComeLast(d.slot_lru, SlotsOf(c, K) \cup {s})
      PROVE  /\ K \cup {e} \subseteq Resident(d)
             /\ ComeLast(d.slot_lru, SlotsOf(d, K \cup {e}))
  <2>1. SlotsOf(d, K \cup {e}) = SlotsOf(c, K) \cup {s}
    BY <1>3 DEF SlotsOf
  <2>2. K \cup {e} \subseteq Resident(d)
    BY <1>2, <1>3, NoneIsNoSlot DEF Resident
  <2> QED
    BY <1>3, <2>1, <2>2
<1>4. CASE s0 # None
  <2>1. s0 \in ToSet(q) /\ s0 \in Slots
    BY <1>1, <1>4, NoneIsNoSlot DEF Occupied
  <2>2. d.expert_to_slot = c.expert_to_slot /\ d.slot_lru = MoveToEnd(q, s0)
    BY <1>4 DEF Loaded, Touched
  <2>3. ComeLast(d.slot_lru, SlotsOf(c, K) \cup {s0})
    BY <1>1, <2>1, <2>2, MoveToEndKeeps
  <2> QED
    BY <1>3, <2>1, <2>2, <2>3
<1>5. CASE s0 = None /\ c.free_slots # << >>
  <2> DEFINE s == Head(c.free_slots)
  <2>1. s \in Slots /\ s \notin Occupied(c)
    BY <1>1, <1>5, TailInjective
  <2>2. d = Bound(c, e, s, Tail(c.free_slots), q)
    BY <1>5 DEF Loaded
  <2> HIDE DEF s
  <2>3. ComeLast(Append(q, s), SlotsOf(c, K) \cup {s})
    BY <1>1, <2>1, AppendLast
  <2>4. /\ d.expert_to_slot = [x \in Experts |->
                               IF x = e THEN s
                               ELSE IF x = c.slot_to_expert[s] THEN None
                               ELSE c.expert_to_slot[x]]
        /\ d.slot_lru = Append(q, s)
    BY <2>2 DEF Bound
  <2>5. \A x \in K : x \in Experts /\ x # e /\ x # c.slot_to_expert[s]
    BY <1>2, <2>1, NoneIsNoSlot DEF Occupied
  <2> HIDE DEF d
  <2>6. /\ d.expert_to_slot[e] = s
        /\ \A x \in K : d.expert_to_slot[x] = c.expert_to_slot[x]
    BY <2>4, <2>5
  <2> QED
    BY <1>3, <2>1, <2>3, <2>4, <2>6
<1>6. CASE s0 = None /\ c.free_slots = << >>
  <2> DEFINE s == Head(q)
  <2>1. Occupied(c) = Slots
    <3>1. ToSet(c.free_slots) = {}
      BY <1>6 DEF ToSet
    <3> QED
      BY <1>1, <3>1 DEF Occupied
  <2>2. q # << >>
    <3>1. 1 \in Slots
      BY SlotAssumption DEF Slots
    <3> QED
      BY <1>1, <2>1, <3>1 DEF ToSet
  <2>3. VictimPosition(c, {}) = 1
    <3>1. DOMAIN q = 1..Len(q) /\ Len(q) \in Nat /\ Len(q) # 0
      BY <1>1, <2>2, LenProperties, EmptySeq
    <3>2. Evictable(c, {}) = DOMAIN q
      BY DEF Evictable
    <3>3. 1 \in DOMAIN q /\ \A j \in DOMAIN q : 1 <= j
      BY <3>1
    <3>4. \A i \in DOMAIN q : (\A j \in DOMAIN q : i <= j) => i = 1
      BY <3>1
    <3> QED
      BY <3>2, <3>3, <3>4 DEF VictimPosition
  <2>4. q[1] = s /\ s \in Slots /\ RemoveAt(q, 1) = Tail(q)
    <3>1. q[1] = s
      BY <1>1, <2>2, HeadTailProperties
    <3>2. s \in Slots
      BY <1>1, <2>2, TailInjective
    <3>3. RemoveAt(q, 1) = Tail(q)
      BY <1>1, <2>2, TailRemovesFirst
    <3> QED
      BY <3>1, <3>2, <3>3
  <2>5. d = Bound(c, e, s, c.free_slots, Tail(q))
    BY <1>6, <2>3, <2>4 DEF Loaded
  <2>6. ComeLast(Append(Tail(q), s), SlotsOf(c, K) \cup {s})
    BY <1>1, <2>2, RotateKeeps
  <2>7. s \notin SlotsOf(c, K)
    <3>1. PICK t \in Slots : t \notin SlotsOf(c, K)
      BY SomeSlotFree
    <3>2. t \in ToSet(q)
      BY <1>1, <2>1
    <3> QED
      BY <1>1, <2>2, <3>1, <3>2, LastFromFirst
  <2> HIDE DEF s
  <2>8. /\ d.expert_to_slot = [x \in Experts |->
                               IF x = e THEN s
                               ELSE IF x = c.slot_to_expert[s] THEN None
                               ELSE c.expert_to_slot[x]]
        /\ d.slot_lru = Append(Tail(q), s)
    BY <2>5 DEF Bound
  <2>9. \A x \in K : x \in Experts /\ x # e /\ x # c.slot_to_expert[s]
    <3>1. c.slot_to_expert[s] # None /\ c.expert_to_slot[c.slot_to_expert[s]] = s
      BY <2>1, <2>4 DEF Occupied, Consistent
    <3> QED
      BY <1>2, <2>7, <3>1 DEF SlotsOf
  <2> HIDE DEF d
  <2>10. /\ d.expert_to_slot[e] = s
         /\ \A x \in K : d.expert_to_slot[x] = c.expert_to_slot[x]
    BY <2>8, <2>9
  <2> QED
    BY <1>3, <2>4, <2>6, <2>8, <2>10
<1> QED
  BY <1>4, <1>5, <1>6

(* slot_lru has as many entries as there are occupied slots, so it is full *)
(* exactly when no slot is free.                                           *)
LEMMA FullWhenNoneFree ==
  ASSUME NEW c \in SlotTable, Consistent(c)
  PROVE  Len(c.slot_lru) < Capacity <=> c.free_slots # << >>
<1> DEFINE q == c.slot_lru
<1>1. /\ q \in Seq(Slots) /\ Len(q) \in Nat /\ DOMAIN q = 1..Len(q)
      /\ Injective(q) /\ ToSet(q) = Occupied(c)
      /\ c.free_slots \in Seq(Slots)
      /\ ToSet(c.free_slots) = Slots \ Occupied(c)
      /\ Occupied(c) \subseteq Slots
  BY LenProperties DEF SlotTable, Consistent, Occupied
<1>2. /\ IsFiniteSet(Slots) /\ Cardinality(Slots) = Capacity /\ Capacity \in Nat
  BY SlotAssumption, FS_Interval DEF Slots
<1> HIDE DEF q
<1>3. Cardinality(Occupied(c)) = Len(q)
  <2>1. /\ IsFiniteSet(1..Len(q)) /\ Cardinality(1..Len(q)) = Len(q)
    <3>1. Len(q) \in Nat
      BY <1>1
    <3> QED
      BY <3>1, FS_Interval
  <2>2. q \in [1..Len(q) -> Occupied(c)]
    BY <1>1 DEF ToSet
  <2>3. \A i, j \in 1..Len(q) : q[i] = q[j] => i = j
    BY <1>1 DEF Injective
  <2>4. \A s \in Occupied(c) : \E i \in 1..Len(q) : q[i] = s
    BY <1>1 DEF ToSet
  <2>5. /\ q \in Surjection(1..Len(q), Occupied(c))
        /\ q \in Injection(1..Len(q), Occupied(c))
    BY <2>2, <2>3, <2>4 DEF Surjection, Injection, IsInjective
  <2> QED
    BY <2>1, <2>5, FS_Surjection
<1>4. CASE c.free_slots = << >>
  <2>1. ToSet(c.free_slots) = {}
    BY <1>4 DEF ToSet
  <2>2. Occupied(c) = Slots
    BY <1>1, <2>1
  <2> QED
    BY <1>2, <1>3, <1>4, <2>2 DEF q
<1>5. CASE c.free_slots # << >>
  <2>1. Head(c.free_slots) \in ToSet(c.free_slots)
    BY <1>1, <1>5, TailInjective DEF Consistent
  <2>2. Occupied(c) # Slots
    BY <1>1, <2>1
  <2>3. /\ Cardinality(Occupied(c)) <= Cardinality(Slots)
        /\ Cardinality(Occupied(c)) = Cardinality(Slots) => Occupied(c) = Slots
    BY <1>1, <1>2, FS_Subset
  <2> QED
    BY <1>1, <1>2, <1>3, <1>5, <2>2, <2>3 DEF q
<1> QED
  BY <1>4, <1>5

(***************************************************************************)
(* The machine                                                             *)
(***************************************************************************)

(* The table of a wrapper that was just built or reset.                    *)
LEMMA FreshTableConsistent == FreshTable \in SlotTable /\ Consistent(FreshTable)
<1> DEFINE w == Smaller(WarmupSlots, Smaller(Capacity, NumExperts))
<1>1. w \in Nat /\ w <= Capacity /\ w <= NumExperts
  BY SlotAssumption, CacheAssumption DEF Smaller
<1> HIDE DEF w
<1>2. WarmTable(w) \in SlotTable /\ Consistent(WarmTable(w))
  BY <1>1, WarmTableConsistent
<1> QED
  BY <1>2 DEF w, FreshTable

(* Where the host goes when a layer, a hook or a warmup is done.           *)
LEMMA BetweenTyped ==
  /\ Between \in HostState
  /\ \A l \in Layers, decode \in BOOLEAN :
       /\ AtLayer(l, decode) \in HostState
       /\ AtLayer(l, decode).pc \in {"hook", "forward"}
<1>1. 1 \in Layers
  BY CacheAssumption DEF Layers
<1> QED
  BY <1>1 DEF Between, AtLayer, HostState

(* After its last expert a layer hands over to the next or ends the pass.  *)
LEMMA NextLayerTyped ==
  ASSUME host \in HostState
  PROVE  /\ NextLayer \in HostState
         /\ NextLayer.pc \in {"hook", "forward", "between"}
<1>1. CASE host.layer < NumLayers
  <2>1. host.layer + 1 \in Layers /\ host.decode \in BOOLEAN
    BY <1>1, CacheAssumption DEF HostState, Layers
  <2> QED
    BY <1>1, <2>1, BetweenTyped DEF NextLayer
<1>2. CASE ~ (host.layer < NumLayers)
  BY <1>2, BetweenTyped DEF NextLayer, Between
<1> QED
  BY <1>1, <1>2

(* After one prefetch the hook has another target or forward begins.       *)
LEMMA NextTargetTyped ==
  ASSUME host \in HostState
  PROVE  /\ NextTarget \in HostState
         /\ NextTarget.pc \in {"hook", "forward"}
<1>1. LastTarget \in Layers
  BY CacheAssumption DEF HostState, Layers, LastTarget, Smaller
<1>2. CASE host.target < LastTarget
  <2>1. host.target + 1 \in Layers
    BY <1>1, <1>2, CacheAssumption DEF HostState, Layers
  <2> QED
    BY <1>2, <2>1 DEF NextTarget, HostState
<1>3. CASE ~ (host.target < LastTarget)
  BY <1>3 DEF NextTarget, HostState
<1> QED
  BY <1>2, <1>3

(* Replacing one layer's table by a consistent one.                        *)
LEMMA OneTable ==
  ASSUME cache \in [Layers -> SlotTable], TablesConsistent,
         NEW l \in Layers, NEW d \in SlotTable, Consistent(d),
         cache' = [cache EXCEPT ![l] = d]
  PROVE  /\ cache' \in [Layers -> SlotTable]
         /\ TablesConsistent'
         /\ cache'[l] = d
BY DEF TablesConsistent

(* No table changes.                                                       *)
LEMMA SameTables ==
  ASSUME cache \in [Layers -> SlotTable], TablesConsistent, cache' = cache
  PROVE  cache' \in [Layers -> SlotTable] /\ TablesConsistent'
BY DEF TablesConsistent

(* Outside of a forward nothing is asked of the locks.                     *)
LEMMA NotServing ==
  ASSUME host'.pc \notin {"lock", "load", "infer", "exec"}
  PROVE  RoutedResident' /\ ServedLocked'
BY DEF RoutedResident, ServedLocked

(* The first loop: a hit moves its slot to the end and locks it.           *)
LEMMA LockHitKeeps ==
  ASSUME IInv, NEW e \in Experts, LockHit(e)
  PROVE  IInv'
<1> DEFINE l == host.layer
           c == cache[l]
           s == c.expert_to_slot[e]
<1>1. /\ cache \in [Layers -> SlotTable] /\ host \in HostState
      /\ l \in Layers /\ c \in SlotTable /\ Consistent(c)
      /\ TablesConsistent /\ ServedLocked
  BY DEF IInv, TypeOK, TablesConsistent, HostState
<1>2. /\ host.pc = "lock" /\ e \in host.todo
      /\ host.todo \subseteq host.batch
      /\ Cardinality(host.batch) <= Capacity
      /\ host.locked = {c.expert_to_slot[x] :
                          x \in (host.batch \ host.todo) \cap Resident(c)}
  BY <1>1 DEF ServedLocked, LockHit, Foremost
<1>3. s \in Slots \cup {None}
  BY <1>1 DEF SlotTable
<1>4. CASE s # None
  <2>1. /\ cache' = [cache EXCEPT ![l] = Touched(c, s)]
        /\ host' = [host EXCEPT !.todo = @ \ {e}, !.locked = @ \cup {s}]
    BY <1>4 DEF LockHit
  <2>2. s \in Occupied(c)
    BY <1>1, <1>3, <1>4, NoneIsNoSlot DEF Consistent, Occupied
  <2>3. /\ Touched(c, s) \in SlotTable /\ Consistent(Touched(c, s))
        /\ Touched(c, s).expert_to_slot = c.expert_to_slot
    BY <1>1, <2>2, TouchedKeeps
  <2>4. /\ cache' \in [Layers -> SlotTable] /\ TablesConsistent'
        /\ cache'[l] = Touched(c, s)
    BY <1>1, <2>1, <2>3, OneTable
  <2>5. host' \in HostState
    BY <1>1, <1>3, <1>4, <2>1 DEF HostState
  <2>6. Resident(cache'[l]) = Resident(c)
    BY <2>3, <2>4 DEF Resident
  <2>7. host.locked \cup {s}
          = {c.expert_to_slot[x] :
               x \in (host.batch \ (host.todo \ {e})) \cap Resident(c)}
    BY <1>2, <1>4 DEF Resident
  <2>8. /\ host'.pc = "lock" /\ host'.layer = l /\ host'.batch = host.batch
        /\ host'.todo = host.todo \ {e} /\ host'.locked = host.locked \cup {s}
    BY <1>1, <1>2, <2>1 DEF HostState
  <2>9. ServedLocked'
    BY <1>2, <2>3, <2>4, <2>6, <2>7, <2>8 DEF ServedLocked
  <2>10. RoutedResident'
    BY <2>8 DEF RoutedResident
  <2> QED
    BY <2>4, <2>5, <2>9, <2>10 DEF IInv, TypeOK
<1>5. CASE s = None
  <2>1. cache' = cache /\ host' = [host EXCEPT !.todo = @ \ {e}]
    BY <1>5 DEF LockHit
  <2>2. host' \in HostState
    BY <1>1, <2>1 DEF HostState
  <2>3. e \notin Resident(c)
    BY <1>5 DEF Resident
  <2>4. (host.batch \ (host.todo \ {e})) \cap Resident(c)
          = (host.batch \ host.todo) \cap Resident(c)
    BY <2>3
  <2>5. /\ host'.pc = "lock" /\ host'.layer = l /\ host'.batch = host.batch
        /\ host'.todo = host.todo \ {e} /\ host'.locked = host.locked
    BY <1>1, <1>2, <2>1 DEF HostState
  <2>6. ServedLocked'
    BY <1>2, <2>1, <2>4, <2>5 DEF ServedLocked
  <2>7. RoutedResident'
    BY <2>5 DEF RoutedResident
  <2> QED
    BY <1>1, <2>1, <2>2, <2>6, <2>7, SameTables DEF IInv, TypeOK
<1> QED
  BY <1>3, <1>4, <1>5

(* A set of fewer experts than a batch that fits.                          *)
LEMMA FewerThanFit ==
  ASSUME NEW B \in SUBSET Experts, Cardinality(B) <= Capacity,
         NEW e \in B, NEW K \in SUBSET (B \ {e})
  PROVE  Cardinality(K) < Capacity
<1>1. IsFiniteSet(Experts)
  BY SlotAssumption, FS_Interval DEF Experts
<1>2. IsFiniteSet(B)
  BY <1>1, FS_Subset
<1>3. /\ IsFiniteSet(B \ {e})
      /\ Cardinality(B \ {e}) = Cardinality(B) - 1
  BY <1>2, FS_RemoveElement
<1>4. /\ IsFiniteSet(K)
      /\ Cardinality(K) <= Cardinality(B \ {e})
  BY <1>3, FS_Subset
<1>5. /\ Cardinality(K) \in Nat /\ Cardinality(B) \in Nat /\ Capacity \in Nat
  BY <1>2, <1>4, FS_CardinalityType, SlotAssumption
<1> QED
  BY <1>3, <1>4, <1>5

(* While a miss of a batch that fits is still to be loaded, some slot is   *)
(* not locked.                                                             *)
LEMMA SlotLeftForMiss ==
  ASSUME IInv, NEW e \in Experts, LoadMiss(e)
  PROVE  \E s \in Slots : s \notin host.locked
<1> DEFINE c == cache[host.layer]
           handled == host.batch \ host.todo
<1>1. /\ c \in SlotTable /\ Consistent(c)
      /\ host.batch \in SUBSET Experts
  BY DEF IInv, TypeOK, TablesConsistent, HostState
<1>2. /\ host.pc = "load" /\ e \in host.todo
      /\ host.todo \subseteq host.batch
      /\ Cardinality(host.batch) <= Capacity
      /\ handled \subseteq Resident(c)
      /\ host.locked = {c.expert_to_slot[x] : x \in handled \cap Resident(c)}
  BY DEF IInv, ServedLocked, LoadMiss, Foremost
<1>3. e \in host.batch /\ handled \in SUBSET (host.batch \ {e})
  BY <1>2
<1>4. host.locked = SlotsOf(c, handled)
  BY <1>2 DEF SlotsOf
<1> HIDE DEF handled, c
<1>5. Cardinality(handled) < Capacity
  BY <1>1, <1>2, <1>3, FewerThanFit
<1> QED
  BY <1>1, <1>2, <1>4, <1>5, SomeSlotFree

(* The second loop: the batch fits, so while one of its experts is still   *)
(* to be loaded some slot is not locked, and the load does not evict an    *)
(* expert loaded or found before it.                                       *)
LEMMA LoadMissKeeps ==
  ASSUME IInv, NEW e \in Experts, LoadMiss(e)
  PROVE  IInv'
<1> DEFINE l == host.layer
           c == cache[l]
           d == Loaded(c, e, host.locked)
           handled == host.batch \ host.todo
<1>1. /\ cache \in [Layers -> SlotTable] /\ host \in HostState
      /\ l \in Layers /\ c \in SlotTable /\ Consistent(c)
      /\ TablesConsistent /\ ServedLocked
  BY DEF IInv, TypeOK, TablesConsistent, HostState
<1>2. /\ host.pc = "load" /\ e \in host.todo
      /\ host.todo \subseteq host.batch
      /\ Cardinality(host.batch) <= Capacity
      /\ handled \subseteq Resident(c)
      /\ host.locked = {c.expert_to_slot[x] : x \in handled}
  BY <1>1 DEF ServedLocked, LoadMiss, Foremost
<1>3. /\ cache' = [cache EXCEPT ![l] = d]
      /\ host' = [host EXCEPT !.todo = @ \ {e},
                              !.locked = @ \cup {d.expert_to_slot[e]}]
  BY DEF LoadMiss
<1>4. host.batch \in SUBSET Experts /\ handled \in SUBSET Experts
  BY <1>1 DEF HostState
<1>5. \E s \in Slots : s \notin host.locked
  BY SlotLeftForMiss
<1>6. /\ d \in SlotTable /\ Consistent(d) /\ d.expert_to_slot[e] \in Slots
      /\ \A x \in Experts : c.expert_to_slot[x] \in host.locked \cap Slots
                              => d.expert_to_slot[x] = c.expert_to_slot[x]
  BY <1>1, <1>5, LoadedKeeps
<1>7. \A x \in handled : /\ d.expert_to_slot[x] = c.expert_to_slot[x]
                         /\ d.expert_to_slot[x] # None
  <2>1. \A x \in handled : c.expert_to_slot[x] \in host.locked \cap Slots
    BY <1>1, <1>2, <1>4 DEF Resident, SlotTable
  <2> QED
    BY <1>4, <1>6, <2>1, NoneIsNoSlot
<1> HIDE DEF d
<1>8. /\ cache' \in [Layers -> SlotTable] /\ TablesConsistent'
      /\ cache'[l] = d
  BY <1>1, <1>3, <1>6, OneTable
<1>9. host' \in HostState
  BY <1>1, <1>3, <1>6 DEF HostState
<1>10. /\ host'.pc = "load" /\ host'.layer = l /\ host'.batch = host.batch
       /\ host'.todo = host.todo \ {e}
       /\ host'.locked = host.locked \cup {d.expert_to_slot[e]}
  BY <1>1, <1>2, <1>3 DEF HostState
<1>11. host.batch \ (host.todo \ {e}) = handled \cup {e}
  BY <1>2
<1>12. handled \cup {e} \subseteq Resident(d)
  BY <1>4, <1>6, <1>7, NoneIsNoSlot DEF Resident
<1>13. host.locked \cup {d.expert_to_slot[e]}
         = {d.expert_to_slot[x] : x \in handled \cup {e}}
  BY <1>2, <1>7
<1>14. ServedLocked'
  <2>1. host'.batch \ host'.todo = handled \cup {e}
    BY <1>10, <1>11
  <2>2. cache'[host'.layer] = d
    BY <1>8, <1>10
  <2>3. (host'.batch \ host'.todo) \cap Resident(d) = host'.batch \ host'.todo
    BY <1>12, <2>1
  <2>4. host'.locked = {d.expert_to_slot[x] :
                          x \in (host'.batch \ host'.todo) \cap Resident(d)}
    BY <1>10, <1>13, <2>1, <2>3
  <2>5. /\ host'.todo \subseteq host'.batch
        /\ Cardinality(host'.batch) <= Capacity
        /\ host'.batch \ host'.todo \subseteq Resident(d)
    BY <1>2, <1>10, <1>12, <2>1
  <2> QED
    BY <2>2, <2>4, <2>5 DEF ServedLocked
<1>15. RoutedResident'
  BY <1>10 DEF RoutedResident
<1> QED
  BY <1>8, <1>9, <1>14, <1>15 DEF IInv, TypeOK

(* Every step keeps the invariant.                                         *)
LEMMA NextKeeps ==
  ASSUME IInv, [Next]_vars
  PROVE  IInv'
<1>1. /\ cache \in [Layers -> SlotTable] /\ host \in HostState
      /\ TablesConsistent /\ RoutedResident /\ ServedLocked
      /\ host.layer \in Layers /\ host.target \in Layers
      /\ host.todo \in SUBSET Experts /\ host.batch \in SUBSET Experts
      /\ host.decode \in BOOLEAN
  BY DEF IInv, TypeOK, HostState
\* Steps that leave the tables alone and lead outside of the forward paths.
<1>2. ASSUME cache' = cache, host' \in HostState,
             host'.pc \notin {"lock", "load", "infer", "exec"}
      PROVE  IInv'
  BY <1>1, <1>2, SameTables, NotServing DEF IInv, TypeOK
\* Loads outside of the locked path.
<1>3. ASSUME NEW l \in Layers, NEW e \in Experts,
             cache' = [cache EXCEPT ![l] = Loaded(@, e, {})]
      PROVE  /\ cache' \in [Layers -> SlotTable] /\ TablesConsistent'
             /\ e \in Resident(cache'[l])
  <2> DEFINE d == Loaded(cache[l], e, {})
  <2>1. cache[l] \in SlotTable /\ Consistent(cache[l])
    BY <1>1 DEF TablesConsistent
  <2>2. d \in SlotTable /\ Consistent(d) /\ d.expert_to_slot[e] \in Slots
    BY <2>1, LoadedKeeps
  <2>3. cache' = [cache EXCEPT ![l] = d]
    BY <1>3
  <2> HIDE DEF d
  <2>4. /\ cache' \in [Layers -> SlotTable] /\ TablesConsistent'
        /\ cache'[l] = d
    BY <1>1, <2>2, <2>3, OneTable
  <2> QED
    BY <2>2, <2>4, NoneIsNoSlot DEF Resident
<1>4. ASSUME NEW decode \in BOOLEAN, StartPass(decode) PROVE IInv'
  <2>1. 1 \in Layers
    BY CacheAssumption DEF Layers
  <2> QED
    BY <1>2, <1>4, <2>1, BetweenTyped DEF StartPass
<1>5. ASSUME NEW P \in Predictions, Prefetch(P) PROVE IInv'
  <2> DEFINE misses == P \ Resident(cache[host.target])
  <2>1. misses \in SUBSET Experts /\ cache' = cache
    BY <1>5 DEF Prefetch, Predictions
  <2>2. CASE misses = {}
    BY <1>1, <1>2, <1>5, <2>1, <2>2, NextTargetTyped DEF Prefetch
  <2>3. CASE misses # {}
    <3>1. host' = [host EXCEPT !.pc = "prefetch", !.todo = misses,
                               !.batch = misses]
      BY <1>5, <2>3 DEF Prefetch
    <3> HIDE DEF misses
    <3>2. host' \in HostState /\ host'.pc = "prefetch"
      BY <1>1, <2>1, <3>1 DEF HostState
    <3> QED
      BY <1>2, <2>1, <3>2
  <2> QED
    BY <2>2, <2>3
<1>6. ASSUME NEW e \in Experts, PrefetchStep(e) PROVE IInv'
  <2>1. cache' \in [Layers -> SlotTable] /\ TablesConsistent'
    BY <1>1, <1>3, <1>6 DEF PrefetchStep
  <2>2. host' \in HostState /\ host'.pc = "prefetch"
    BY <1>1, <1>6 DEF PrefetchStep, HostState
  <2> QED
    BY <2>1, <2>2, NotServing DEF IInv, TypeOK
<1>7. ASSUME PrefetchEnd PROVE IInv'
  BY <1>1, <1>2, <1>7, NextTargetTyped DEF PrefetchEnd
<1>8. ASSUME NEW R \in Routings, Forward(R) PROVE IInv'
  <2> DEFINE fits == host.layer \notin Mixtral /\ Cardinality(R) <= Capacity
  <2>1. /\ R \in SUBSET Experts /\ cache' = cache
        /\ host' = [host EXCEPT !.pc = IF fits THEN "lock" ELSE "step",
                                !.todo = R, !.batch = R, !.locked = {}]
    BY <1>8 DEF Forward, Routings
  <2>2. /\ host' \in HostState
        /\ host'.pc = IF fits THEN "lock" ELSE "step"
        /\ host'.layer = host.layer /\ host'.locked = {}
        /\ host'.todo = R /\ host'.batch = R
    BY <1>1, <2>1 DEF HostState
  <2>3. CASE fits
    <3>1. ServedLocked'
      BY <2>1, <2>2, <2>3 DEF ServedLocked
    <3>2. RoutedResident'
      BY <2>2, <2>3 DEF RoutedResident
    <3> QED
      BY <1>1, <2>1, <2>2, <3>1, <3>2, SameTables DEF IInv, TypeOK
  <2>4. CASE ~ fits
    BY <1>2, <2>1, <2>2, <2>4
  <2> QED
    BY <2>3, <2>4
<1>9. ASSUME NEW e \in Experts, LockHit(e) PROVE IInv'
  BY <1>9, LockHitKeeps
<1>10. ASSUME FindMisses PROVE IInv'
  <2> DEFINE c == cache[host.layer]
             found == host.batch \cap Resident(c)
  <2>1. /\ cache' = cache /\ host.pc = "lock" /\ host.todo = {}
        /\ host' = [host EXCEPT !.pc = "load", !.todo = host.batch \ Resident(c)]
    BY <1>10 DEF FindMisses
  <2>2. /\ host' \in HostState /\ host'.pc = "load"
        /\ host'.layer = host.layer /\ host'.batch = host.batch
        /\ host'.todo = host.batch \ Resident(c)
        /\ host'.locked = host.locked
    BY <1>1, <2>1 DEF HostState
  <2>3. /\ Cardinality(host.batch) <= Capacity
        /\ host.locked = {c.expert_to_slot[e] : e \in found}
    BY <1>1, <2>1 DEF ServedLocked
  <2>4. (host'.batch \ host'.todo) \cap Resident(c) = found
    BY <2>2
  <2>5. host'.batch \ host'.todo \subseteq Resident(c)
    BY <2>2
  <2>6. host'.todo \subseteq host'.batch
    BY <2>2
  <2>7. ServedLocked'
    BY <2>1, <2>2, <2>3, <2>4, <2>5, <2>6 DEF ServedLocked
  <2>8. RoutedResident'
    BY <2>2 DEF RoutedResident
  <2> QED
    BY <1>1, <2>1, <2>2, <2>7, <2>8, SameTables DEF IInv, TypeOK
<1>11. ASSUME NEW e \in Experts, LoadMiss(e) PROVE IInv'
  BY <1>11, LoadMissKeeps
<1>12. ASSUME LoadsIssued PROVE IInv'
  <2>1. /\ cache' = cache /\ host.pc = "load" /\ host.todo = {}
        /\ host' = [host EXCEPT !.pc = "infer"]
    BY <1>12 DEF LoadsIssued
  <2>2. /\ host' \in HostState /\ host'.pc = "infer"
        /\ host'.layer = host.layer /\ host'.batch = host.batch
    BY <1>1, <2>1 DEF HostState
  <2>3. host.batch \subseteq Resident(cache[host.layer])
    BY <1>1, <2>1 DEF ServedLocked
  <2>4. RoutedResident' /\ ServedLocked'
    BY <2>1, <2>2, <2>3 DEF RoutedResident, ServedLocked
  <2> QED
    BY <1>1, <2>1, <2>2, <2>4, SameTables DEF IInv, TypeOK
<1>13. ASSUME Infer PROVE IInv'
  BY <1>1, <1>2, <1>13, NextLayerTyped DEF Infer
<1>14. ASSUME NEW e \in Experts, StepExpert(e) PROVE IInv'
  <2>1. /\ cache' = [cache EXCEPT ![host.layer] = Loaded(@, e, {})]
        /\ host' = [host EXCEPT !.pc = "exec", !.todo = @ \ {e}, !.expert = e]
    BY <1>14 DEF StepExpert
  <2>2. /\ cache' \in [Layers -> SlotTable] /\ TablesConsistent'
        /\ e \in Resident(cache'[host.layer])
    BY <1>1, <1>3, <2>1
  <2>3. /\ host' \in HostState /\ host'.pc = "exec"
        /\ host'.layer = host.layer /\ host'.expert = e
    BY <1>1, <2>1 DEF HostState
  <2>4. RoutedResident' /\ ServedLocked'
    BY <2>2, <2>3 DEF RoutedResident, ServedLocked
  <2> QED
    BY <2>2, <2>3, <2>4 DEF IInv, TypeOK
<1>15. ASSUME ExecExpert PROVE IInv'
  <2>1. CASE host.todo = {}
    BY <1>1, <1>2, <1>15, <2>1, NextLayerTyped DEF ExecExpert
  <2>2. CASE host.todo # {}
    <3>1. cache' = cache /\ host' = [host EXCEPT !.pc = "step", !.expert = None]
      BY <1>15, <2>2 DEF ExecExpert
    <3>2. host' \in HostState /\ host'.pc = "step"
      BY <1>1, <3>1 DEF HostState
    <3> QED
      BY <1>2, <3>1, <3>2
  <2> QED
    BY <2>1, <2>2
<1>16. ASSUME ResetState PROVE IInv'
  <2>1. /\ host.pc = "between" /\ host' = host
        /\ cache' = [l \in Layers |-> FreshTable]
    BY <1>16 DEF ResetState
  <2>2. cache' \in [Layers -> SlotTable] /\ TablesConsistent'
    BY <2>1, FreshTableConsistent DEF TablesConsistent
  <2> QED
    BY <1>1, <2>1, <2>2, NotServing DEF IInv, TypeOK
<1>17. ASSUME StartWarmup PROVE IInv'
  <2>1. cache' = cache /\ host' = [host EXCEPT !.pc = "seed"]
    BY <1>17 DEF StartWarmup
  <2>2. host' \in HostState /\ host'.pc = "seed"
    BY <1>1, <2>1 DEF HostState
  <2> QED
    BY <1>2, <2>1, <2>2
<1>18. ASSUME NEW T \in PrefillTops, SeedLayer(T) PROVE IInv'
  <2>1. /\ cache' = cache /\ T \in SUBSET Experts
        /\ host' = [host EXCEPT !.pc = "warm", !.todo = T, !.batch = T]
    BY <1>18 DEF SeedLayer, PrefillTops
  <2>2. host' \in HostState /\ host'.pc = "warm"
    BY <1>1, <2>1 DEF HostState
  <2> QED
    BY <1>2, <2>1, <2>2
<1>19. ASSUME NEW e \in Experts, WarmupStep(e) PROVE IInv'
  <2>1. cache' \in [Layers -> SlotTable] /\ TablesConsistent'
    BY <1>1, <1>3, <1>19 DEF WarmupStep
  <2>2. host' \in HostState /\ host'.pc = "warm"
    BY <1>1, <1>19 DEF WarmupStep, HostState
  <2> QED
    BY <2>1, <2>2, NotServing DEF IInv, TypeOK
<1>20. ASSUME WarmupEnd PROVE IInv'
  <2>1. CASE host.target < NumLayers
    <3>1. /\ cache' = cache
          /\ host' = [Between EXCEPT !.pc = "seed", !.target = host.target + 1]
      BY <1>20, <2>1 DEF WarmupEnd
    <3>2. host.target + 1 \in Layers
      BY <1>1, <2>1, CacheAssumption DEF Layers
    <3>3. host' \in HostState /\ host'.pc = "seed"
      BY <3>1, <3>2, BetweenTyped DEF HostState
    <3> QED
      BY <1>2, <3>1, <3>3
  <2>2. CASE ~ (host.target < NumLayers)
    <3>1. cache' = cache /\ host' = Between
      BY <1>20, <2>2 DEF WarmupEnd
    <3>2. Between.pc = "between"
      BY DEF Between
    <3> QED
      BY <1>2, <3>1, <3>2, BetweenTyped
  <2> QED
    BY <2>1, <2>2
<1>21. ASSUME UNCHANGED vars PROVE IInv'
  <2>1. cache' = cache /\ host' = host
    BY <1>21 DEF vars
  <2>2. RoutedResident' /\ ServedLocked'
    BY <1>1, <2>1 DEF RoutedResident, ServedLocked
  <2> QED
    BY <1>1, <2>1, <2>2, SameTables DEF IInv, TypeOK
<1> QED
  BY <1>4, <1>5, <1>6, <1>7, <1>8, <1>9, <1>10, <1>11, <1>12, <1>13, <1>14,
     <1>15, <1>16, <1>17, <1>18, <1>19, <1>20, <1>21 DEF Next

(* Freshly built wrappers, no pass under way.                              *)
LEMMA InitHolds == Init => IInv
<1> SUFFICES ASSUME Init PROVE IInv
  OBVIOUS
<1>1. /\ cache = [l \in Layers |-> FreshTable]
      /\ host = Between /\ host.pc = "between"
  BY DEF Init, Between
<1>2. TypeOK /\ TablesConsistent
  BY <1>1, FreshTableConsistent, BetweenTyped DEF TypeOK, TablesConsistent
<1>3. RoutedResident /\ ServedLocked
  BY <1>1 DEF RoutedResident, ServedLocked
<1> QED
  BY <1>2, <1>3 DEF IInv

(* The inductive invariant holds in every reachable state: the locks a     *)
(* forward has taken are the slots of the experts it has handled.          *)
THEOREM Invariance == Spec => []IInv
<1>1. Init => IInv
  BY InitHolds
<1>2. IInv /\ [Next]_vars => IInv'
  BY NextKeeps
<1> QED
  BY <1>1, <1>2, PTL DEF Spec

(* Every table and the host's state have their types in every reachable    *)
(* state (dynamic_cache.py: no loop leaves its dicts or lists malformed).  *)
THEOREM TypeCorrect == Spec => []TypeOK
<1>1. IInv => TypeOK
  BY DEF IInv
<1> QED
  BY <1>1, Invariance, PTL

(* expert_to_slot, slot_to_expert, free_slots and slot_lru of every layer  *)
(* always describe the same table, for any number of experts and slots and *)
(* whatever the hook predicts and the router picks.                        *)
THEOREM TablesAlwaysConsistent == Spec => []TablesConsistent
<1>1. IInv => TablesConsistent
  BY DEF IInv
<1> QED
  BY <1>1, Invariance, PTL

(* forward never runs an expert that is not resident: loading the misses   *)
(* of a batch that fits evicts none of the batch, and the branch of        *)
(* _load_to_slot that would take a locked slot is not reached.             *)
THEOREM RoutedAlwaysResident == Spec => []RoutedResident
<1>1. IInv => RoutedResident
  BY DEF IInv
<1> QED
  BY <1>1, Invariance, PTL

(***************************************************************************)
(* Loops without locks                                                     *)
(***************************************************************************)

(* What a prefetch or a warmup has loaded so far is what its layer's LRU   *)
(* order gives up last.  That is stronger than the property and carries    *)
(* it: an eviction takes the first slot of the order, which is one of the  *)
(* loop's own only when every slot is.                                     *)
LoopsLast ==
  LET c == cache[host.target]
      loaded == host.batch \ host.todo
  IN  host.pc \in {"prefetch", "warm"}
        => /\ host.todo \subseteq host.batch
           /\ Cardinality(host.batch) <= Capacity
                => /\ loaded \subseteq Resident(c)
                   /\ ComeLast(c.slot_lru, SlotsOf(c, loaded))

(* One iteration of either loop.                                           *)
LEMMA LoopStepKeepsLast ==
  ASSUME IInv, LoopsLast, host.pc \in {"prefetch", "warm"}, NEW e \in host.todo,
         cache' = [cache EXCEPT ![host.target] = Loaded(@, e, {})],
         host' = [host EXCEPT !.todo = @ \ {e}]
  PROVE  LoopsLast'
<1> DEFINE t == host.target
           c == cache[t]
           d == Loaded(c, e, {})
           K == host.batch \ host.todo
<1>1. /\ cache \in [Layers -> SlotTable] /\ t \in Layers
      /\ c \in SlotTable /\ Consistent(c)
      /\ host.todo \subseteq host.batch
      /\ host.batch \in SUBSET Experts /\ e \in Experts
  BY DEF IInv, TypeOK, TablesConsistent, HostState, LoopsLast
<1>2. /\ host'.target = t /\ host'.batch = host.batch
      /\ host'.todo = host.todo \ {e}
      /\ cache'[t] = d
  BY <1>1 DEF IInv, TypeOK, HostState
<1>3. host.batch \ (host.todo \ {e}) = K \cup {e}
  BY <1>1
<1>4. ASSUME Cardinality(host.batch) <= Capacity
      PROVE  /\ K \cup {e} \subseteq Resident(d)
             /\ ComeLast(d.slot_lru, SlotsOf(d, K \cup {e}))
  <2>1. K \in SUBSET Resident(c) /\ ComeLast(c.slot_lru, SlotsOf(c, K))
    BY <1>4 DEF LoopsLast
  <2>2. e \notin K /\ K \in SUBSET (host.batch \ {e}) /\ e \in host.batch
    BY <1>1
  <2> HIDE DEF K
  <2>3. Cardinality(K) < Capacity
    BY <1>1, <1>4, <2>2, FewerThanFit
  <2> HIDE DEF c
  <2> QED
    BY <1>1, <2>1, <2>2, <2>3, LoadedLast
<1>5. host.todo \ {e} \subseteq host.batch
  BY <1>1
<1> HIDE DEF c, d, t, K
<1> QED
  BY <1>2, <1>3, <1>4, <1>5 DEF LoopsLast

(* Every step keeps the order; a loop starts with nothing loaded.          *)
LEMMA NextKeepsLast ==
  ASSUME IInv, LoopsLast, [Next]_vars
  PROVE  LoopsLast'
<1>1. /\ host \in HostState
      /\ host.target \in Layers /\ host.layer \in Layers
  BY DEF IInv, TypeOK, HostState
\* Steps that leave both loops, or stay outside of them.
<1>2. ASSUME host'.pc \notin {"prefetch", "warm"} PROVE LoopsLast'
  BY <1>2 DEF LoopsLast
\* A loop that starts.
<1>3. ASSUME NEW B, NEW pc, host' = [host EXCEPT !.pc = pc, !.todo = B, !.batch = B]
      PROVE  LoopsLast'
  <2>1. host'.todo = B /\ host'.batch = B
    BY <1>1, <1>3 DEF HostState
  <2>2. \A c : SlotsOf(c, {}) = {}
    BY DEF SlotsOf
  <2>3. \A q : ComeLast(q, {})
    BY DEF ComeLast
  <2>4. B \ B = {}
    OBVIOUS
  <2> QED
    BY <2>1, <2>2, <2>3, <2>4 DEF LoopsLast
<1>4. ASSUME NEW decode \in BOOLEAN, StartPass(decode) PROVE LoopsLast'
  <2>1. 1 \in Layers
    BY CacheAssumption DEF Layers
  <2> QED
    BY <1>2, <1>4, <2>1, BetweenTyped DEF StartPass
<1>5. ASSUME NEW P \in Predictions, Prefetch(P) PROVE LoopsLast'
  BY <1>1, <1>2, <1>3, <1>5, NextTargetTyped DEF Prefetch
<1>6. ASSUME NEW e \in Experts, PrefetchStep(e) PROVE LoopsLast'
  BY <1>6, LoopStepKeepsLast DEF PrefetchStep
<1>7. ASSUME PrefetchEnd PROVE LoopsLast'
  BY <1>1, <1>2, <1>7, NextTargetTyped DEF PrefetchEnd
<1>8. ASSUME NEW R \in Routings, Forward(R) PROVE LoopsLast'
  <2>1. host'.pc \in {"lock", "step"}
    BY <1>1, <1>8 DEF Forward, HostState
  <2> QED
    BY <1>2, <2>1
<1>9. ASSUME NEW e \in Experts, LockHit(e) PROVE LoopsLast'
  <2>1. host'.pc = "lock"
    BY <1>1, <1>9 DEF LockHit, HostState
  <2> QED
    BY <1>2, <2>1
<1>10. ASSUME FindMisses PROVE LoopsLast'
  <2>1. host'.pc = "load"
    BY <1>1, <1>10 DEF FindMisses, HostState
  <2> QED
    BY <1>2, <2>1
<1>11. ASSUME NEW e \in Experts, LoadMiss(e) PROVE LoopsLast'
  <2>1. host'.pc = "load"
    BY <1>1, <1>11 DEF LoadMiss, HostState
  <2> QED
    BY <1>2, <2>1
<1>12. ASSUME LoadsIssued PROVE LoopsLast'
  <2>1. host'.pc = "infer"
    BY <1>1, <1>12 DEF LoadsIssued, HostState
  <2> QED
    BY <1>2, <2>1
<1>13. ASSUME Infer PROVE LoopsLast'
  BY <1>1, <1>2, <1>13, NextLayerTyped DEF Infer
<1>14. ASSUME NEW e \in Experts, StepExpert(e) PROVE LoopsLast'
  <2>1. host'.pc = "exec"
    BY <1>1, <1>14 DEF StepExpert, HostState
  <2> QED
    BY <1>2, <2>1
<1>15. ASSUME ExecExpert PROVE LoopsLast'
  <2>1. host'.pc \in {"hook", "forward", "between", "step"}
    BY <1>1, <1>15, NextLayerTyped DEF ExecExpert, HostState
  <2> QED
    BY <1>2, <2>1
<1>16. ASSUME ResetState PROVE LoopsLast'
  BY <1>2, <1>16 DEF ResetState
<1>17. ASSUME StartWarmup PROVE LoopsLast'
  <2>1. host'.pc = "seed"
    BY <1>1, <1>17 DEF StartWarmup, HostState
  <2> QED
    BY <1>2, <2>1
<1>18. ASSUME NEW T \in PrefillTops, SeedLayer(T) PROVE LoopsLast'
  BY <1>3, <1>18 DEF SeedLayer
<1>19. ASSUME NEW e \in Experts, WarmupStep(e) PROVE LoopsLast'
  BY <1>19, LoopStepKeepsLast DEF WarmupStep
<1>20. ASSUME WarmupEnd PROVE LoopsLast'
  <2>1. host'.pc \in {"seed", "between"}
    BY <1>1, <1>20 DEF WarmupEnd, Between
  <2> QED
    BY <1>2, <2>1
<1>21. ASSUME UNCHANGED vars PROVE LoopsLast'
  BY <1>21 DEF vars, LoopsLast
<1> QED
  BY <1>4, <1>5, <1>6, <1>7, <1>8, <1>9, <1>10, <1>11, <1>12, <1>13, <1>14,
     <1>15, <1>16, <1>17, <1>18, <1>19, <1>20, <1>21 DEF Next

(* async_prefetch and warmup_from_prefill never evict what the same call   *)
(* has loaded, if it loads no more experts than there are slots: nothing   *)
(* locks their slots, but the order of use gives them up last.             *)
THEOREM LoopsAlwaysKeepLoads == Spec => []LoopKeepsItsLoads
<1>1. Init => LoopsLast
  BY DEF Init, Between, LoopsLast
<1>2. IInv /\ LoopsLast /\ [Next]_vars => LoopsLast'
  BY NextKeepsLast
<1>3. LoopsLast => LoopKeepsItsLoads
  BY DEF LoopsLast, LoopKeepsItsLoads
<1> QED
  BY <1>1, <1>2, <1>3, Invariance, PTL DEF Spec

(***************************************************************************)
(* The tables as LRU sets                                                  *)
(***************************************************************************)

(* Making an expert resident is one use of it in the LRU set: a hit makes  *)
(* it the most recent, a miss takes room if there is some and else the     *)
(* oldest expert whose slot is not locked.                                 *)
LEMMA LoadUses ==
  ASSUME NEW c \in SlotTable, Consistent(c), NEW e \in Experts,
         NEW locked \in SUBSET Slots,
         Pinned = {c.slot_to_expert[s] : s \in locked},
         c.expert_to_slot[e] # None \/ \E s \in Slots : s \notin locked
  PROVE  /\ ResidentOrder(Loaded(c, e, locked)) = Lru!Use(ResidentOrder(c), e)
         /\ Lru!HasRoom(ResidentOrder(c), e)
<1> DEFINE d == Loaded(c, e, locked)
           s0 == c.expert_to_slot[e]
           q == c.slot_lru
           f == c.slot_to_expert
           r == ResidentOrder(c)
<1> SUFFICES ResidentOrder(d) = Lru!Use(r, e) /\ Lru!HasRoom(r, e)
  OBVIOUS
<1>0. /\ \A x : Lru!ToSet(x) = ToSet(x)
      /\ \A x, i : Lru!RemoveAt(x, i) = RemoveAt(x, i)
  BY DEF Lru!ToSet, ToSet, Lru!RemoveAt, RemoveAt
<1>1. /\ c.expert_to_slot \in [Experts -> Slots \cup {None}]
      /\ f \in [Slots -> Experts \cup {None}]
      /\ c.free_slots \in Seq(Slots) /\ q \in Seq(Slots)
      /\ Injective(q) /\ Injective(c.free_slots)
      /\ ToSet(q) = Occupied(c)
      /\ ToSet(c.free_slots) = Slots \ Occupied(c)
      /\ \A x \in Experts : c.expert_to_slot[x] # None
                              => f[c.expert_to_slot[x]] = x
      /\ \A s \in Slots : f[s] # None => c.expert_to_slot[f[s]] = s
      /\ Len(q) \in Nat /\ DOMAIN q = 1..Len(q)
  BY LenProperties DEF SlotTable, Consistent
<1>2. r = Through(f, q)
  BY DEF ResidentOrder, Through
<1>3. /\ r \in Seq(Experts) /\ Len(r) = Len(q) /\ DOMAIN r = DOMAIN q
      /\ \A i \in DOMAIN q : r[i] = f[q[i]]
  <2>1. \A s \in ToSet(q) : f[s] \in Experts
    BY <1>1 DEF Occupied
  <2> QED
    <3>1. q \in Seq(Slots) /\ DOMAIN q = 1..Len(q)
      BY <1>1
    <3> HIDE DEF f, q, r
    <3> QED
      BY <1>2, <2>1, <3>1, ThroughType
<1>4. \A i \in DOMAIN q : q[i] \in Slots /\ f[q[i]] # None
  BY <1>1 DEF ToSet, Occupied
<1>5. CASE s0 # None
  <2>1. s0 \in Slots /\ f[s0] = e /\ s0 \in ToSet(q)
    BY <1>1, <1>5, NoneIsNoSlot DEF Occupied
  <2>2. d.slot_to_expert = f /\ d.slot_lru = MoveToEnd(q, s0)
    BY <1>5 DEF Loaded, Touched
  <2>3. \A i \in DOMAIN q : q[i] = s0 <=> r[i] = e
    BY <1>1, <1>3, <1>4, <2>1
  <2> DEFINE p == PositionOf(q, s0)
  <2>4. p \in DOMAIN q /\ q[p] = s0
    BY <2>1 DEF ToSet, PositionOf
  <2> HIDE DEF p
  <2>5. Lru!Position(r, e) = p
    <3>1. \A i \in DOMAIN r : r[i] = e <=> i = p
      BY <1>1, <1>3, <2>3, <2>4 DEF Injective
    <3> QED
      BY <1>3, <2>4, <3>1 DEF Lru!Position
  <2>6. e \in ToSet(r)
    BY <1>3, <2>3, <2>4 DEF ToSet
  <2>7. Through(f, MoveToEnd(q, s0)) = Append(RemoveAt(r, p), e)
    <3>1. RemoveAt(q, p) \in Seq(Slots)
      BY <1>1, <2>4, RemoveAtType
    <3>2. Through(f, RemoveAt(q, p)) = RemoveAt(r, p)
      BY <1>1, <1>2, <2>4, ThroughRemove
    <3>3. MoveToEnd(q, s0) = Append(RemoveAt(q, p), s0)
      BY DEF MoveToEnd, p
    <3> HIDE DEF f, s0, q, r
    <3>4. Through(f, Append(RemoveAt(q, p), s0))
            = Append(Through(f, RemoveAt(q, p)), f[s0])
      BY <2>1, <3>1, ThroughAppend
    <3> QED
      BY <2>1, <3>2, <3>3, <3>4
  <2>8. ResidentOrder(d) = Through(f, MoveToEnd(q, s0))
    BY <2>2 DEF ResidentOrder, Through
  <2> HIDE DEF d, r, s0, q, f
  <2> QED
    BY <1>0, <2>5, <2>6, <2>7, <2>8 DEF Lru!Use, Lru!HasRoom
<1>6. CASE s0 = None
  <2>1. e \notin ToSet(r)
    BY <1>1, <1>3, <1>4, <1>6, NoneIsNoSlot DEF ToSet
  \* Binding e to a slot s that is not on the list t.
  <2>2. ASSUME NEW s \in Slots, NEW t \in Seq(Slots), s \notin ToSet(t),
               d.slot_to_expert = [f EXCEPT ![s] = e], d.slot_lru = Append(t, s)
        PROVE  ResidentOrder(d) = Append(Through(f, t), e)
    <3> DEFINE g == [f EXCEPT ![s] = e]
    <3>1. g[s] = e /\ \A x \in ToSet(t) : g[x] = f[x]
      <4>1. \A x \in ToSet(t) : x \in Slots /\ x # s
        BY <2>2, ElementOfSeq, LenProperties DEF ToSet
      <4> QED
        BY <1>1, <4>1
    <3>2. ResidentOrder(d) = Through(g, Append(t, s))
      BY <2>2 DEF ResidentOrder, Through
    <3> HIDE DEF g, d, f
    <3>3. s \in Slots /\ t \in Seq(Slots) /\ \A x \in ToSet(t) : g[x] = f[x]
      BY <2>2, <3>1
    <3>4. Through(g, Append(t, s)) = Append(Through(f, t), g[s])
      BY ONLY <3>3, ThroughAppend, ZenonT(90)
    <3> QED
      BY <3>1, <3>2, <3>4
  <2>3. CASE c.free_slots # << >>
    <3> DEFINE s == Head(c.free_slots)
    <3>1. s \in Slots /\ s \notin ToSet(q)
      BY <1>1, <2>3, TailInjective
    <3>2. d = Bound(c, e, s, Tail(c.free_slots), q)
      BY <1>6, <2>3 DEF Loaded
    <3> HIDE DEF s
    <3>3. d.slot_to_expert = [f EXCEPT ![s] = e] /\ d.slot_lru = Append(q, s)
      BY <3>2 DEF Bound
    <3> HIDE DEF d, f, q
    <3>4. ResidentOrder(d) = Append(r, e)
      BY <1>1, <1>2, <2>2, <3>1, <3>3
    <3>5. Len(r) < Capacity
      BY <1>3, <2>3, FullWhenNoneFree DEF q
    <3> HIDE DEF r
    <3> QED
      BY <1>0, <2>1, <3>4, <3>5 DEF Lru!Use, Lru!HasRoom
  <2>4. CASE c.free_slots = << >>
    <3> DEFINE v == VictimPosition(c, locked)
               s == q[v]
    <3>1. Occupied(c) = Slots
      <4>1. ToSet(c.free_slots) = {}
        BY <2>4 DEF ToSet
      <4> QED
        BY <1>1, <4>1 DEF Occupied
    <3>2. \E t \in Slots : t \notin locked
      BY <1>6
    <3>3. Evictable(c, locked) # {}
      BY <1>1, <3>1, <3>2 DEF Evictable, ToSet
    <3>4. /\ v \in DOMAIN q /\ q[v] \notin locked
          /\ \A j \in DOMAIN q : q[j] \notin locked => v <= j
      <4>1. Evictable(c, locked) \in SUBSET Nat
        BY <1>1 DEF Evictable
      <4>2. \E i \in Evictable(c, locked) : \A j \in Evictable(c, locked) : i <= j
        BY <3>3, <4>1, LeastNatural
      <4>3. /\ v \in Evictable(c, locked)
            /\ \A j \in Evictable(c, locked) : v <= j
        BY <3>3, <4>2 DEF VictimPosition
      <4> QED
        BY <4>3 DEF Evictable
    <3> HIDE DEF v
    <3>5. \A i \in DOMAIN q : r[i] \in Pinned <=> q[i] \in locked
      BY <1>1, <1>3, <1>4
    <3>6. Lru!Oldest(r) = v
      <4>1. r[v] \notin Pinned /\ \A j \in 1..(v - 1) : r[j] \in Pinned
        <5>1. \A j \in 1..(v - 1) : j \in DOMAIN q /\ ~ (v <= j)
          BY <1>1, <3>4
        <5> QED
          BY <3>4, <3>5, <5>1
      <4>2. ASSUME NEW i \in DOMAIN r, r[i] \notin Pinned,
                   \A j \in 1..(i - 1) : r[j] \in Pinned
            PROVE  i = v
        <5>1. v <= i
          BY <1>3, <3>4, <3>5, <4>2
        <5>2. ~ (v < i)
          <6>1. v < i => v \in 1..(i - 1)
            BY <1>1, <1>3, <3>4, <4>2
          <6> QED
            BY <4>1, <4>2, <6>1
        <5> QED
          BY <1>1, <1>3, <3>4, <4>2, <5>1, <5>2
      <4> HIDE DEF r, q
      <4> QED
        BY <1>3, <3>4, <4>1, <4>2 DEF Lru!Oldest
    <3>7. s \in Slots /\ RemoveAt(q, v) \in Seq(Slots) /\ s \notin ToSet(RemoveAt(q, v))
      BY <1>1, <1>4, <3>4, RemoveAtInjective
    <3>8. d = Bound(c, e, s, c.free_slots, RemoveAt(q, v))
      BY <1>6, <2>4 DEF Loaded, v
    <3> HIDE DEF s
    <3>9. /\ d.slot_to_expert = [f EXCEPT ![s] = e]
          /\ d.slot_lru = Append(RemoveAt(q, v), s)
      BY <3>8 DEF Bound
    <3>10. Through(f, RemoveAt(q, v)) = RemoveAt(r, v)
      BY <1>1, <1>2, <3>4, ThroughRemove
    <3> HIDE DEF d, f, q
    <3>11. ResidentOrder(d) = Append(RemoveAt(r, v), e)
      BY <2>2, <3>7, <3>9, <3>10
    <3>12. ~ (Len(r) < Capacity)
      BY <1>3, <2>4, FullWhenNoneFree DEF q
    <3>13. ~ ToSet(r) \subseteq Pinned
      BY <1>3, <3>4, <3>5 DEF ToSet
    <3> HIDE DEF r
    <3> QED
      BY <1>0, <2>1, <3>6, <3>11, <3>12, <3>13 DEF Lru!Use, Lru!HasRoom
  <2> QED
    BY <2>3, <2>4
<1> QED
  BY <1>5, <1>6

(* A fresh table holds the first experts in the order of their numbers.    *)
LEMMA FreshIsFresh ==
  \E w \in 0..Capacity : ResidentOrder(FreshTable) = [i \in 1..w |-> i]
<1> DEFINE w == Smaller(WarmupSlots, Smaller(Capacity, NumExperts))
<1>1. w \in Nat /\ w <= Capacity /\ w \in 0..Capacity
  BY SlotAssumption, CacheAssumption DEF Smaller
<1> DEFINE c == WarmTable(w)
<1>2. /\ c.slot_lru = [i \in 1..w |-> i]
      /\ c.slot_to_expert = [s \in Slots |-> IF s <= w THEN s ELSE None]
  BY DEF WarmTable
<1>3. FreshTable = c
  BY DEF FreshTable
<1> HIDE DEF w, c
<1>4. DOMAIN c.slot_lru = 1..w
  BY <1>2
<1>5. \A i \in 1..w : c.slot_to_expert[c.slot_lru[i]] = i
  BY <1>1, <1>2, SlotAssumption DEF Slots
<1>6. ResidentOrder(c) = [i \in 1..w |-> i]
  BY <1>4, <1>5 DEF ResidentOrder
<1> QED
  BY <1>1, <1>3, <1>6

(* Outside of the path for a batch that fits no slot is locked.            *)
LocksReleased == host.pc \notin {"lock", "load", "infer"} => host.locked = {}

(* Every step keeps that.                                                  *)
LEMMA NextReleases ==
  ASSUME IInv, LocksReleased, [Next]_vars
  PROVE  LocksReleased'
<1>1. host \in HostState
  BY DEF IInv, TypeOK
<1>2. /\ Between.locked = {}
      /\ \A l, decode : AtLayer(l, decode).locked = {}
      /\ NextLayer.locked = {}
  BY DEF Between, AtLayer, NextLayer
<1>3. NextTarget.locked = host.locked
  BY <1>1 DEF NextTarget, HostState
\* Steps that end up with no lock.
<1>4. ASSUME host'.locked = {} PROVE LocksReleased'
  BY <1>4 DEF LocksReleased
\* Steps that stay in the path, or change no lock and start outside of it.
<1>5. ASSUME host'.pc \in {"lock", "load", "infer"} PROVE LocksReleased'
  BY <1>5 DEF LocksReleased
<1>6. ASSUME host'.locked = host.locked, host.pc \notin {"lock", "load", "infer"}
      PROVE  LocksReleased'
  BY <1>6 DEF LocksReleased
<1>7. CASE \E decode \in BOOLEAN : StartPass(decode)
  BY <1>2, <1>4, <1>7 DEF StartPass
<1>8. CASE \E P \in Predictions : Prefetch(P)
  <2>1. host'.locked = host.locked /\ host.pc = "hook"
    BY <1>1, <1>3, <1>8 DEF Prefetch, HostState
  <2> QED
    BY <1>6, <2>1
<1>9. CASE \E e \in Experts : PrefetchStep(e)
  <2>1. host'.locked = host.locked /\ host.pc = "prefetch"
    BY <1>1, <1>9 DEF PrefetchStep, HostState
  <2> QED
    BY <1>6, <2>1
<1>10. CASE PrefetchEnd
  BY <1>3, <1>6, <1>10 DEF PrefetchEnd
<1>11. CASE \E R \in Routings : Forward(R)
  <2>1. host'.locked = {}
    BY <1>1, <1>11 DEF Forward, HostState
  <2> QED
    BY <1>4, <2>1
<1>12. CASE \/ \E e \in Experts : LockHit(e) \/ LoadMiss(e)
            \/ FindMisses \/ LoadsIssued
  <2>1. host'.pc \in {"lock", "load", "infer"}
    BY <1>1, <1>12 DEF LockHit, LoadMiss, FindMisses, LoadsIssued, HostState
  <2> QED
    BY <1>5, <2>1
<1>13. CASE Infer
  BY <1>2, <1>4, <1>13 DEF Infer
<1>14. CASE \E e \in Experts : StepExpert(e) \/ WarmupStep(e)
  <2>1. host'.locked = host.locked /\ host.pc \in {"step", "warm"}
    BY <1>1, <1>14 DEF StepExpert, WarmupStep, HostState
  <2> QED
    BY <1>6, <2>1
<1>15. CASE ExecExpert
  <2>1. host.pc = "exec" /\ host.locked = {}
    BY <1>15 DEF ExecExpert, LocksReleased
  <2>2. host'.locked = {}
    BY <1>1, <1>2, <1>15, <2>1 DEF ExecExpert, HostState
  <2> QED
    BY <1>4, <2>2
<1>16. CASE ResetState
  BY <1>6, <1>16 DEF ResetState
<1>17. CASE StartWarmup \/ \E T \in PrefillTops : SeedLayer(T)
  <2>1. host'.locked = host.locked /\ host.pc \in {"between", "seed"}
    BY <1>1, <1>17 DEF StartWarmup, SeedLayer, HostState
  <2> QED
    BY <1>6, <2>1
<1>18. CASE WarmupEnd
  <2>1. host'.locked = {}
    BY <1>1, <1>2, <1>18 DEF WarmupEnd, Between
  <2> QED
    BY <1>4, <2>1
<1>19. CASE UNCHANGED vars
  BY <1>19 DEF vars, LocksReleased
<1> QED
  BY <1>7, <1>8, <1>9, <1>10, <1>11, <1>12, <1>13, <1>14, <1>15, <1>16, <1>17,
     <1>18, <1>19 DEF Next

(* Loading an expert in one layer is a step of the LRU sets.               *)
LEMMA LoadIsUse ==
  ASSUME cache \in [Layers -> SlotTable], TablesConsistent,
         NEW l \in Layers, NEW e \in Experts, NEW locked \in SUBSET Slots,
         Pinned = {cache[l].slot_to_expert[s] : s \in locked},
         cache[l].expert_to_slot[e] # None \/ \E s \in Slots : s \notin locked,
         cache' = [cache EXCEPT ![l] = Loaded(cache[l], e, locked)]
  PROVE  Lru!Next
<1> DEFINE c == cache[l]
           d == Loaded(c, e, locked)
           order == [k \in Layers |-> ResidentOrder(cache[k])]
           after == [k \in Layers |-> ResidentOrder(cache'[k])]
<1>1. c \in SlotTable /\ Consistent(c)
  BY DEF TablesConsistent
<1>2. /\ ResidentOrder(d) = Lru!Use(ResidentOrder(c), e)
      /\ Lru!HasRoom(ResidentOrder(c), e)
  <2> HIDE DEF c
  <2> QED
    BY <1>1, LoadUses DEF c
<1>3. /\ cache'[l] = d
      /\ \A k \in Layers : k # l => cache'[k] = cache[k]
  BY DEF d
<1>4. order[l] = ResidentOrder(c)
  OBVIOUS
<1> HIDE DEF c, d
<1>5. after = [order EXCEPT ![l] = Lru!Use(order[l], e)]
  BY <1>2, <1>3, <1>4
<1>6. Lru!HasRoom(order[l], e)
  BY <1>2, <1>4
<1>7. Lru!UseItem(l, e)
  BY <1>5, <1>6 DEF Lru!UseItem
<1> QED
  BY <1>7 DEF Lru!Next

(* Every step of the host is a step of the LRU sets or leaves them alone.  *)
LEMMA StepsAreLru ==
  ASSUME IInv, LocksReleased, [Next]_vars
  PROVE  [Lru!Next]_Lru!vars
<1>1. /\ cache \in [Layers -> SlotTable] /\ TablesConsistent
      /\ host \in HostState
      /\ host.layer \in Layers /\ host.target \in Layers
      /\ host.locked \in SUBSET Slots
  BY DEF IInv, TypeOK, HostState
<1>2. ASSUME cache' = cache PROVE [Lru!Next]_Lru!vars
  BY <1>2 DEF Lru!vars
\* The loads that no slot is locked for.
<1>3. ASSUME NEW l \in Layers, NEW e \in Experts,
             host.pc \notin {"lock", "load", "infer"},
             cache' = [cache EXCEPT ![l] = Loaded(cache[l], e, {})]
      PROVE  Lru!Next
  <2>1. Pinned = {cache[l].slot_to_expert[s] : s \in {}}
    BY <1>3 DEF LocksReleased, Pinned
  <2>2. 1 \in Slots /\ {} \in SUBSET Slots
    BY SlotAssumption DEF Slots
  <2> QED
    BY <1>1, <1>3, <2>1, <2>2, LoadIsUse
<1>4. ASSUME NEW e \in Experts, PrefetchStep(e) PROVE Lru!Next
  BY <1>1, <1>3, <1>4 DEF PrefetchStep
<1>5. ASSUME NEW e \in Experts, LockHit(e) PROVE [Lru!Next]_Lru!vars
  <2> DEFINE c == cache[host.layer]
  <2>1. CASE c.expert_to_slot[e] = None
    BY <1>2, <1>5, <2>1 DEF LockHit
  <2>2. CASE c.expert_to_slot[e] # None
    <3>1. Loaded(c, e, host.locked) = Touched(c, c.expert_to_slot[e])
      BY <2>2 DEF Loaded
    <3>2. cache' = [cache EXCEPT ![host.layer] = Loaded(c, e, host.locked)]
      BY <1>5, <2>2, <3>1 DEF LockHit
    <3>3. Pinned = {c.slot_to_expert[s] : s \in host.locked}
      BY DEF Pinned
    <3> QED
      BY <1>1, <2>2, <3>2, <3>3, LoadIsUse
  <2> QED
    BY <2>1, <2>2
<1>6. ASSUME NEW e \in Experts, LoadMiss(e) PROVE Lru!Next
  <2>1. \E s \in Slots : s \notin host.locked
    BY <1>6, SlotLeftForMiss
  <2>2. cache' = [cache EXCEPT ![host.layer] =
                     Loaded(cache[host.layer], e, host.locked)]
    BY <1>6 DEF LoadMiss
  <2>3. Pinned = {cache[host.layer].slot_to_expert[s] : s \in host.locked}
    BY DEF Pinned
  <2> QED
    BY <1>1, <2>1, <2>2, <2>3, LoadIsUse
<1>7. ASSUME NEW e \in Experts, StepExpert(e) PROVE Lru!Next
  BY <1>1, <1>3, <1>7 DEF StepExpert
<1>8. ASSUME NEW e \in Experts, WarmupStep(e) PROVE Lru!Next
  BY <1>1, <1>3, <1>8 DEF WarmupStep
<1>9. ASSUME ResetState PROVE Lru!Next
  <2>1. cache' = [l \in Layers |-> FreshTable] /\ host.locked = {}
    BY <1>9 DEF ResetState, LocksReleased
  <2>2. Pinned = {}
    BY <2>1 DEF Pinned
  <2>3. [l \in Layers |-> ResidentOrder(cache'[l])]
          = [l \in Layers |-> ResidentOrder(FreshTable)]
    BY <2>1
  <2>4. Lru!Reset
    BY <2>2, <2>3, FreshIsFresh DEF Lru!Reset, Lru!Fresh
  <2> QED
    BY <2>4 DEF Lru!Next
<1>10. CASE \/ \E decode \in BOOLEAN : StartPass(decode)
            \/ \E P \in Predictions : Prefetch(P)
            \/ PrefetchEnd
            \/ \E R \in Routings : Forward(R)
            \/ FindMisses \/ LoadsIssued \/ Infer \/ ExecExpert \/ StartWarmup
            \/ \E T \in PrefillTops : SeedLayer(T)
            \/ WarmupEnd
            \/ UNCHANGED vars
  <2>1. cache' = cache
    BY <1>10 DEF StartPass, Prefetch, PrefetchEnd, Forward, FindMisses,
         LoadsIssued, Infer, ExecExpert, StartWarmup, SeedLayer, WarmupEnd, vars
  <2> QED
    BY <1>2, <2>1
<1> QED
  BY <1>4, <1>5, <1>6, <1>7, <1>8, <1>9, <1>10 DEF Next

(* Whatever is prefetched, routed, warmed up or reset, each layer's table  *)
(* is an LRU set of experts: a use makes its expert the most recent, and   *)
(* an eviction takes the oldest expert the running forward has not locked. *)
THEOREM TablesImplementLru == Spec => ImplementsLru
<1>1. Init => LocksReleased
  BY DEF Init, Between, LocksReleased
<1>2. Init => Lru!Init
  <2> SUFFICES ASSUME Init PROVE Lru!Init
    OBVIOUS
  <2>1. cache = [l \in Layers |-> FreshTable] /\ host.locked = {}
    BY DEF Init, Between
  <2>2. Pinned = {}
    BY <2>1 DEF Pinned
  <2>3. [l \in Layers |-> ResidentOrder(cache[l])]
          = [l \in Layers |-> ResidentOrder(FreshTable)]
    BY <2>1
  <2> QED
    BY <2>2, <2>3, FreshIsFresh DEF Lru!Init, Lru!Fresh
<1>3. IInv /\ LocksReleased /\ [Next]_vars => LocksReleased'
  BY NextReleases
<1>4. IInv /\ LocksReleased /\ [Next]_vars => [Lru!Next]_Lru!vars
  BY StepsAreLru
<1> QED
  BY <1>1, <1>2, <1>3, <1>4, Invariance, PTL DEF Spec, ImplementsLru, Lru!Spec

(***************************************************************************)
(* PART 2.  THE CACHE ON ITS DEVICE                                        *)
(***************************************************************************)

(***************************************************************************)
(* Flattened sequences                                                     *)
(***************************************************************************)

(* The flattened sequence has every entry of every sequence.               *)
LEMMA FlattenCovers ==
  ASSUME NEW S, NEW seqs \in Seq(Seq(S)), NEW m \in 1..Len(seqs)
  PROVE  ToSet(seqs[m]) \subseteq ToSet(FlattenSeq(seqs))
<1> DEFINE n == Len(seqs)
<1>1. n \in Nat /\ m \in 1..n /\ \A i \in 1..n : seqs[i] \in Seq(S)
  BY LenProperties, ElementOfSeq
<1>2. seqs # << >>
  BY <1>1
<1>3. PICK f \in [1..n -> Seq(S)] :
         /\ f[1] = seqs[1]
         /\ \A i \in 2..n : f[i] = f[i - 1] \o seqs[i]
         /\ FlattenSeq(seqs) = f[n]
  BY <1>2, FlattenUnfolds
<1> HIDE DEF n
<1> DEFINE Bad == {k \in 1..n : m <= k /\ ~ (ToSet(seqs[m]) \subseteq ToSet(f[k]))}
<1> SUFFICES ASSUME ~ (ToSet(seqs[m]) \subseteq ToSet(f[n])) PROVE FALSE
  BY <1>3
<1>4. Bad # {}
  <2>1. n \in 1..n /\ m <= n
    BY <1>1
  <2> QED
    BY <2>1
<1>5. Bad \in SUBSET (1..n)
  OBVIOUS
<1> HIDE DEF Bad
<1>6. PICK k \in 1..n : k \in Bad /\ (k # 1 => k - 1 \in (1..n) \ Bad)
  BY <1>1, <1>4, <1>5, FirstFailure
<1>7. m <= k /\ ~ (ToSet(seqs[m]) \subseteq ToSet(f[k]))
  BY <1>6 DEF Bad
<1>8. CASE k = 1
  <2>1. m = 1
    BY <1>1, <1>7, <1>8
  <2> QED
    BY <1>3, <1>7, <1>8, <2>1
<1>9. CASE k # 1
  <2>1. k \in 2..n /\ k - 1 \in 1..n
    BY <1>1, <1>6, <1>9
  <2>2. f[k] = f[k - 1] \o seqs[k] /\ seqs[k] \in Seq(S) /\ f[k - 1] \in Seq(S)
    BY <1>1, <1>3, <1>6, <2>1
  <2>3. ToSet(f[k]) = ToSet(f[k - 1]) \cup ToSet(seqs[k])
    BY <2>2, ConcatEntries
  <2>4. k # m
    BY <1>7, <2>3
  <2>5. m <= k - 1
    BY <1>1, <1>7, <2>4
  <2>6. ToSet(seqs[m]) \subseteq ToSet(f[k - 1])
    BY <1>6, <2>1, <2>5 DEF Bad
  <2> QED
    BY <1>7, <2>3, <2>6
<1> QED
  BY <1>8, <1>9

(***************************************************************************)
(* The operations of the streams                                           *)
(***************************************************************************)

(* The fields of each kind of operation.                                   *)
LEMMA OperationShape ==
  ASSUME NEW o \in Operations
  PROVE  /\ o.op \in {"fill", "copy", "compute"}
         /\ o.layer \in Layers
         /\ o.op \in {"fill", "copy"} => o.buffer \in Buffers /\ o.slot \in Slots
         /\ o.op = "fill" => o.expert \in Experts
         /\ o.op = "compute" => o.uses \in SUBSET (Experts \X Slots)
<1>1. CASE \E b \in Buffers, l \in Layers, x \in Slots, e \in Experts :
             o = Fill(b, l, x, e)
  BY <1>1 DEF Fill
<1>2. CASE \E b \in Buffers, l \in Layers, x \in Slots : o = Copy(b, l, x)
  BY <1>2 DEF Copy
<1>3. CASE \E l \in Layers, uses \in SUBSET (Experts \X Slots) :
             o = Compute(l, uses)
  BY <1>3 DEF Compute
<1> QED
  BY <1>1, <1>2, <1>3 DEF Operations

(* A load is one or two operations for its layer and its slot.             *)
LEMMA TransferTyped ==
  ASSUME NEW class \in {Demand, Speculative}, NEW l \in Layers, NEW x \in Slots,
         NEW e \in Experts, NEW blocking \in BOOLEAN
  PROVE  /\ Transfer(class, l, x, e, blocking) \in Seq(Operations)
         /\ \A i \in DOMAIN Transfer(class, l, x, e, blocking) :
              /\ Transfer(class, l, x, e, blocking)[i].op # "compute"
              /\ Transfer(class, l, x, e, blocking)[i].layer = l
<1> DEFINE b == BufferOf(class, x)
           f == Fill(b, l, x, e)
           c == Copy(b, l, x)
<1>1. b \in Buffers
  BY DEF BufferOf, Buffers
<1>2. f \in Operations /\ c \in Operations
  BY <1>1 DEF Operations
<1>3. /\ f.op = "fill" /\ f.layer = l
      /\ c.op = "copy" /\ c.layer = l
  BY DEF Fill, Copy
<1>4. Transfer(class, l, x, e, blocking)
        = IF Columns \/ blocking THEN <<f, c>> ELSE <<c>>
  BY DEF Transfer
<1> HIDE DEF f, c
<1>5. <<f, c>> \in Seq(Operations) /\ <<c>> \in Seq(Operations)
  BY <1>2
<1>6. /\ \A i \in DOMAIN <<f, c>> : <<f, c>>[i] \in {f, c}
      /\ \A i \in DOMAIN <<c>> : <<c>>[i] = c
  OBVIOUS
<1> QED
  BY <1>3, <1>4, <1>5, <1>6

(* What is enqueued comes behind what the stream has to do already.        *)
LEMMA EnqueueAppends ==
  ASSUME queue \in [Streams -> Seq(Operations)],
         NEW st \in Streams, NEW ops \in Seq(Operations), Enqueue(st, ops)
  PROVE  /\ queue' \in [Streams -> Seq(Operations)]
         /\ queue'[st] = queue[st] \o ops
         /\ \A u \in Streams : u # st => queue'[u] = queue[u]
         /\ \A i \in DOMAIN queue'[st] :
              \/ i \in DOMAIN queue[st] /\ queue'[st][i] = queue[st][i]
              \/ \E j \in DOMAIN ops : queue'[st][i] = ops[j]
<1> DEFINE q == queue[st]
<1>1. q \in Seq(Operations) /\ q \o ops \in Seq(Operations)
  BY ConcatProperties
<1>2. queue' = [queue EXCEPT ![st] = q \o ops]
  BY DEF Enqueue
<1>3. /\ queue' \in [Streams -> Seq(Operations)]
      /\ queue'[st] = q \o ops
      /\ \A u \in Streams : u # st => queue'[u] = queue[u]
  BY <1>1, <1>2
<1> HIDE DEF q
<1>4. /\ DOMAIN (q \o ops) = 1..(Len(q) + Len(ops))
      /\ Len(q) \in Nat /\ Len(ops) \in Nat
      /\ DOMAIN q = 1..Len(q) /\ DOMAIN ops = 1..Len(ops)
      /\ \A i \in 1..(Len(q) + Len(ops)) :
           (q \o ops)[i] = IF i <= Len(q) THEN q[i] ELSE ops[i - Len(q)]
  BY <1>1, LenProperties, ConcatProperties
<1>5. ASSUME NEW i \in DOMAIN (q \o ops)
      PROVE  \/ i \in DOMAIN q /\ (q \o ops)[i] = q[i]
             \/ \E j \in DOMAIN ops : (q \o ops)[i] = ops[j]
  <2>1. CASE i <= Len(q)
    BY <1>4, <2>1
  <2>2. CASE ~ (i <= Len(q))
    <3>1. i - Len(q) \in DOMAIN ops
      BY <1>4, <2>2
    <3> QED
      BY <1>4, <2>2, <3>1
  <2> QED
    BY <2>1, <2>2
<1> QED
  BY <1>3, <1>5 DEF q

(* An expert that is made resident gets a slot.                            *)
LEMMA LoadBinds ==
  ASSUME IInv, NEW l \in Layers, NEW e \in Experts, NEW locked,
         cache' = [cache EXCEPT ![l] = Loaded(cache[l], e, locked)]
  PROVE  cache'[l].expert_to_slot[e] \in Slots
<1> DEFINE c == cache[l]
<1>1. /\ c \in SlotTable /\ Consistent(c) /\ cache \in [Layers -> SlotTable]
  BY DEF IInv, TypeOK, TablesConsistent
<1>2. cache'[l] = Loaded(c, e, locked)
  BY <1>1
<1> HIDE DEF c
<1> QED
  BY <1>1, <1>2, LoadedKeeps

(* The warmup of a reset is made of blocking loads of expert e into slot e:*)
(* what holds of each of them and carries over to a concatenation holds of *)
(* the loads of every layer, and of the whole.                             *)
LEMMA OneWarmupIn ==
  ASSUME NEW L \in SUBSET Seq(Operations), << >> \in L,
         \A a, b \in L : a \o b \in L,
         NEW l \in Layers,
         \A e \in Experts \cap Slots : Transfer(Demand, l, e, e, TRUE) \in L
  PROVE  WarmupLoads(l) \in L
<1> DEFINE w == Smaller(WarmupSlots, Smaller(Capacity, NumExperts))
           seqs == [e \in DOMAIN FreshTable.slot_lru
                      |-> Transfer(Demand, l, e, e, TRUE)]
<1>1. w \in Nat /\ w <= Capacity /\ w <= NumExperts
  BY SlotAssumption, CacheAssumption DEF Smaller
<1>2. DOMAIN FreshTable.slot_lru = 1..w
  BY DEF FreshTable, WarmTable
<1>3. \A e \in 1..w : e \in Experts \cap Slots
  BY <1>1, SlotAssumption DEF Slots, Experts
<1> HIDE DEF w
<1>4. seqs = [e \in 1..w |-> Transfer(Demand, l, e, e, TRUE)]
  BY <1>2
<1>5. \A e \in 1..w : Transfer(Demand, l, e, e, TRUE) \in L
  BY <1>3
<1> HIDE DEF seqs
<1>6. seqs \in [1..w -> L]
  BY <1>4, <1>5
<1>7. seqs \in Seq(L)
  BY <1>1, <1>6, SeqDef
<1>8. FlattenSeq(seqs) \in L
  BY <1>7, FlattenIn
<1> QED
  BY <1>8 DEF WarmupLoads, seqs

(* The warmups of all layers are in a set of sequences that has the parts. *)
LEMMA WarmupIn ==
  ASSUME NEW L \in SUBSET Seq(Operations), << >> \in L,
         \A a, b \in L : a \o b \in L,
         \A l \in Layers, e \in Experts \cap Slots :
           Transfer(Demand, l, e, e, TRUE) \in L
  PROVE  FlattenSeq([l \in Layers |-> WarmupLoads(l)]) \in L
<1>1. \A l \in Layers : WarmupLoads(l) \in L
  BY OneWarmupIn
<1>2. [l \in Layers |-> WarmupLoads(l)] \in Seq(L)
  BY <1>1, CacheAssumption, SeqDef DEF Layers
<1> QED
  BY <1>2, FlattenIn

(* They are well typed, and no computation is among them.                  *)
LEMMA WarmupTyped ==
  /\ FlattenSeq([l \in Layers |-> WarmupLoads(l)]) \in Seq(Operations)
  /\ \A i \in DOMAIN FlattenSeq([l \in Layers |-> WarmupLoads(l)]) :
       FlattenSeq([l \in Layers |-> WarmupLoads(l)])[i].op # "compute"
<1> DEFINE T == {o \in Operations : o.op # "compute"}
           ops == FlattenSeq([l \in Layers |-> WarmupLoads(l)])
<1>1. Seq(T) \subseteq Seq(Operations)
  <2>1. T \subseteq Operations
    OBVIOUS
  <2> HIDE DEF T
  <2> QED
    BY <2>1, SeqDef
<1>2. << >> \in Seq(T) /\ \A a, b \in Seq(T) : a \o b \in Seq(T)
  BY ConcatProperties
<1>3. ASSUME NEW l \in Layers, NEW e \in Experts \cap Slots
      PROVE  Transfer(Demand, l, e, e, TRUE) \in Seq(T)
  <2> DEFINE t == Transfer(Demand, l, e, e, TRUE)
  <2>1. Demand \in {Demand, Speculative} /\ e \in Experts /\ e \in Slots
    OBVIOUS
  <2>2. /\ t \in Seq(Operations)
        /\ \A i \in DOMAIN t : t[i].op # "compute" /\ t[i].layer = l
    <3> HIDE DEF t, T, ops
    <3>1. ASSUME NEW blocking \in BOOLEAN, NEW u,
                 u = Transfer(Demand, l, e, e, blocking)
          PROVE  /\ u \in Seq(Operations)
                 /\ \A i \in DOMAIN u : u[i].op # "compute" /\ u[i].layer = l
      BY <1>3, <2>1, <3>1, TransferTyped
    <3>2. t = Transfer(Demand, l, e, e, TRUE) /\ TRUE \in BOOLEAN
      BY DEF t
    <3> QED
      BY <3>1, <3>2, Zenon
  <2> HIDE DEF t
  <2>3. t \in [1..Len(t) -> T]
    BY <2>2, LenProperties
  <2>4. t \in Seq(T)
    BY <2>2, <2>3, LenProperties, SeqDef
  <2> QED
    BY <2>4 DEF t
<1>4. ops \in Seq(T)
  <2> HIDE DEF T
  <2>1. Seq(T) \in SUBSET Seq(Operations)
    BY <1>1
  <2> QED
    BY <1>2, <1>3, <2>1, WarmupIn
<1> HIDE DEF ops
<1>5. ops \in Seq(Operations) /\ \A i \in DOMAIN ops : ops[i] \in T
  BY <1>1, <1>4
<1> QED
  BY <1>5 DEF ops

(***************************************************************************)
(* What a step of the host does to the device                              *)
(***************************************************************************)

(* The device changes nothing the host's machine keeps, and every step of  *)
(* the host is one of that machine: what holds of ExpertCache holds here.  *)
LEMMA HostStepsBelow == HostStep => Next
BY DEF HostStep, Next, DmaStartPass, DmaPrefetch, DmaPrefetchStep,
   DmaPrefetchEnd, DmaForward, DmaLockHit, DmaFindMisses, DmaLoadMiss,
   DmaLoadsIssued, DmaInfer, DmaStepExpert, DmaExecExpert, DmaResetState,
   DmaStartWarmup, DmaSeedLayer, DmaWarmupStep, DmaWarmupEnd

(* So does every step of the system, the streams' changing none of it.     *)
LEMMA StepsBelow == DmaNext => [Next]_vars
<1>1. ASSUME NEW st \in Streams, StreamStep(st) PROVE UNCHANGED vars
  BY <1>1 DEF StreamStep, vars
<1> QED
  BY <1>1, HostStepsBelow DEF DmaNext

(* Where the host stands after a prefetch loop and after a layer.          *)
LEMMA Walk ==
  ASSUME host \in HostState
  PROVE  /\ NextTarget.layer = host.layer /\ NextTarget.decode = host.decode
         /\ \/ /\ host.target < LastTarget /\ NextTarget.pc = "hook"
               /\ NextTarget.target = host.target + 1
            \/ NextTarget.pc = "forward"
         /\ \/ NextLayer.pc = "between"
            \/ /\ NextLayer.layer = host.layer + 1
               /\ NextLayer.target = NextLayer.layer
               /\ NextLayer.decode = host.decode
               /\ NextLayer.pc \in {"hook", "forward"}
               /\ NextLayer.pc = "hook" => Hooked \/ host.decode
         /\ \A decode \in BOOLEAN :
              /\ AtLayer(1, decode).layer = 1 /\ AtLayer(1, decode).target = 1
              /\ AtLayer(1, decode).decode = decode
              /\ AtLayer(1, decode).pc \in {"hook", "forward"}
              /\ AtLayer(1, decode).pc = "hook" => Hooked \/ decode
<1>1. /\ NextTarget.layer = host.layer /\ NextTarget.decode = host.decode
      /\ \/ /\ host.target < LastTarget /\ NextTarget.pc = "hook"
            /\ NextTarget.target = host.target + 1
         \/ NextTarget.pc = "forward"
  BY DEF HostState, NextTarget
<1>2. \A l, decode :
        /\ AtLayer(l, decode).layer = l /\ AtLayer(l, decode).target = l
        /\ AtLayer(l, decode).decode = decode
        /\ AtLayer(l, decode).pc \in {"hook", "forward"}
        /\ AtLayer(l, decode).pc = "hook" => Hooked \/ decode
  BY DEF AtLayer, Between
<1>3. Between.pc = "between"
  BY DEF Between
<1> QED
  BY <1>1, <1>2, <1>3 DEF NextLayer

(* A step of the host puts some operations, often none, behind one stream. *)
(* On a prefetch stream they are transfers for its own layer; a            *)
(* computation is enqueued on the current stream, for the running layer.   *)
HostOperations(st, ops) ==
  /\ Enqueue(st, ops)
  /\ st # Current =>
       /\ host.pc = "prefetch" /\ st = host.target
       /\ pending' = [pending EXCEPT ![st] = TRUE]
       /\ \A i \in DOMAIN ops : ops[i].op # "compute" /\ ops[i].layer = st
  /\ \A i \in DOMAIN ops : ops[i].op = "compute" =>
       host.pc \in {"infer", "exec"} /\ ops[i].layer = host.layer

(* Nothing enqueued is an empty sequence enqueued.                         *)
LEMMA NothingEnqueued ==
  ASSUME queue \in [Streams -> Seq(Operations)], queue' = queue
  PROVE  \E st \in Streams, ops \in Seq(Operations) : HostOperations(st, ops)
<1>1. Current \in Streams /\ << >> \in Seq(Operations)
  BY DEF Streams
<1>2. queue[Current] \o << >> = queue[Current]
  BY <1>1, ConcatProperties, EmptySeq
<1>3. Enqueue(Current, << >>)
  BY <1>1, <1>2 DEF Enqueue
<1>4. DOMAIN << >> = {}
  OBVIOUS
<1> QED
  BY <1>1, <1>3, <1>4 DEF HostOperations

(* A load is enqueued, on the current stream or by the prefetch loop.      *)
LEMMA LoadEnqueued ==
  ASSUME NEW st \in Streams, NEW class \in {Demand, Speculative},
         NEW l \in Layers, NEW x \in Slots, NEW e \in Experts, NEW blocking \in BOOLEAN,
         Enqueue(st, Transfer(class, l, x, e, blocking)),
         st # Current => /\ host.pc = "prefetch" /\ st = host.target /\ l = st
                         /\ pending' = [pending EXCEPT ![st] = TRUE]
  PROVE  \E ops \in Seq(Operations) : HostOperations(st, ops)
<1> DEFINE ops == Transfer(class, l, x, e, blocking)
<1>1. /\ ops \in Seq(Operations)
      /\ \A i \in DOMAIN ops : ops[i].op # "compute" /\ ops[i].layer = l
  BY TransferTyped
<1>2. Enqueue(st, ops)
  OBVIOUS
<1> HIDE DEF ops
<1> QED
  BY <1>1, <1>2 DEF HostOperations

(* The computations of some resident experts are enqueued.                 *)
LEMMA ComputeEnqueued ==
  ASSUME IInv, NEW E \in SUBSET Resident(cache[host.layer]), Run(E),
         host.pc \in {"infer", "exec"}
  PROVE  \E ops \in Seq(Operations) : HostOperations(Current, ops)
<1> DEFINE bound == cache[host.layer].expert_to_slot
           uses == {<<e, bound[e]>> : e \in E}
           o == Compute(host.layer, uses)
           ops == <<o>>
<1>1. /\ host.layer \in Layers
      /\ bound \in [Experts -> Slots \cup {None}]
  BY DEF IInv, TypeOK, HostState, SlotTable
<1>2. uses \in SUBSET (Experts \X Slots)
  <2>1. \A e \in E : e \in Experts /\ bound[e] \in Slots
    BY <1>1 DEF Resident
  <2> QED
    BY <2>1
<1>3. o \in Operations /\ o.layer = host.layer
  <2> HIDE DEF uses
  <2>1. o \in {Compute(l, u) : l \in Layers, u \in SUBSET (Experts \X Slots)}
    BY <1>1, <1>2
  <2>2. o.layer = host.layer
    BY DEF Compute
  <2> HIDE DEF o
  <2> QED
    BY <2>1, <2>2 DEF Operations
<1>4. Enqueue(Current, ops)
  BY DEF Run
<1> HIDE DEF o
<1>5. ops \in Seq(Operations) /\ \A i \in DOMAIN ops : ops[i] = o
  BY <1>3
<1> QED
  BY <1>3, <1>4, <1>5 DEF HostOperations

(* Every step of the host has such operations.                             *)
LEMMA HostOperates ==
  ASSUME IInv, DmaTypeOK, HostStep
  PROVE  \E st \in Streams, ops \in Seq(Operations) : HostOperations(st, ops)
<1>1. /\ queue \in [Streams -> Seq(Operations)]
      /\ cache \in [Layers -> SlotTable]
      /\ host.layer \in Layers /\ host.target \in Layers
  BY DEF IInv, TypeOK, DmaTypeOK, HostState
<1>2. /\ Current \in Streams
      /\ \A l \in Layers : l \in Streams /\ l # Current
  BY CacheAssumption DEF Streams, Current, Layers
<1>3. /\ Demand \in {Demand, Speculative}
      /\ Speculative \in {Demand, Speculative}
  OBVIOUS
\* The steps that enqueue nothing.
<1>4. CASE queue' = queue
  BY <1>1, <1>4, NothingEnqueued
<1>5. ASSUME NEW e \in Experts, DmaPrefetchStep(e)
      PROVE  \E st \in Streams, ops \in Seq(Operations) : HostOperations(st, ops)
  <2> DEFINE x == cache'[host.target].expert_to_slot[e]
  <2>1. x \in Slots
    BY <1>1, <1>5, LoadBinds DEF DmaPrefetchStep, PrefetchStep
  <2>2. /\ Enqueue(host.target, Transfer(Speculative, host.target, x, e, FALSE))
        /\ pending' = [pending EXCEPT ![host.target] = TRUE]
        /\ host.pc = "prefetch"
    BY <1>5 DEF DmaPrefetchStep, PrefetchStep, Load
  <2> HIDE DEF x
  <2> QED
    BY <1>1, <1>2, <1>3, <1>5, <2>1, <2>2, LoadEnqueued
\* A demand load of the current stream.
<1>6. ASSUME NEW l \in Layers, NEW e \in Experts, NEW locked,
             NEW blocking \in BOOLEAN,
             cache' = [cache EXCEPT ![l] = Loaded(cache[l], e, locked)],
             Load(Current, Demand, l, cache'[l].expert_to_slot[e], e, blocking)
      PROVE  \E st \in Streams, ops \in Seq(Operations) : HostOperations(st, ops)
  <2> DEFINE x == cache'[l].expert_to_slot[e]
  <2>1. x \in Slots
    BY <1>6, LoadBinds
  <2>2. Enqueue(Current, Transfer(Demand, l, x, e, blocking))
    BY <1>6 DEF Load
  <2> HIDE DEF x
  <2> QED
    BY <1>2, <1>3, <1>6, <2>1, <2>2, LoadEnqueued
<1>7. ASSUME NEW e \in Experts, DmaLoadMiss(e)
      PROVE  \E st \in Streams, ops \in Seq(Operations) : HostOperations(st, ops)
  <2>1. /\ cache' = [cache EXCEPT ![host.layer]
                        = Loaded(cache[host.layer], e, host.locked)]
        /\ Load(Current, Demand, host.layer,
                cache'[host.layer].expert_to_slot[e], e, FALSE)
    BY <1>7 DEF DmaLoadMiss, LoadMiss
  <2> QED
    BY <1>1, <1>6, <1>7, <2>1
<1>8. ASSUME NEW e \in Experts, DmaStepExpert(e)
      PROVE  \E st \in Streams, ops \in Seq(Operations) : HostOperations(st, ops)
  <2>1. cache' = [cache EXCEPT ![host.layer] = Loaded(cache[host.layer], e, {})]
    BY <1>8 DEF DmaStepExpert, StepExpert
  <2>2. \/ queue' = queue
        \/ Load(Current, Demand, host.layer,
                cache'[host.layer].expert_to_slot[e], e, TRUE)
    BY <1>8 DEF DmaStepExpert, NoLoad
  <2> QED
    BY <1>1, <1>4, <1>6, <1>8, <2>1, <2>2
<1>9. ASSUME NEW e \in Experts, DmaWarmupStep(e)
      PROVE  \E st \in Streams, ops \in Seq(Operations) : HostOperations(st, ops)
  <2>1. cache' = [cache EXCEPT ![host.target] = Loaded(cache[host.target], e, {})]
    BY <1>9 DEF DmaWarmupStep, WarmupStep
  <2>2. \/ queue' = queue
        \/ Load(Current, Demand, host.target,
                cache'[host.target].expert_to_slot[e], e, TRUE)
    BY <1>9 DEF DmaWarmupStep, NoLoad
  <2> QED
    BY <1>1, <1>4, <1>6, <1>9, <2>1, <2>2
<1>10. CASE DmaInfer
  <2>1. host.pc = "infer" /\ Run(host.batch)
    BY <1>10 DEF DmaInfer, Infer
  <2>2. host.batch \in SUBSET Resident(cache[host.layer])
    BY <2>1 DEF IInv, RoutedResident
  <2> QED
    BY <1>2, <2>1, <2>2, ComputeEnqueued
<1>11. CASE DmaExecExpert
  <2>1. host.pc = "exec" /\ Run({host.expert})
    BY <1>11 DEF DmaExecExpert, ExecExpert
  <2>2. {host.expert} \in SUBSET Resident(cache[host.layer])
    BY <2>1 DEF IInv, RoutedResident
  <2> QED
    BY <1>2, <2>1, <2>2, ComputeEnqueued
<1>12. CASE DmaResetState
  <2> DEFINE ops == FlattenSeq([l \in Layers |-> WarmupLoads(l)])
  <2>1. Enqueue(Current, ops) /\ ops \in Seq(Operations)
    BY <1>12, WarmupTyped DEF DmaResetState
  <2>2. \A i \in DOMAIN ops : ops[i].op # "compute"
    BY WarmupTyped
  <2> HIDE DEF ops
  <2> QED
    BY <1>2, <2>1, <2>2 DEF HostOperations
<1>13. CASE \/ \E decode \in BOOLEAN : DmaStartPass(decode)
            \/ \E P \in Predictions : DmaPrefetch(P)
            \/ DmaPrefetchEnd
            \/ \E R \in Routings : DmaForward(R)
            \/ \E e \in Experts : DmaLockHit(e)
            \/ DmaFindMisses \/ DmaLoadsIssued \/ DmaStartWarmup
            \/ \E T \in PrefillTops : DmaSeedLayer(T)
            \/ DmaWarmupEnd
  <2>1. queue' = queue
    BY <1>13 DEF DmaStartPass, DmaPrefetch, DmaPrefetchEnd, DmaForward,
       DmaLockHit, DmaFindMisses, DmaLoadsIssued, DmaStartWarmup, DmaSeedLayer,
       DmaWarmupEnd, Quiet, NoLoad
  <2> QED
    BY <1>4, <2>1
<1> QED
  BY <1>5, <1>7, <1>8, <1>9, <1>10, <1>11, <1>12, <1>13 DEF HostStep

(***************************************************************************)
(* Types                                                                   *)
(***************************************************************************)

(* What the loads of a step write into the staging areas, ahead of the     *)
(* streams, is the weights of an expert; the slots themselves change only  *)
(* when a stream executes.                                                 *)
LEMMA HostTyped ==
  ASSUME IInv, DmaTypeOK, HostStep
  PROVE  /\ buffer' \in [Buffers -> Experts \cup {None}]
         /\ held' = held
         /\ pending' \in [Layers -> BOOLEAN]
         /\ waiting' \subseteq {"transfer", "device"}
<1>1. /\ buffer \in [Buffers -> Experts \cup {None}]
      /\ pending \in [Layers -> BOOLEAN]
      /\ host.layer \in Layers /\ host.target \in Layers
  BY DEF IInv, TypeOK, DmaTypeOK, HostState
<1>2. ASSUME NEW st, NEW class \in {Demand, Speculative}, NEW l, NEW x,
             NEW e \in Experts, NEW blocking, Load(st, class, l, x, e, blocking)
      PROVE  buffer' \in [Buffers -> Experts \cup {None}]
  <2>1. buffer' = buffer \/ buffer' = [buffer EXCEPT ![class] = e]
    BY <1>2 DEF Load
  <2> QED
    BY <1>1, <2>1
<1>3. ASSUME NEW e \in Experts, DmaPrefetchStep(e)
      PROVE  /\ buffer' \in [Buffers -> Experts \cup {None}]
             /\ pending' \in [Layers -> BOOLEAN]
             /\ held' = held /\ waiting' = {}
  <2>1. Speculative \in {Demand, Speculative}
    OBVIOUS
  <2>2. buffer' \in [Buffers -> Experts \cup {None}]
    BY <1>2, <1>3, <2>1 DEF DmaPrefetchStep
  <2> QED
    BY <1>1, <1>3, <2>2 DEF DmaPrefetchStep, NoWait
<1>4. ASSUME NEW e \in Experts,
             DmaLoadMiss(e) \/ DmaStepExpert(e) \/ DmaWarmupStep(e)
      PROVE  /\ buffer' \in [Buffers -> Experts \cup {None}]
             /\ held' = held /\ pending' = pending
             /\ waiting' \subseteq {"transfer", "device"}
  <2>1. Demand \in {Demand, Speculative}
    OBVIOUS
  <2>2. CASE DmaLoadMiss(e)
    BY <1>2, <2>1, <2>2 DEF DmaLoadMiss, NoWait
  <2>3. CASE DmaStepExpert(e)
    BY <1>1, <1>2, <2>1, <2>3 DEF DmaStepExpert, NoLoad, NoWait
  <2>4. CASE DmaWarmupStep(e)
    BY <1>1, <1>2, <2>1, <2>4 DEF DmaWarmupStep, NoLoad, NoWait
  <2> QED
    BY <1>4, <2>2, <2>3, <2>4
<1>5. ASSUME NEW R \in Routings, DmaForward(R)
      PROVE  /\ buffer' = buffer /\ held' = held /\ waiting' = {}
             /\ pending' \in [Layers -> BOOLEAN]
  BY <1>1, <1>5 DEF DmaForward, NoLoad, NoWait
<1>6. CASE DmaWarmupEnd \/ DmaResetState
  BY <1>1, <1>6 DEF DmaWarmupEnd, DmaResetState, NoLoad, NoWait
<1>7. CASE \/ \E decode \in BOOLEAN : DmaStartPass(decode)
           \/ \E P \in Predictions : DmaPrefetch(P)
           \/ DmaPrefetchEnd
           \/ \E e \in Experts : DmaLockHit(e)
           \/ DmaFindMisses \/ DmaLoadsIssued \/ DmaStartWarmup
           \/ \E T \in PrefillTops : DmaSeedLayer(T)
           \/ DmaInfer \/ DmaExecExpert
  BY <1>1, <1>7 DEF DmaStartPass, DmaPrefetch, DmaPrefetchEnd, DmaLockHit,
     DmaFindMisses, DmaLoadsIssued, DmaStartWarmup, DmaSeedLayer, DmaInfer,
     DmaExecExpert, Run, Quiet, NoLoad, NoWait
<1> QED
  BY <1>1, <1>3, <1>4, <1>5, <1>6, <1>7 DEF HostStep

(* A stream takes its first operation off; a transfer changes one entry of *)
(* one table of slots, and a fill the buffer it passes through.            *)
LEMMA StreamTyped ==
  ASSUME DmaTypeOK, NEW st \in Streams, StreamStep(st)
  PROVE  /\ queue' \in [Streams -> Seq(Operations)]
         /\ queue'[st] = Tail(queue[st]) /\ queue[st] # << >>
         /\ \A u \in Streams : u # st => queue'[u] = queue[u]
         /\ buffer' \in [Buffers -> Experts \cup {None}]
         /\ held' \in [Layers -> [Slots -> Experts \cup {None}]]
         /\ UNCHANGED <<cache, host, pending, waiting>>
<1> DEFINE o == Head(queue[st])
<1>1. /\ queue[st] \in Seq(Operations) /\ queue[st] # << >>
      /\ queue \in [Streams -> Seq(Operations)]
      /\ buffer \in [Buffers -> Experts \cup {None}]
      /\ held \in [Layers -> [Slots -> Experts \cup {None}]]
  BY DEF DmaTypeOK, StreamStep, Drained
<1>2. o \in Operations /\ Tail(queue[st]) \in Seq(Operations)
  BY <1>1
<1>3. /\ queue' = [queue EXCEPT ![st] = Tail(queue[st])]
      /\ buffer' = IF o.op = "fill" THEN [buffer EXCEPT ![o.buffer] = o.expert]
                   ELSE buffer
      /\ held' = IF o.op = "compute" THEN held
                 ELSE [held EXCEPT ![o.layer][o.slot] =
                         IF o.op = "fill" THEN None ELSE buffer[o.buffer]]
      /\ UNCHANGED <<cache, host, pending, waiting>>
  BY DEF StreamStep
<1> HIDE DEF o
<1>4. /\ o.op \in {"fill", "copy", "compute"} /\ o.layer \in Layers
      /\ o.op # "compute" => o.buffer \in Buffers /\ o.slot \in Slots
      /\ o.op = "fill" => o.expert \in Experts
  BY <1>2, OperationShape
<1>5. buffer' \in [Buffers -> Experts \cup {None}]
  BY <1>1, <1>3, <1>4
<1>6. held' \in [Layers -> [Slots -> Experts \cup {None}]]
  BY <1>1, <1>3, <1>4
<1>7. /\ queue' \in [Streams -> Seq(Operations)]
      /\ queue'[st] = Tail(queue[st])
      /\ \A u \in Streams : u # st => queue'[u] = queue[u]
  BY <1>1, <1>2, <1>3
<1> QED
  BY <1>1, <1>3, <1>5, <1>6, <1>7

(* Every step keeps all the types.                                         *)
LEMMA DmaTypeKeeps ==
  ASSUME IInv, DmaTypeOK, [DmaNext]_dmaVars
  PROVE  IInv' /\ DmaTypeOK'
<1>1. IInv'
  <2>1. CASE DmaNext
    BY <2>1, StepsBelow, NextKeeps
  <2>2. CASE UNCHANGED dmaVars
    <3>1. [Next]_vars
      BY <2>2 DEF dmaVars, vars
    <3> QED
      BY <3>1, NextKeeps
  <2> QED
    BY <2>1, <2>2
<1>2. TypeOK'
  BY <1>1 DEF IInv
<1>3. CASE HostStep
  <2>1. PICK st \in Streams, ops \in Seq(Operations) : HostOperations(st, ops)
    BY <1>3, HostOperates
  <2>2. queue' \in [Streams -> Seq(Operations)]
    BY <2>1, EnqueueAppends DEF HostOperations, DmaTypeOK
  <2>3. /\ buffer' \in [Buffers -> Experts \cup {None}]
        /\ held' = held
        /\ pending' \in [Layers -> BOOLEAN]
        /\ waiting' \subseteq {"transfer", "device"}
    BY <1>3, HostTyped
  <2> QED
    BY <1>1, <1>2, <2>2, <2>3 DEF DmaTypeOK
<1>4. ASSUME NEW st \in Streams, StreamStep(st)
      PROVE  DmaTypeOK'
  <2>1. pending' = pending /\ waiting' = waiting
    BY <1>4, StreamTyped
  <2> QED
    BY <1>2, <1>4, <2>1, StreamTyped DEF DmaTypeOK
<1>5. CASE UNCHANGED dmaVars
  <2>1. /\ queue' = queue /\ buffer' = buffer /\ held' = held
        /\ pending' = pending /\ waiting' = waiting
    BY <1>5 DEF dmaVars
  <2> QED
    BY <1>1, <1>2, <2>1 DEF DmaTypeOK
<1> QED
  BY <1>1, <1>3, <1>4, <1>5 DEF DmaNext

(* They hold at the start.                                                 *)
LEMMA DmaInitTyped == DmaInit => IInv /\ DmaTypeOK
<1> SUFFICES ASSUME DmaInit PROVE IInv /\ DmaTypeOK
  OBVIOUS
<1>1. IInv
  BY InitHolds DEF DmaInit
<1>2. FreshTable.slot_to_expert \in [Slots -> Experts \cup {None}]
  BY FreshTableConsistent DEF SlotTable
<1>3. queue \in [Streams -> Seq(Operations)]
  BY DEF DmaInit
<1> QED
  BY <1>1, <1>2, <1>3 DEF DmaInit, DmaTypeOK, IInv

(* The host's machine works on device memory of the right shape in every   *)
(* reachable state: the type invariant of the composed system.             *)
THEOREM DmaTypeCorrect == DmaSpec => []DmaTypeOK
<1>1. DmaInit => IInv /\ DmaTypeOK
  BY DmaInitTyped
<1>2. (IInv /\ DmaTypeOK) /\ [DmaNext]_dmaVars => (IInv /\ DmaTypeOK)'
  BY DmaTypeKeeps
<1> QED
  BY <1>1, <1>2, PTL DEF DmaSpec

(* The composed system is the cache of ExpertCache and nothing else: the   *)
(* device delays its steps and changes none of its tables.                 *)
THEOREM DmaImplementsCache == DmaSpec => Spec
<1>1. DmaInit => Init
  BY DEF DmaInit
<1>2. [DmaNext]_dmaVars => [Next]_vars
  <2>1. ASSUME UNCHANGED dmaVars PROVE UNCHANGED vars
    BY <2>1 DEF dmaVars, vars
  <2> QED
    BY <2>1, StepsBelow
<1> QED
  BY <1>1, <1>2, PTL DEF DmaSpec, Spec

(***************************************************************************)
(* Waiting for the prefetches                                              *)
(***************************************************************************)

(* A forward whose experts do not fit runs them one by one and does not    *)
(* wait for the prefetches of its layer.                                   *)
Waited == host.pc \in {"lock", "load", "infer", "step", "exec"}
Overfull == host.pc \in {"step", "exec"} /\ host.layer \notin Mixtral

(* The layers whose prefetch streams may have work: from the hook's layer  *)
(* on, as far as the forward of this pass has not waited for them.         *)
MayRun(l) ==
  /\ host.pc \notin {"between", "seed", "warm"}
  /\ IF Hooked THEN l >= host.layer /\ (Waited /\ ~ Overfull => l # host.layer)
     ELSE /\ l = host.layer /\ host.decode
          /\ host.pc \in {"prefetch", "forward"} \/ Overfull

(* The streams of all others have drained.                                 *)
StreamsOf == \A l \in Layers : ~ MayRun(l) => Drained(l)

(* The way through the experts that do not fit meets one that is not       *)
(* resident, for hits evict nothing; its load waits for the whole device,  *)
(* the prefetch streams included.                                          *)
OverfullMisses ==
  Overfull =>
    /\ ~ (Cardinality(host.batch) <= Capacity)
    /\ host.decode => Cardinality(host.batch) = TopK
    /\ \/ Drained(host.layer)
       \/ "device" \in waiting
       \/ host.batch \ host.todo \subseteq Resident(cache[host.layer])

(* A prefetch is for the hook's layer or a later one.                      *)
TargetsAhead ==
  host.pc \in {"hook", "prefetch"} =>
    /\ host.target >= host.layer
    /\ ~ Hooked => host.target = host.layer /\ host.decode

(* The invariant of the events.                                            *)
EventsInv ==
  /\ IInv /\ DmaTypeOK
  /\ StreamsOf /\ EventsCoverTransfers /\ TargetsAhead /\ OverfullMisses

(* Where each step of the host leads.                                      *)
Stays(pc) ==
  /\ host'.pc = pc
  /\ host'.layer = host.layer /\ host'.target = host.target
  /\ host'.decode = host.decode

(* Each action starts in its place of the host and leads to the next.      *)
LEMMA Moves ==
  ASSUME host \in HostState
  PROVE  /\ \A P : Prefetch(P) => /\ host.pc = "hook"
                                  /\ host' = NextTarget \/ Stays("prefetch")
         /\ \A e : PrefetchStep(e) => host.pc = "prefetch" /\ Stays("prefetch")
         /\ PrefetchEnd => host.pc = "prefetch" /\ host' = NextTarget
         /\ \A R : Forward(R) => /\ host.pc = "forward"
                                 /\ Stays("lock") \/ Stays("step")
         /\ \A e : LockHit(e) => host.pc = "lock" /\ Stays("lock")
         /\ FindMisses => host.pc = "lock" /\ Stays("load")
         /\ \A e : LoadMiss(e) => host.pc = "load" /\ Stays("load")
         /\ LoadsIssued => host.pc = "load" /\ Stays("infer")
         /\ Infer => host.pc = "infer" /\ host' = NextLayer
         /\ \A e : StepExpert(e) => host.pc = "step" /\ Stays("exec")
         /\ ExecExpert => /\ host.pc = "exec"
                          /\ host' = NextLayer \/ Stays("step")
         /\ ResetState => host.pc = "between" /\ host' = host
         /\ StartWarmup => host.pc = "between" /\ host'.pc = "seed"
         /\ \A T : SeedLayer(T) => host.pc = "seed" /\ host'.pc = "warm"
         /\ \A e : WarmupStep(e) => host.pc = "warm" /\ host'.pc = "warm"
         /\ WarmupEnd => host.pc = "warm" /\ host'.pc \in {"seed", "between"}
<1>1. /\ \A P : Prefetch(P) => /\ host.pc = "hook"
                               /\ host' = NextTarget \/ Stays("prefetch")
      /\ \A e : PrefetchStep(e) => host.pc = "prefetch" /\ Stays("prefetch")
      /\ PrefetchEnd => host.pc = "prefetch" /\ host' = NextTarget
  BY DEF Prefetch, PrefetchStep, PrefetchEnd, Stays, HostState
<1>2. /\ \A R : Forward(R) => /\ host.pc = "forward"
                              /\ Stays("lock") \/ Stays("step")
      /\ \A e : LockHit(e) => host.pc = "lock" /\ Stays("lock")
      /\ FindMisses => host.pc = "lock" /\ Stays("load")
  BY DEF Forward, LockHit, FindMisses, Stays, HostState
<1>3. /\ \A e : LoadMiss(e) => host.pc = "load" /\ Stays("load")
      /\ LoadsIssued => host.pc = "load" /\ Stays("infer")
  BY DEF LoadMiss, LoadsIssued, Stays, HostState
<1>4. /\ Infer => host.pc = "infer" /\ host' = NextLayer
      /\ \A e : StepExpert(e) => host.pc = "step" /\ Stays("exec")
      /\ ExecExpert => /\ host.pc = "exec"
                       /\ host' = NextLayer \/ Stays("step")
  BY DEF Infer, StepExpert, ExecExpert, Stays, HostState
<1>5. /\ ResetState => host.pc = "between" /\ host' = host
      /\ StartWarmup => host.pc = "between" /\ host'.pc = "seed"
      /\ \A T : SeedLayer(T) => host.pc = "seed" /\ host'.pc = "warm"
      /\ \A e : WarmupStep(e) => host.pc = "warm" /\ host'.pc = "warm"
  BY DEF ResetState, StartWarmup, SeedLayer, WarmupStep, HostState
<1>6. WarmupEnd => host.pc = "warm" /\ host'.pc \in {"seed", "between"}
  <2>1. Between \in HostState /\ Between.pc = "between"
    BY BetweenTyped DEF Between
  <2> QED
    BY <2>1 DEF WarmupEnd, HostState
<1> QED
  BY <1>1, <1>2, <1>3, <1>4, <1>5, <1>6

(* A prefetch stays ahead of the layer that runs.                          *)
LEMMA TargetsStayAhead ==
  ASSUME IInv, TargetsAhead, Next
  PROVE  TargetsAhead'
<1>1. /\ host \in HostState
      /\ host.layer \in Nat /\ host.target \in Nat /\ host.decode \in BOOLEAN
  BY DEF IInv, TypeOK, HostState, Layers
<1>2. CASE host' = NextTarget /\ host.pc \in {"hook", "prefetch"}
  <2>1. ~ Hooked => LastTarget = host.layer
    BY DEF LastTarget
  <2> QED
    BY <1>1, <1>2, <2>1, Walk DEF TargetsAhead
<1>3. CASE host' = NextLayer
  BY <1>1, <1>3, Walk DEF TargetsAhead
<1>4. ASSUME NEW decode \in BOOLEAN, StartPass(decode)
      PROVE  TargetsAhead'
  BY <1>1, <1>4, Walk DEF TargetsAhead, StartPass
<1>5. CASE Stays("prefetch") /\ host.pc \in {"hook", "prefetch"}
  BY <1>5 DEF TargetsAhead, Stays
<1>6. CASE host'.pc \notin {"hook", "prefetch"}
  BY <1>6 DEF TargetsAhead
<1>7. \A pc \in {"lock", "load", "infer", "step", "exec"} :
        Stays(pc) => host'.pc \notin {"hook", "prefetch"}
  BY DEF Stays
<1> QED
  BY <1>1, <1>2, <1>3, <1>4, <1>5, <1>6, <1>7, Moves DEF Next

(* Resident experts have slots of their own.                               *)
LEMMA ResidentFit ==
  ASSUME NEW c \in SlotTable, Consistent(c), NEW K \in SUBSET Resident(c)
  PROVE  Cardinality(K) <= Capacity
<1> DEFINE f == [e \in K |-> c.expert_to_slot[e]]
<1>1. /\ IsFiniteSet(Slots) /\ Cardinality(Slots) = Capacity
  BY SlotAssumption, FS_Interval DEF Slots
<1>2. \A e \in K : /\ c.expert_to_slot[e] \in Slots
                   /\ c.slot_to_expert[c.expert_to_slot[e]] = e
  BY DEF SlotTable, Consistent, Resident
<1>3. f \in Injection(K, Slots)
  BY <1>2 DEF Injection, IsInjective
<1> QED
  BY <1>1, <1>3, FS_Injection

(* The last expert of a forward that does not fit is behind a wait for the *)
(* device: the prefetch stream of the layer has drained.                   *)
LEMMA OverfullEnds ==
  ASSUME EventsInv, ExecExpert, Ready, Overfull, host' = NextLayer
  PROVE  Drained(host.layer)
<1>1. /\ host \in HostState /\ host.layer \in Layers
      /\ host.batch \in SUBSET Experts
      /\ cache[host.layer] \in SlotTable /\ Consistent(cache[host.layer])
  BY DEF EventsInv, IInv, TypeOK, TablesConsistent, HostState
<1>2. host.todo = {}
  <2>1. host.pc = "exec" /\ NextLayer.pc \in {"hook", "forward", "between"}
    BY <1>1, NextLayerTyped DEF ExecExpert
  <2>2. host.todo # {} => host'.pc = "step"
    BY <1>1 DEF ExecExpert, HostState
  <2> QED
    BY <2>1, <2>2
<1>3. CASE "device" \in waiting
  <2>1. host.layer \in Streams
    BY <1>1 DEF Streams
  <2> QED
    BY <1>3, <2>1 DEF Ready
<1>4. CASE host.batch \ host.todo \subseteq Resident(cache[host.layer])
  <2>1. Cardinality(host.batch) <= Capacity
    BY <1>1, <1>2, <1>4, ResidentFit
  <2> QED
    BY <2>1 DEF EventsInv, OverfullMisses
<1> QED
  BY <1>3, <1>4 DEF EventsInv, OverfullMisses

(* A stream that may run goes on to be one that may, unless its layer's    *)
(* forward has begun by waiting for it, or ends.                           *)
MovesOn(l) ==
  /\ l = host.layer /\ host.pc \notin {"hook", "prefetch"}
  /\ Overfull => host' = NextLayer
  /\ host.pc = "forward" => ~ Overfull'

(* A layer whose prefetch may be under way stays one.                      *)
LEMMA StillMayRun ==
  ASSUME IInv, TargetsAhead, Next, NEW l \in Layers, MayRun(l), ~ MovesOn(l)
  PROVE  MayRun(l)'
<1>1. /\ host \in HostState /\ l \in Nat
      /\ host.layer \in Nat /\ host.target \in Nat /\ host.decode \in BOOLEAN
  BY DEF IInv, TypeOK, HostState, Layers
<1>2. host.pc \notin {"between", "seed", "warm"}
  BY DEF MayRun
<1>3. CASE host' = NextTarget /\ host.pc \in {"hook", "prefetch"}
  <2>1. ~ Hooked => LastTarget = host.layer
    BY DEF LastTarget
  <2> QED
    BY <1>1, <1>3, <2>1, Walk DEF MayRun, Waited, Overfull, TargetsAhead
<1>4. CASE host' = NextLayer /\ host.pc \in {"infer", "exec"}
  <2>1. l > host.layer /\ Hooked
    BY <1>1, <1>4 DEF MayRun, Waited, Overfull, MovesOn
  <2>2. host.layer < NumLayers
    BY <1>1, <2>1, CacheAssumption DEF Layers
  <2>3. /\ host'.layer = host.layer + 1
        /\ host'.pc \in {"hook", "forward"}
    BY <1>4, <2>2, CacheAssumption DEF NextLayer, AtLayer, Between
  <2> QED
    BY <1>1, <2>1, <2>3 DEF MayRun, Waited
<1>5. CASE Stays("prefetch") /\ host.pc \in {"hook", "prefetch"}
  BY <1>5 DEF MayRun, Waited, Overfull, Stays
<1>6. CASE /\ \E pc \in {"lock", "load", "infer"} : Stays(pc)
           /\ host.pc \in {"forward", "lock", "load"}
  BY <1>1, <1>6 DEF MayRun, Waited, Overfull, Stays, MovesOn
<1>7. CASE /\ \E pc \in {"step", "exec"} : Stays(pc)
           /\ host.pc \in {"forward", "step", "exec"}
  BY <1>7 DEF MayRun, Waited, Overfull, Stays, MovesOn
<1>8. \/ host.pc \in {"hook", "prefetch"}
           /\ (host' = NextTarget \/ Stays("prefetch"))
      \/ /\ \E pc \in {"lock", "load", "infer"} : Stays(pc)
         /\ host.pc \in {"forward", "lock", "load"}
      \/ /\ \E pc \in {"step", "exec"} : Stays(pc)
         /\ host.pc \in {"forward", "step", "exec"}
      \/ host' = NextLayer /\ host.pc \in {"infer", "exec"}
  BY <1>1, <1>2, Moves DEF Next, StartPass
<1> QED
  BY <1>3, <1>4, <1>5, <1>6, <1>7, <1>8

(* After a step of the host, a prefetch stream has drained if no event is  *)
(* pending for it, and if its layer is none that may have work.            *)
LEMMA DrainedAfter ==
  ASSUME EventsInv, HostStep, NEW l \in Layers
  PROVE  ~ pending'[l] \/ ~ MayRun(l)' => queue'[l] = << >>
<1>1. /\ host \in HostState /\ host.layer \in Layers /\ host.target \in Layers
      /\ l \in Nat /\ host.layer \in Nat /\ host.target \in Nat
      /\ host.decode \in BOOLEAN
      /\ pending \in [Layers -> BOOLEAN]
      /\ queue \in [Streams -> Seq(Operations)]
      /\ IInv /\ DmaTypeOK /\ TargetsAhead
  BY DEF EventsInv, IInv, TypeOK, DmaTypeOK, HostState, Layers
<1>2. Next
  BY HostStepsBelow
<1>3. /\ ~ MayRun(l) => Drained(l)
      /\ ~ pending[l] => Drained(l)
      /\ host.pc \in {"between", "seed", "warm"} => Drained(l)
      /\ Waited /\ ~ Overfull /\ l = host.layer => Drained(l)
  BY DEF EventsInv, StreamsOf, EventsCoverTransfers, MayRun, Waited, Overfull
<1>4. l \in Streams /\ l # Current
  BY CacheAssumption DEF Streams, Current, Layers
\* The prefetch of an expert for the target.
<1>5. ASSUME NEW e \in Experts, DmaPrefetchStep(e)
      PROVE  ~ pending'[l] \/ ~ MayRun(l)' => queue'[l] = << >>
  <2>1. /\ pending' = [pending EXCEPT ![host.target] = TRUE]
        /\ host.pc = "prefetch" /\ Stays("prefetch")
    BY <1>1, <1>5, Moves DEF DmaPrefetchStep
  <2>2. CASE l = host.target
    <3>1. MayRun(l)'
      BY <1>1, <2>1, <2>2 DEF MayRun, Waited, Stays, TargetsAhead
    <3> QED
      BY <1>1, <2>1, <2>2, <3>1
  <2>3. CASE l # host.target
    <3>1. queue'[l] = queue[l]
      <4>1. \E ops : queue' = [queue EXCEPT ![host.target] = ops]
        BY <1>5 DEF DmaPrefetchStep, Load, Enqueue
      <4> QED
        BY <1>1, <1>4, <2>3, <4>1
    <3>2. pending'[l] = pending[l]
      BY <1>1, <2>1, <2>3
    <3>3. MayRun(l) => MayRun(l)'
      BY <1>1, <1>2, <2>1, StillMayRun DEF MovesOn
    <3> QED
      BY <1>3, <3>1, <3>2, <3>3 DEF Drained
  <2> QED
    BY <2>2, <2>3
\* No other step touches the prefetch streams.
<1>6. (\A e \in Experts : ~ DmaPrefetchStep(e)) => queue'[l] = queue[l]
  <2>1. CASE queue' = queue
    BY <2>1
  <2>2. CASE \E ops : queue' = [queue EXCEPT ![Current] = ops]
    BY <1>1, <1>4, <2>2
  <2>3. \/ \E e \in Experts : DmaPrefetchStep(e)
        \/ queue' = queue
        \/ \E ops : queue' = [queue EXCEPT ![Current] = ops]
    BY DEF HostStep, DmaStartPass, DmaPrefetch, DmaPrefetchEnd, DmaForward,
       DmaLockHit, DmaFindMisses, DmaLoadMiss, DmaLoadsIssued, DmaInfer,
       DmaStepExpert, DmaExecExpert, DmaResetState, DmaStartWarmup,
       DmaSeedLayer, DmaWarmupStep, DmaWarmupEnd, Quiet, NoLoad, Load, Run,
       Enqueue
  <2> QED
    BY <2>1, <2>2, <2>3
\* The host is not in a pass: everything has drained.
<1>7. CASE host.pc \in {"between", "seed", "warm"}
  <2>1. \A e \in Experts : ~ DmaPrefetchStep(e)
    BY <1>7 DEF DmaPrefetchStep, PrefetchStep
  <2> QED
    BY <1>3, <1>6, <1>7, <2>1 DEF Drained
\* A forward waits for the events of its layer, or goes the long way.
<1>8. ASSUME NEW R \in Routings, DmaForward(R)
      PROVE  ~ pending'[l] \/ ~ MayRun(l)' => queue'[l] = << >>
  <2> DEFINE synchronizes ==
               host.layer \in Mixtral \/ Cardinality(R) <= Capacity
  <2>1. Forward(R) /\ host.pc = "forward" /\ queue' = queue
    BY <1>8 DEF DmaForward, Forward, NoLoad
  <2>2. CASE synchronizes
    <3>1. /\ pending[host.layer] => Drained(host.layer)
          /\ pending' = [pending EXCEPT ![host.layer] = FALSE]
      BY <1>8, <2>2 DEF DmaForward
    <3>2. CASE l = host.layer
      BY <1>3, <2>1, <3>1, <3>2 DEF Drained
    <3>3. CASE l # host.layer
      <4>1. pending'[l] = pending[l]
        BY <1>1, <3>1, <3>3
      <4>2. MayRun(l) => MayRun(l)'
        BY <1>1, <1>2, <3>3, StillMayRun DEF MovesOn
      <4> QED
        BY <1>3, <2>1, <4>1, <4>2 DEF Drained
    <3> QED
      BY <3>2, <3>3
  <2>3. CASE ~ synchronizes
    <3>1. pending' = pending
      BY <1>8, <2>3 DEF DmaForward
    <3>2. Overfull'
      BY <1>1, <2>1, <2>3 DEF Forward, Overfull, HostState
    <3>3. MayRun(l) => MayRun(l)'
      BY <1>1, <1>2, <2>1, <3>2, StillMayRun DEF MovesOn
    <3> QED
      BY <1>3, <2>1, <3>1, <3>3 DEF Drained
  <2> QED
    BY <2>2, <2>3
\* The rest of a pass touches no event.
<1>9. CASE pending' = pending /\ (\A e \in Experts : ~ DmaPrefetchStep(e))
             /\ host.pc \in {"hook", "prefetch", "lock", "load", "infer",
                             "step", "exec"}
  <2>1. MayRun(l) /\ ~ MayRun(l)' => Drained(l)
    <3> SUFFICES ASSUME MayRun(l), ~ MayRun(l)' PROVE Drained(l)
      OBVIOUS
    <3>1. /\ l = host.layer /\ host.pc \notin {"hook", "prefetch"}
          /\ ~ (Overfull /\ host' # NextLayer)
      BY <1>1, <1>2, StillMayRun DEF MovesOn
    <3>2. CASE ~ Overfull
      BY <1>3, <1>9, <3>1, <3>2 DEF Waited
    <3>3. CASE Overfull /\ host' = NextLayer
      <4>1. NextLayer.pc \in {"hook", "forward", "between"}
        BY <1>1, NextLayerTyped
      <4>2. (\E e \in Experts : StepExpert(e)) \/ DmaExecExpert
        BY <1>1, <3>3, Moves DEF HostStep, Overfull, DmaStartPass, DmaPrefetch,
           DmaPrefetchStep, DmaPrefetchEnd, DmaForward, DmaLockHit,
           DmaFindMisses, DmaLoadMiss, DmaLoadsIssued, DmaInfer, DmaStepExpert,
           DmaResetState, DmaStartWarmup, DmaSeedLayer, DmaWarmupStep,
           DmaWarmupEnd, StartPass
      <4>3. DmaExecExpert
        BY <1>1, <3>3, <4>1, <4>2, Moves DEF Stays
      <4> QED
        BY <3>1, <3>3, <4>3, OverfullEnds DEF DmaExecExpert, Run
    <3> QED
      BY <3>1, <3>2, <3>3
  <2> QED
    BY <1>3, <1>6, <1>9, <2>1 DEF Drained
<1>10. CASE \/ \E P \in Predictions : DmaPrefetch(P)
            \/ DmaPrefetchEnd
            \/ \E e \in Experts : DmaLockHit(e)
            \/ DmaFindMisses
            \/ \E e \in Experts : DmaLoadMiss(e)
            \/ DmaLoadsIssued \/ DmaInfer
            \/ \E e \in Experts : DmaStepExpert(e)
            \/ DmaExecExpert
  <2>1. pending' = pending
    BY <1>10 DEF DmaPrefetch, DmaPrefetchEnd, DmaLockHit, DmaFindMisses,
       DmaLoadMiss, DmaLoadsIssued, DmaInfer, DmaStepExpert, DmaExecExpert,
       Run, Quiet
  <2>2. host.pc \in {"hook", "prefetch", "lock", "load", "infer", "step", "exec"}
    BY <1>1, <1>10, Moves DEF DmaPrefetch, DmaPrefetchEnd, DmaLockHit,
       DmaFindMisses, DmaLoadMiss, DmaLoadsIssued, DmaInfer, DmaStepExpert,
       DmaExecExpert
  <2> QED
    BY <1>5, <1>9, <2>1, <2>2
<1>11. CASE \/ \E decode \in BOOLEAN : DmaStartPass(decode)
            \/ DmaResetState \/ DmaStartWarmup
            \/ \E T \in PrefillTops : DmaSeedLayer(T)
            \/ \E e \in Experts : DmaWarmupStep(e)
            \/ DmaWarmupEnd
  BY <1>1, <1>7, <1>11, Moves DEF DmaStartPass, DmaResetState, DmaStartWarmup,
     DmaSeedLayer, DmaWarmupStep, DmaWarmupEnd, StartPass
<1> QED
  BY <1>5, <1>8, <1>10, <1>11 DEF HostStep

(* Running the experts one by one, when they do not fit: as long as every  *)
(* one was a hit, the ones handled are resident still.                     *)
LEMMA OverfullStays ==
  ASSUME EventsInv, HostStep
  PROVE  OverfullMisses'
<1>1. /\ host \in HostState /\ host.layer \in Layers
      /\ host.batch \in SUBSET Experts /\ host.todo \in SUBSET Experts
      /\ cache \in [Layers -> SlotTable] /\ TablesConsistent
      /\ queue \in [Streams -> Seq(Operations)]
      /\ host.layer \in Streams /\ host.layer # Current
  BY CacheAssumption
  DEF EventsInv, IInv, TypeOK, DmaTypeOK, HostState, Streams, Current, Layers
<1>2. CASE ~ Overfull'
  BY <1>2 DEF OverfullMisses
<1>3. ASSUME NEW R \in Routings, DmaForward(R), Overfull'
      PROVE  OverfullMisses'
  <2>1. /\ Forward(R)
        /\ host'.batch = R /\ host'.todo = R /\ host'.layer = host.layer
        /\ host'.decode = host.decode
        /\ host'.pc = IF host.layer \notin Mixtral /\ Cardinality(R) <= Capacity
                      THEN "lock" ELSE "step"
    BY <1>1, <1>3 DEF DmaForward, Forward, HostState
  <2>2. ~ (Cardinality(R) <= Capacity)
    BY <1>3, <2>1 DEF Overfull
  <2>3. host.decode => Cardinality(R) = TopK
    BY <2>1 DEF Forward
  <2>4. host'.batch \ host'.todo = {}
    BY <2>1
  <2> QED
    BY <2>1, <2>2, <2>3, <2>4 DEF OverfullMisses
\* What a hit or the running of an expert leaves as it was.
<1>4. ASSUME Overfull, Ready, queue'[host.layer] = queue[host.layer],
             host'.batch = host.batch, host'.layer = host.layer,
             host'.decode = host.decode,
             NEW X, X \subseteq Resident(cache[host.layer]),
             host'.batch \ host'.todo \subseteq (host.batch \ host.todo) \cup X,
             Resident(cache'[host.layer]) = Resident(cache[host.layer])
      PROVE  OverfullMisses'
  <2>1. CASE Drained(host.layer) \/ "device" \in waiting
    <3>1. Drained(host.layer)
      BY <1>1, <1>4, <2>1 DEF Ready
    <3>2. queue'[host'.layer] = << >>
      BY <1>4, <3>1 DEF Drained
    <3> QED
      BY <1>4, <3>2 DEF EventsInv, OverfullMisses, Drained
  <2>2. CASE host.batch \ host.todo \subseteq Resident(cache[host.layer])
    <3>1. host'.batch \ host'.todo \subseteq Resident(cache'[host'.layer])
      BY <1>4, <2>2
    <3> QED
      BY <1>4, <3>1 DEF EventsInv, OverfullMisses
  <2> QED
    BY <1>4, <2>1, <2>2 DEF EventsInv, OverfullMisses
<1>5. ASSUME NEW e \in Experts, DmaStepExpert(e), Overfull'
      PROVE  OverfullMisses'
  <2> DEFINE l == host.layer
             c == cache[l]
  <2>1. /\ host.pc = "step" /\ host'.batch = host.batch
        /\ host'.todo = host.todo \ {e} /\ host'.layer = l
        /\ host'.decode = host.decode
        /\ cache' = [cache EXCEPT ![l] = Loaded(c, e, {})]
        /\ Ready
    BY <1>1, <1>5 DEF DmaStepExpert, StepExpert, HostState
  <2>2. Overfull
    BY <1>5, <2>1 DEF Overfull
  <2>3. CASE e \in Resident(c)
    <3>1. queue' = queue
      BY <1>5, <2>3 DEF DmaStepExpert, NoLoad
    <3>2. c.expert_to_slot[e] # None
      BY <2>3 DEF Resident
    <3>3. c \in SlotTable /\ Consistent(c)
      BY <1>1 DEF TablesConsistent
    <3>4. c.expert_to_slot[e] \in Occupied(c)
      BY <3>2, <3>3, NoneIsNoSlot DEF SlotTable, Consistent, Occupied
    <3>5. /\ Loaded(c, e, {}) = Touched(c, c.expert_to_slot[e])
          /\ Touched(c, c.expert_to_slot[e]).expert_to_slot = c.expert_to_slot
      BY <3>2, <3>3, <3>4, TouchedKeeps DEF Loaded
    <3>6. cache'[l] = Loaded(c, e, {})
      BY <1>1, <2>1
    <3>7. Resident(cache'[l]) = Resident(c)
      BY <3>5, <3>6 DEF Resident
    <3>8. host'.batch \ host'.todo \subseteq (host.batch \ host.todo) \cup {e}
      BY <2>1
    <3> QED
      BY <1>4, <2>1, <2>2, <2>3, <3>1, <3>7, <3>8
  <2>4. CASE e \notin Resident(c)
    <3>1. "device" \in waiting'
      BY <1>5, <2>2, <2>4 DEF DmaStepExpert, Overfull
    <3> QED
      BY <2>1, <2>2, <3>1 DEF EventsInv, OverfullMisses
  <2> QED
    BY <2>3, <2>4
<1>6. ASSUME DmaExecExpert, Overfull'
      PROVE  OverfullMisses'
  <2>1. /\ ExecExpert /\ Ready /\ cache' = cache
        /\ \E ops : queue' = [queue EXCEPT ![Current] = ops]
    BY <1>6 DEF DmaExecExpert, ExecExpert, Run, Enqueue
  <2>2. host' # NextLayer
    BY <1>1, <1>6, NextLayerTyped DEF Overfull
  <2>3. /\ host.pc = "exec" /\ host'.batch = host.batch
        /\ host'.todo = host.todo /\ host'.layer = host.layer
        /\ host'.decode = host.decode
    BY <1>1, <2>1, <2>2 DEF ExecExpert, HostState
  <2>4. Overfull
    BY <1>6, <2>3 DEF Overfull
  <2>5. queue'[host.layer] = queue[host.layer]
    BY <1>1, <2>1
  <2>6. {} \subseteq Resident(cache[host.layer])
    OBVIOUS
  <2> QED
    BY <1>4, <2>1, <2>3, <2>4, <2>5, <2>6
<1>7. CASE \/ \E decode \in BOOLEAN : DmaStartPass(decode)
           \/ \E P \in Predictions : DmaPrefetch(P)
           \/ \E e \in Experts : DmaPrefetchStep(e)
           \/ DmaPrefetchEnd
           \/ \E e \in Experts : DmaLockHit(e)
           \/ DmaFindMisses
           \/ \E e \in Experts : DmaLoadMiss(e)
           \/ DmaLoadsIssued \/ DmaInfer
           \/ DmaResetState \/ DmaStartWarmup
           \/ \E T \in PrefillTops : DmaSeedLayer(T)
           \/ \E e \in Experts : DmaWarmupStep(e)
           \/ DmaWarmupEnd
  <2>1. /\ \A decode \in BOOLEAN : AtLayer(1, decode).pc \in {"hook", "forward"}
        /\ NextTarget.pc \in {"hook", "forward"}
        /\ NextLayer.pc \in {"hook", "forward", "between"}
    BY <1>1, BetweenTyped, NextTargetTyped, NextLayerTyped, CacheAssumption
    DEF Layers
  <2>2. \A pc \in {"prefetch", "lock", "load", "infer"} :
          Stays(pc) => host'.pc \notin {"step", "exec"}
    BY DEF Stays
  <2>3. host'.pc \notin {"step", "exec"}
    BY <1>1, <1>7, <2>1, <2>2, Moves DEF DmaStartPass, DmaPrefetch,
       DmaPrefetchStep, DmaPrefetchEnd, DmaLockHit, DmaFindMisses, DmaLoadMiss,
       DmaLoadsIssued, DmaInfer, DmaResetState, DmaStartWarmup, DmaSeedLayer,
       DmaWarmupStep, DmaWarmupEnd, StartPass
  <2> QED
    BY <1>2, <2>3 DEF Overfull
<1> QED
  BY <1>2, <1>3, <1>5, <1>6, <1>7 DEF HostStep

(* The events tell the truth after every step.                             *)
LEMMA EventsStep ==
  ASSUME EventsInv, [DmaNext]_dmaVars
  PROVE  EventsInv'
<1>1. /\ IInv' /\ DmaTypeOK' /\ IInv /\ DmaTypeOK
      /\ StreamsOf /\ EventsCoverTransfers /\ TargetsAhead /\ OverfullMisses
  BY DmaTypeKeeps DEF EventsInv
<1>2. CASE HostStep
  <2>1. TargetsAhead'
    BY <1>1, <1>2, HostStepsBelow, TargetsStayAhead
  <2>2. OverfullMisses'
    BY <1>2, OverfullStays
  <2>3. StreamsOf' /\ EventsCoverTransfers'
    BY <1>2, DrainedAfter DEF StreamsOf, EventsCoverTransfers, Drained
  <2> QED
    BY <1>1, <2>1, <2>2, <2>3 DEF EventsInv
<1>3. ASSUME NEW st \in Streams, StreamStep(st)
      PROVE  EventsInv'
  <2>1. /\ host' = host /\ pending' = pending
        /\ cache' = cache /\ waiting' = waiting
        /\ queue[st] # << >>
        /\ \A u \in Streams : u # st => queue'[u] = queue[u]
    BY <1>1, <1>3, StreamTyped
  <2>2. \A l \in Layers : Drained(l) => Drained(l)'
    BY <2>1 DEF Streams, Drained
  <2>3. host.layer \in Layers
    BY <1>1 DEF IInv, TypeOK, HostState
  <2>4. StreamsOf' /\ EventsCoverTransfers' /\ TargetsAhead'
    BY <1>1, <2>1, <2>2
    DEF StreamsOf, EventsCoverTransfers, MayRun, Waited, Overfull, TargetsAhead
  <2>5. OverfullMisses'
    BY <1>1, <2>1, <2>2, <2>3 DEF OverfullMisses, Overfull
  <2> QED
    BY <1>1, <2>4, <2>5 DEF EventsInv
<1>4. CASE UNCHANGED dmaVars
  <2>1. /\ host' = host /\ pending' = pending /\ queue' = queue
        /\ cache' = cache /\ waiting' = waiting
    BY <1>4 DEF dmaVars
  <2>2. /\ StreamsOf' /\ EventsCoverTransfers' /\ TargetsAhead'
        /\ OverfullMisses'
    BY <1>1, <2>1 DEF StreamsOf, EventsCoverTransfers, Drained, MayRun, Waited,
       Overfull, TargetsAhead, OverfullMisses
  <2> QED
    BY <1>1, <2>2 DEF EventsInv
<1> QED
  BY <1>2, <1>3, <1>4 DEF DmaNext

(* Nothing is pending at the start.                                        *)
LEMMA EventsInit == DmaInit => EventsInv
<1> SUFFICES ASSUME DmaInit PROVE EventsInv
  OBVIOUS
<1>1. /\ IInv /\ DmaTypeOK
      /\ host.pc = "between"
  BY DmaInitTyped DEF DmaInit, Init, Between
<1>2. \A l \in Layers : queue[l] = << >>
  BY DEF DmaInit, Streams
<1> QED
  BY <1>1, <1>2 DEF EventsInv, StreamsOf, EventsCoverTransfers, Drained,
     TargetsAhead, OverfullMisses, Overfull

(* synchronize_prefetch returns early only when there is nothing left to   *)
(* wait for, whatever resets, warmups and passes have done to the lists of *)
(* events: a prefetch stream without a pending event has drained.          *)
THEOREM EventsAlwaysCover == DmaSpec => []EventsCoverTransfers
<1>1. DmaInit => EventsInv
  BY EventsInit
<1>2. EventsInv /\ [DmaNext]_dmaVars => EventsInv'
  BY EventsStep
<1>3. EventsInv => EventsCoverTransfers
  BY DEF EventsInv
<1> QED
  BY <1>1, <1>2, <1>3, PTL DEF DmaSpec

(***************************************************************************)
(* Weights arrive before they are used                                     *)
(***************************************************************************)

(* A layer that may have a prefetch under way always waits for it if all   *)
(* blocks are Mixtral's, or if whatever is routed there fits: with the     *)
(* hook any number of tokens can follow a prefetch, without it only the    *)
(* TopK experts of a decoded token can.  Otherwise a forward can run on    *)
(* what a prefetch is still writing (see the README).                      *)
EveryForwardWaits ==
  \/ Mixtral = Layers
  \/ IF Hooked THEN NumExperts <= Capacity ELSE TopK <= Capacity

(* The prefetch loop runs while the current stream is empty (the predicted *)
(* experts came back from it), so no computation can be behind its loads.  *)
PrefetchDrained == host.pc = "prefetch" => Drained(Current)

(* The operations of a prefetch stream are for its own layer.              *)
OwnLayer == \A l \in Layers : \A i \in DOMAIN queue[l] : queue[l][i].layer = l

(* When the computation of a layer is enqueued the prefetch stream of the  *)
(* layer is empty, and it stays so until the computation has executed.     *)
ComputesBehind ==
  \A i \in DOMAIN queue[Current] :
    queue[Current][i].op = "compute" => Drained(queue[Current][i].layer)

(* The invariant of the arrivals.                                          *)
ArrivalInv == EventsInv /\ PrefetchDrained /\ OwnLayer /\ ComputesBehind

(* The entries of a tail are entries of the sequence, one place further on.*)
LEMMA TailEntries ==
  ASSUME NEW S, NEW q \in Seq(S), q # << >>
  PROVE  \A i \in DOMAIN Tail(q) : i + 1 \in DOMAIN q /\ Tail(q)[i] = q[i + 1]
OBVIOUS

(* A step of the host starts the prefetch loop on an empty current stream. *)
LEMMA PrefetchStaysDrained ==
  ASSUME IInv, DmaTypeOK, PrefetchDrained, HostStep
  PROVE  PrefetchDrained'
<1>1. /\ host \in HostState
      /\ \A l \in Layers : l \in Streams /\ l # Current
      /\ Current \in Streams /\ host.target \in Layers
  BY CacheAssumption DEF IInv, TypeOK, HostState, Streams, Current, Layers
<1>2. ASSUME NEW P \in Predictions, DmaPrefetch(P)
      PROVE  PrefetchDrained'
  <2>1. queue' = queue /\ Prefetch(P) /\ (P # {} => Drained(Current))
    BY <1>2 DEF DmaPrefetch, Quiet, NoLoad
  <2>2. CASE P = {}
    <3>1. host' = NextTarget
      BY <2>1, <2>2 DEF Prefetch
    <3>2. host'.pc \in {"hook", "forward"}
      BY <1>1, <3>1, NextTargetTyped
    <3> QED
      BY <3>2 DEF PrefetchDrained
  <2> QED
    BY <2>1, <2>2 DEF PrefetchDrained, Drained
<1>3. ASSUME NEW e \in Experts, DmaPrefetchStep(e)
      PROVE  PrefetchDrained'
  <2>1. host.pc = "prefetch"
    BY <1>3 DEF DmaPrefetchStep, PrefetchStep
  <2>2. queue'[Current] = queue[Current]
    <3>1. \E ops : queue' = [queue EXCEPT ![host.target] = ops]
      BY <1>3 DEF DmaPrefetchStep, Load, Enqueue
    <3> QED
      BY <1>1, <3>1 DEF DmaTypeOK
  <2> QED
    BY <2>1, <2>2 DEF PrefetchDrained, Drained
<1>4. CASE host'.pc # "prefetch"
  BY <1>4 DEF PrefetchDrained
<1>5. /\ \A decode \in BOOLEAN : AtLayer(1, decode).pc \in {"hook", "forward"}
      /\ NextTarget.pc \in {"hook", "forward"}
      /\ NextLayer.pc \in {"hook", "forward", "between"}
  BY <1>1, BetweenTyped, NextTargetTyped, NextLayerTyped, CacheAssumption
  DEF Layers
<1>6. \A pc \in {"lock", "load", "infer", "step", "exec"} :
        Stays(pc) => host'.pc # "prefetch"
  BY DEF Stays
<1>7. CASE \/ \E decode \in BOOLEAN : StartPass(decode)
           \/ PrefetchEnd
           \/ \E R \in Routings : Forward(R)
           \/ \E e \in Experts : LockHit(e)
           \/ FindMisses
           \/ \E e \in Experts : LoadMiss(e)
           \/ LoadsIssued \/ Infer
           \/ \E e \in Experts : StepExpert(e)
           \/ ExecExpert \/ ResetState \/ StartWarmup
           \/ \E T \in PrefillTops : SeedLayer(T)
           \/ \E e \in Experts : WarmupStep(e)
           \/ WarmupEnd
  <2>1. host'.pc # "prefetch"
    BY <1>1, <1>5, <1>6, <1>7, Moves DEF StartPass
  <2> QED
    BY <1>4, <2>1
<1> QED
  BY <1>2, <1>3, <1>7 DEF HostStep, DmaStartPass, DmaPrefetchEnd, DmaForward,
     DmaLockHit, DmaFindMisses, DmaLoadMiss, DmaLoadsIssued, DmaInfer,
     DmaStepExpert, DmaExecExpert, DmaResetState, DmaStartWarmup, DmaSeedLayer,
     DmaWarmupStep, DmaWarmupEnd

(* When moe_infer or a single expert runs, the prefetch stream of its      *)
(* layer has drained.                                                      *)
LEMMA RunsDrained ==
  ASSUME EveryForwardWaits, EventsInv, host.pc \in {"infer", "exec"}
  PROVE  Drained(host.layer)
<1>1. /\ host.layer \in Layers /\ host.batch \in SUBSET Experts
      /\ host.decode \in BOOLEAN
      /\ Capacity \in Nat /\ NumExperts \in Nat /\ TopK \in Nat
  BY SlotAssumption, CacheAssumption DEF EventsInv, IInv, TypeOK, HostState
<1>2. Cardinality(host.batch) \in Nat /\ Cardinality(host.batch) <= NumExperts
  <2>1. IsFiniteSet(Experts) /\ Cardinality(Experts) = NumExperts
    BY SlotAssumption, FS_Interval DEF Experts
  <2> QED
    BY <1>1, <2>1, FS_Subset, FS_CardinalityType
<1>3. CASE Overfull
  <2>1. ~ Hooked /\ ~ host.decode
    BY <1>1, <1>2, <1>3
    DEF EveryForwardWaits, Overfull, EventsInv, OverfullMisses
  <2>2. ~ MayRun(host.layer)
    BY <2>1 DEF MayRun
  <2> QED
    BY <1>1, <2>2 DEF EventsInv, StreamsOf
<1>4. CASE ~ Overfull
  <2>1. ~ MayRun(host.layer)
    BY <1>4 DEF MayRun, Waited
  <2> QED
    BY <1>1, <2>1 DEF EventsInv, StreamsOf
<1> QED
  BY <1>3, <1>4

(* A computation enqueued behind a drained prefetch stream stays behind it.*)
LEMMA ArrivalStep ==
  ASSUME EveryForwardWaits, ArrivalInv, [DmaNext]_dmaVars
  PROVE  ArrivalInv'
<1>1. /\ EventsInv /\ IInv /\ DmaTypeOK /\ EventsInv'
      /\ PrefetchDrained /\ OwnLayer /\ ComputesBehind
      /\ queue \in [Streams -> Seq(Operations)]
      /\ queue' \in [Streams -> Seq(Operations)]
  BY EventsStep DEF ArrivalInv, EventsInv, DmaTypeOK
<1>2. /\ \A l \in Layers : l \in Streams /\ l # Current
      /\ Current \in Streams
  BY CacheAssumption DEF Streams, Current, Layers
<1>3. \A i \in DOMAIN queue[Current] : queue[Current][i].layer \in Layers
  <2>1. queue[Current] \in Seq(Operations)
    BY <1>1, <1>2
  <2> QED
    BY <2>1, OperationShape
<1>4. CASE HostStep
  <2>1. PrefetchDrained'
    BY <1>1, <1>4, PrefetchStaysDrained
  <2>2. PICK st \in Streams, ops \in Seq(Operations) : HostOperations(st, ops)
    BY <1>1, <1>4, HostOperates
  <2>3. /\ \A u \in Streams : u # st => queue'[u] = queue[u]
        /\ \A i \in DOMAIN queue'[st] :
             \/ i \in DOMAIN queue[st] /\ queue'[st][i] = queue[st][i]
             \/ \E j \in DOMAIN ops : queue'[st][i] = ops[j]
    BY <1>1, <2>2, EnqueueAppends DEF HostOperations
  <2>4. OwnLayer'
    <3>1. ASSUME NEW l \in Layers, NEW i \in DOMAIN queue'[l]
          PROVE  queue'[l][i].layer = l
      <4>1. CASE l # st
        BY <1>1, <1>2, <2>3, <3>1, <4>1 DEF OwnLayer
      <4>2. CASE l = st
        <5>1. \A j \in DOMAIN ops : ops[j].layer = l
          BY <1>2, <2>2, <4>2 DEF HostOperations
        <5>2. \A j \in DOMAIN queue[l] : queue[l][j].layer = l
          BY <1>1 DEF OwnLayer
        <5>3. \/ i \in DOMAIN queue[l] /\ queue'[l][i] = queue[l][i]
              \/ \E j \in DOMAIN ops : queue'[l][i] = ops[j]
          BY <2>3, <3>1, <4>2
        <5> QED
          BY <5>1, <5>2, <5>3
      <4> QED
        BY <4>1, <4>2
    <3> QED
      BY <3>1 DEF OwnLayer
  <2>5. ComputesBehind'
    <3>1. CASE st = Current
      <4>1. ASSUME NEW i \in DOMAIN queue'[Current],
                   queue'[Current][i].op = "compute"
            PROVE  queue'[queue'[Current][i].layer] = << >>
        <5>1. CASE i \in DOMAIN queue[Current]
                     /\ queue'[Current][i] = queue[Current][i]
          BY <1>1, <1>2, <1>3, <2>3, <3>1, <4>1, <5>1
          DEF ComputesBehind, Drained
        <5>2. CASE \E j \in DOMAIN ops : queue'[Current][i] = ops[j]
          <6>1. /\ host.pc \in {"infer", "exec"}
                /\ queue'[Current][i].layer = host.layer
            BY <2>2, <4>1, <5>2 DEF HostOperations
          <6>2. host.layer \in Layers /\ queue[host.layer] = << >>
            BY <1>1, <6>1, RunsDrained DEF IInv, TypeOK, HostState, Drained
          <6> QED
            BY <1>2, <2>3, <3>1, <6>1, <6>2
        <5> QED
          BY <2>3, <3>1, <4>1, <5>1, <5>2
      <4> QED
        BY <4>1 DEF ComputesBehind, Drained
    <3>2. CASE st # Current
      <4>1. queue'[Current] = << >>
        BY <1>1, <1>2, <2>2, <2>3, <3>2
        DEF HostOperations, PrefetchDrained, Drained
      <4>2. DOMAIN << >> = {}
        OBVIOUS
      <4> QED
        BY <4>1, <4>2 DEF ComputesBehind
    <3> QED
      BY <3>1, <3>2
  <2> QED
    BY <1>1, <2>1, <2>4, <2>5 DEF ArrivalInv
<1>5. ASSUME NEW st \in Streams, StreamStep(st)
      PROVE  ArrivalInv'
  <2>1. /\ queue'[st] = Tail(queue[st]) /\ queue[st] # << >>
        /\ queue[st] \in Seq(Operations)
        /\ \A u \in Streams : u # st => queue'[u] = queue[u]
        /\ host' = host
    BY <1>1, <1>5, StreamTyped
  <2>2. ASSUME NEW u \in Streams, NEW i \in DOMAIN queue'[u]
        PROVE  \E j \in DOMAIN queue[u] : queue'[u][i] = queue[u][j]
    <3>1. CASE u = st
      <4>1. i + 1 \in DOMAIN queue[st] /\ queue'[u][i] = queue[st][i + 1]
        BY <2>1, <2>2, <3>1, TailEntries
      <4> QED
        BY <3>1, <4>1
    <3>2. CASE u # st
      BY <2>1, <2>2, <3>2
    <3> QED
      BY <3>1, <3>2
  <2>3. \A u \in Streams : queue[u] = << >> => queue'[u] = << >>
    BY <2>1
  <2>4. PrefetchDrained'
    BY <1>1, <1>2, <2>1, <2>3 DEF PrefetchDrained, Drained
  <2>5. OwnLayer'
    BY <1>1, <1>2, <2>2 DEF OwnLayer
  <2>6. ComputesBehind'
    BY <1>1, <1>2, <1>3, <2>2, <2>3 DEF ComputesBehind, Drained
  <2> QED
    BY <1>1, <2>4, <2>5, <2>6 DEF ArrivalInv
<1>6. CASE UNCHANGED dmaVars
  <2>1. host' = host /\ queue' = queue
    BY <1>6 DEF dmaVars
  <2> QED
    BY <1>1, <2>1
    DEF ArrivalInv, PrefetchDrained, OwnLayer, ComputesBehind, Drained
<1> QED
  BY <1>4, <1>5, <1>6 DEF DmaNext

(* What synchronize_prefetch and the order of the current stream wait for  *)
(* is enough: when a computation may start, no stream has a transfer into  *)
(* a slot it reads still to execute.                                       *)
THEOREM WeightsAlwaysArrive ==
  ASSUME EveryForwardWaits
  PROVE  DmaSpec => []ArrivedBeforeUse
<1>1. DmaInit => ArrivalInv
  <2> SUFFICES ASSUME DmaInit PROVE ArrivalInv
    OBVIOUS
  <2>1. EventsInv /\ \A st \in Streams : queue[st] = << >>
    BY EventsInit DEF DmaInit
  <2>2. Current \in Streams /\ \A l \in Layers : l \in Streams
    BY DEF Streams
  <2>3. DOMAIN << >> = {}
    OBVIOUS
  <2> QED
    BY <2>1, <2>2, <2>3
    DEF ArrivalInv, PrefetchDrained, OwnLayer, ComputesBehind, Drained
<1>2. ArrivalInv /\ [DmaNext]_dmaVars => ArrivalInv'
  BY ArrivalStep
<1>3. ArrivalInv => ArrivedBeforeUse
  <2> SUFFICES ASSUME ArrivalInv, ~ Drained(Current),
                      Head(queue[Current]).op = "compute",
                      NEW st \in Layers, NEW x,
                      Touches(st, Head(queue[Current]).layer, x)
               PROVE  FALSE
    BY DEF ArrivedBeforeUse
  <2> DEFINE l == Head(queue[Current]).layer
  <2>1. queue[Current] \in Seq(Operations) /\ queue[Current] # << >>
    BY DEF ArrivalInv, EventsInv, DmaTypeOK, Streams, Drained
  <2>2. 1 \in DOMAIN queue[Current] /\ Head(queue[Current]) = queue[Current][1]
    BY <2>1
  <2>3. Drained(l)
    BY <2>2 DEF ArrivalInv, ComputesBehind
  <2>4. PICK i \in DOMAIN queue[st] : queue[st][i].layer = l
    BY DEF Touches
  <2>5. st = l
    BY <2>4 DEF ArrivalInv, OwnLayer
  <2> HIDE DEF l
  <2>6. DOMAIN << >> = {}
    OBVIOUS
  <2> QED
    BY <2>3, <2>4, <2>5, <2>6 DEF Drained
<1> QED
  BY <1>1, <1>2, <1>3, PTL DEF DmaSpec

(***************************************************************************)
(* What the slots will hold                                                *)
(***************************************************************************)

(* A stream whose transfers are whole: a fill is followed by the copy out  *)
(* of its buffer, and a copy follows its fill, unless the fill has just    *)
(* been executed.                                                          *)
Paired(q) ==
  \A i \in DOMAIN q :
    /\ q[i].op = "fill" =>
         /\ i + 1 \in DOMAIN q /\ q[i + 1].op = "copy"
         /\ q[i + 1].buffer = q[i].buffer
         /\ q[i + 1].layer = q[i].layer /\ q[i + 1].slot = q[i].slot
    /\ q[i].op = "copy" /\ i # 1 => q[i - 1].op = "fill"

(* The operations o that write to slot x of layer l, and the expert that   *)
(* the copy at place i brings, with buf in the buffers now.                *)
Writes(o, l, x) == o.op # "compute" /\ o.layer = l /\ o.slot = x
Delivered(buf, q, i) == IF i = 1 THEN buf[q[1].buffer] ELSE q[i - 1].expert

(* With buf in the buffers and hld in the slots, slot x of layer l holds e *)
(* once the first n operations of q have been executed: the last of them   *)
(* to write to it is a copy that brings e, or none does and it is there.   *)
Holds(buf, hld, q, n, l, x, e) ==
  /\ (\A j \in 1..n : ~ Writes(q[j], l, x)) => hld[l][x] = e
  /\ \A j \in 1..n :
       Writes(q[j], l, x) /\ (\A k \in (j + 1)..n : ~ Writes(q[k], l, x))
         => q[j].op = "copy" /\ Delivered(buf, q, j) = e

(* The entries of a concatenation, by place.                               *)
LEMMA ConcatPlaces ==
  ASSUME NEW S, NEW a \in Seq(S), NEW b \in Seq(S)
  PROVE  /\ a \o b \in Seq(S)
         /\ Len(a) \in Nat /\ Len(b) \in Nat /\ Len(a \o b) = Len(a) + Len(b)
         /\ DOMAIN a = 1..Len(a) /\ DOMAIN b = 1..Len(b)
         /\ DOMAIN (a \o b) = 1..(Len(a) + Len(b))
         /\ \A i \in 1..Len(a) : (a \o b)[i] = a[i]
         /\ \A i \in 1..Len(b) : (a \o b)[Len(a) + i] = b[i]
         /\ \A i \in 1..(Len(a) + Len(b)) :
              i \in 1..Len(a) \/ (i - Len(a) \in 1..Len(b) /\ i > Len(a)
                                    /\ (a \o b)[i] = b[i - Len(a)])
<1>1. /\ Len(a) \in Nat /\ Len(b) \in Nat
      /\ DOMAIN a = 1..Len(a) /\ DOMAIN b = 1..Len(b)
  BY LenProperties
<1>2. a \o b \in Seq(S) /\ Len(a \o b) = Len(a) + Len(b)
  BY ConcatProperties
<1>3. DOMAIN (a \o b) = 1..(Len(a) + Len(b))
  BY <1>2, LenProperties
<1>4. \A i \in 1..(Len(a) + Len(b)) :
        (a \o b)[i] = IF i <= Len(a) THEN a[i] ELSE b[i - Len(a)]
  BY ConcatProperties
<1>5. \A i \in 1..Len(a) : i \in 1..(Len(a) + Len(b)) /\ i <= Len(a)
  BY <1>1
<1>6. \A i \in 1..Len(b) : /\ Len(a) + i \in 1..(Len(a) + Len(b))
                           /\ ~ (Len(a) + i <= Len(a))
                           /\ (Len(a) + i) - Len(a) = i
  BY <1>1
<1>7. \A i \in 1..(Len(a) + Len(b)) :
        i \in 1..Len(a) \/ (i - Len(a) \in 1..Len(b) /\ ~ (i <= Len(a)) /\ i > Len(a))
  BY <1>1
<1>8. \A i \in 1..Len(a) : (a \o b)[i] = a[i]
  BY <1>4, <1>5
<1>9. \A i \in 1..Len(b) : (a \o b)[Len(a) + i] = b[i]
  BY <1>4, <1>6
<1>10. \A i \in 1..(Len(a) + Len(b)) :
         i \in 1..Len(a) \/ (i - Len(a) \in 1..Len(b) /\ i > Len(a)
                               /\ (a \o b)[i] = b[i - Len(a)])
  BY <1>4, <1>7
<1> QED
  BY <1>1, <1>2, <1>3, <1>8, <1>9, <1>10

(* Whole transfers are enqueued behind whole transfers.                    *)
LEMMA PairedConcat ==
  ASSUME NEW S, NEW a \in Seq(S), NEW b \in Seq(S),
         Paired(a), Paired(b), b # << >> => b[1].op # "copy"
  PROVE  Paired(a \o b)
<1> DEFINE q == a \o b
           m == Len(a)
           n == Len(b)
<1>1. /\ m \in Nat /\ n \in Nat
      /\ DOMAIN a = 1..m /\ DOMAIN b = 1..n /\ DOMAIN q = 1..(m + n)
      /\ \A i \in 1..m : q[i] = a[i]
      /\ \A i \in 1..n : q[m + i] = b[i]
      /\ \A i \in 1..(m + n) :
           i \in 1..m \/ (i - m \in 1..n /\ i > m /\ q[i] = b[i - m])
  BY ConcatPlaces
<1>2. n # 0 => b # << >>
  OBVIOUS
<1> HIDE DEF q, m, n
<1>3. ASSUME NEW i \in DOMAIN q
      PROVE  /\ q[i].op = "fill" =>
                  /\ i + 1 \in DOMAIN q /\ q[i + 1].op = "copy"
                  /\ q[i + 1].buffer = q[i].buffer
                  /\ q[i + 1].layer = q[i].layer /\ q[i + 1].slot = q[i].slot
             /\ q[i].op = "copy" /\ i # 1 => q[i - 1].op = "fill"
  <2>1. CASE i \in 1..m
    <3>1. q[i] = a[i] /\ i \in DOMAIN a
      BY <1>1, <2>1
    <3>2. a[i].op = "fill" => i + 1 \in 1..m /\ q[i + 1] = a[i + 1]
                              /\ i + 1 \in DOMAIN q
      BY <1>1, <3>1 DEF Paired
    <3>3. i # 1 => i - 1 \in 1..m /\ q[i - 1] = a[i - 1]
      BY <1>1, <2>1
    <3> QED
      BY <3>1, <3>2, <3>3 DEF Paired
  <2>2. CASE ~ (i \in 1..m)
    <3> DEFINE k == i - m
    <3>1. k \in 1..n /\ q[i] = b[k] /\ i = m + k /\ k \in DOMAIN b
      BY <1>1, <1>3, <2>2
    <3> HIDE DEF k
    <3>2. b[k].op = "fill" => /\ k + 1 \in 1..n /\ i + 1 = m + (k + 1)
                              /\ q[i + 1] = b[k + 1] /\ i + 1 \in DOMAIN q
      <4>1. b[k].op = "fill" => k + 1 \in 1..n
        BY <1>1, <3>1 DEF Paired
      <4>2. k + 1 \in 1..n => i + 1 = m + (k + 1) /\ i + 1 \in 1..(m + n)
        BY <1>1, <3>1
      <4> QED
        BY <1>1, <4>1, <4>2
    <3>3. k # 1 => k - 1 \in 1..n /\ q[i - 1] = b[k - 1]
      <4>1. k # 1 => k - 1 \in 1..n /\ i - 1 = m + (k - 1)
        BY <1>1, <3>1
      <4> QED
        BY <1>1, <4>1
    <3>4. k = 1 => b[k].op # "copy"
      BY <1>1, <1>2, <3>1
    <3>5. /\ b[k].op = "fill" =>
               /\ b[k + 1].op = "copy"
               /\ b[k + 1].buffer = b[k].buffer
               /\ b[k + 1].layer = b[k].layer /\ b[k + 1].slot = b[k].slot
          /\ b[k].op = "copy" /\ k # 1 => b[k - 1].op = "fill"
      BY <3>1 DEF Paired
    <3> QED
      BY <3>1, <3>2, <3>3, <3>4, <3>5
  <2> QED
    BY <2>1, <2>2
<1> QED
  BY <1>3 DEF Paired, q

(* What is enqueued behind changes nothing of what holds before it.        *)
LEMMA HoldsBefore ==
  ASSUME NEW S, NEW a \in Seq(S), NEW b \in Seq(S), NEW buf, NEW hld,
         NEW n \in 0..Len(a), NEW l, NEW x, NEW e,
         Holds(buf, hld, a, n, l, x, e)
  PROVE  Holds(buf, hld, a \o b, n, l, x, e)
<1> DEFINE q == a \o b
<1>1. /\ Len(a) \in Nat
      /\ \A i \in 1..Len(a) : q[i] = a[i]
  BY ConcatPlaces
<1> HIDE DEF q
<1>2. /\ \A j \in 1..n : q[j] = a[j] /\ j \in Nat
      /\ \A j \in 1..n : \A k \in (j + 1)..n : q[k] = a[k]
  BY <1>1
<1>3. \A j \in 1..n : Delivered(buf, q, j) = Delivered(buf, a, j)
  <2>1. \A j \in 1..n : 1 \in 1..n /\ (j # 1 => j - 1 \in 1..n)
    OBVIOUS
  <2> QED
    BY <1>2, <2>1 DEF Delivered
<1> QED
  BY <1>2, <1>3 DEF Holds, q

(* A slot nothing new writes to keeps what it will hold.                   *)
LEMMA HoldsUntouched ==
  ASSUME NEW S, NEW a \in Seq(S), NEW b \in Seq(S), NEW buf, NEW hld,
         NEW l, NEW x, NEW e,
         Holds(buf, hld, a, Len(a), l, x, e),
         \A i \in DOMAIN b : ~ Writes(b[i], l, x)
  PROVE  Holds(buf, hld, a \o b, Len(a \o b), l, x, e)
<1> DEFINE q == a \o b
           m == Len(a)
           n == Len(b)
<1>1. /\ m \in Nat /\ n \in Nat /\ Len(q) = m + n
      /\ DOMAIN b = 1..n
      /\ \A i \in 1..(m + n) :
           i \in 1..m \/ (i - m \in 1..n /\ i > m /\ q[i] = b[i - m])
  BY ConcatPlaces
<1>2. Holds(buf, hld, q, m, l, x, e)
  <2>1. m \in 0..Len(a)
    BY <1>1
  <2> QED
    BY <2>1, HoldsBefore
<1> HIDE DEF q, m, n
<1>3. \A i \in 1..(m + n) : i \in 1..m \/ ~ Writes(q[i], l, x)
  BY <1>1
<1>4. \A j \in 1..m : \A k \in (j + 1)..m : k \in (j + 1)..(m + n)
  BY <1>1
<1>5. \A j \in 1..m : j \in 1..(m + n)
  BY <1>1
<1> QED
  BY <1>1, <1>2, <1>3, <1>4, <1>5 DEF Holds, q

(* The slot of a load will hold its expert.                                *)
LEMMA HoldsLoaded ==
  ASSUME NEW S, NEW a \in Seq(S), NEW f \in S, NEW c \in S, NEW buf, NEW hld,
         NEW b, b = <<f, c>>,
         f.op = "fill", c.op = "copy", Writes(c, f.layer, f.slot)
  PROVE  Holds(buf, hld, a \o b, Len(a \o b), f.layer, f.slot, f.expert)
<1> DEFINE q == a \o b
           m == Len(a)
<1>1. b \in Seq(S) /\ Len(b) = 2 /\ b[1] = f /\ b[2] = c
  OBVIOUS
<1>2. /\ m \in Nat /\ Len(q) = m + Len(b)
      /\ \A i \in 1..Len(b) : q[m + i] = b[i]
  <2>1. b \in Seq(S)
    BY <1>1
  <2> QED
    BY ONLY <2>1, a \in Seq(S), ConcatPlaces
<1> HIDE DEF q, m
<1>3. q[m + 1] = f /\ q[m + 2] = c
  BY <1>1, <1>2
<1>4. Writes(q[m + 2], f.layer, f.slot)
  BY <1>3
<1>7. Len(q) = m + 2
  BY <1>1, <1>2
<1>5. ASSUME NEW j \in 1..(m + 2),
             \A k \in (j + 1)..(m + 2) : ~ Writes(q[k], f.layer, f.slot)
      PROVE  q[j].op = "copy" /\ Delivered(buf, q, j) = f.expert
  <2>1. j = m + 2
    BY <1>2, <1>4, <1>5
  <2>2. j # 1 /\ j - 1 = m + 1
    BY <1>2, <2>1
  <2> QED
    BY <1>3, <2>1, <2>2 DEF Delivered
<1>6. m + 2 \in 1..(m + 2)
  BY <1>2
<1> QED
  BY <1>7, <1>2, <1>4, <1>5, <1>6 DEF Holds, q

(* Executing the first operation of a whole stream.                        *)
Executed(o, buf, hld, buf2, hld2) ==
  /\ buf2 = IF o.op = "fill" THEN [buf EXCEPT ![o.buffer] = o.expert] ELSE buf
  /\ hld2 = IF o.op = "compute" THEN hld
            ELSE [hld EXCEPT ![o.layer][o.slot] =
                    IF o.op = "fill" THEN None ELSE buf[o.buffer]]

(* The places of a tail.                                                   *)
LEMMA TailPlaces ==
  ASSUME NEW S, NEW q \in Seq(S), q # << >>
  PROVE  /\ Tail(q) \in Seq(S)
         /\ Len(q) \in Nat \ {0} /\ Len(Tail(q)) = Len(q) - 1
         /\ DOMAIN q = 1..Len(q) /\ DOMAIN Tail(q) = 1..(Len(q) - 1)
         /\ \A i \in 1..(Len(q) - 1) : Tail(q)[i] = q[i + 1]
         /\ Head(q) = q[1]
OBVIOUS

(* What is left of a whole stream is whole.                                *)
LEMMA PairedTail ==
  ASSUME NEW S, NEW q \in Seq(S), q # << >>, Paired(q)
  PROVE  Paired(Tail(q))
<1> DEFINE t == Tail(q)
           n == Len(q)
<1>1. /\ n \in Nat \ {0}
      /\ DOMAIN q = 1..n /\ DOMAIN t = 1..(n - 1)
      /\ \A i \in 1..(n - 1) : t[i] = q[i + 1]
  BY TailPlaces
<1> HIDE DEF t, n
<1>2. ASSUME NEW i \in DOMAIN t
      PROVE  /\ t[i].op = "fill" =>
                  /\ i + 1 \in DOMAIN t /\ t[i + 1].op = "copy"
                  /\ t[i + 1].buffer = t[i].buffer
                  /\ t[i + 1].layer = t[i].layer /\ t[i + 1].slot = t[i].slot
             /\ t[i].op = "copy" /\ i # 1 => t[i - 1].op = "fill"
  <2> DEFINE k == i + 1
  <2>1. /\ k \in DOMAIN q /\ t[i] = q[k] /\ k # 1
        /\ k + 1 \in DOMAIN q => i + 1 \in DOMAIN t /\ t[i + 1] = q[k + 1]
        /\ i # 1 => t[i - 1] = q[k - 1]
    <3>1. k \in 1..n /\ t[i] = q[k] /\ k # 1 /\ k = i + 1
      BY <1>1, <1>2
    <3>2. k + 1 \in 1..n => i + 1 \in 1..(n - 1)
      BY <1>1, <1>2
    <3>3. i # 1 => i - 1 \in 1..(n - 1) /\ (i - 1) + 1 = k - 1
      BY <1>1, <1>2
    <3> HIDE DEF k
    <3> QED
      BY <1>1, <3>1, <3>2, <3>3
  <2> HIDE DEF k
  <2>2. /\ q[k].op = "fill" =>
             /\ k + 1 \in DOMAIN q /\ q[k + 1].op = "copy"
             /\ q[k + 1].buffer = q[k].buffer
             /\ q[k + 1].layer = q[k].layer /\ q[k + 1].slot = q[k].slot
        /\ q[k].op = "copy" /\ k # 1 => q[k - 1].op = "fill"
    BY <2>1 DEF Paired
  <2> QED
    BY <2>1, <2>2
<1> QED
  BY <1>2 DEF Paired, t

(* Executing the first operation is what was foreseen: the slots will hold *)
(* the same in the end.                                                    *)
LEMMA HoldsExecuted ==
  ASSUME NEW q \in Seq(Operations), q # << >>, Paired(q),
         NEW buf \in [Buffers -> Experts \cup {None}],
         NEW hld \in [Layers -> [Slots -> Experts \cup {None}]],
         NEW buf2, NEW hld2, Executed(Head(q), buf, hld, buf2, hld2),
         NEW n \in 1..Len(q), NEW l \in Layers, NEW x \in Slots, NEW e,
         Holds(buf, hld, q, n, l, x, e)
  PROVE  Holds(buf2, hld2, Tail(q), n - 1, l, x, e)
<1> DEFINE t == Tail(q)
           o == q[1]
<1>1. /\ Len(q) \in Nat \ {0}
      /\ DOMAIN q = 1..Len(q)
      /\ \A i \in 1..(Len(q) - 1) : t[i] = q[i + 1]
      /\ Head(q) = o /\ o \in Operations
  BY TailPlaces, ElementOfSeq
<1>2. /\ o.op \in {"fill", "copy", "compute"} /\ o.layer \in Layers
      /\ o.op \in {"fill", "copy"} => o.buffer \in Buffers /\ o.slot \in Slots
  BY <1>1, OperationShape
<1>3. /\ buf2 = IF o.op = "fill" THEN [buf EXCEPT ![o.buffer] = o.expert] ELSE buf
      /\ hld2 = IF o.op = "compute" THEN hld
                ELSE [hld EXCEPT ![o.layer][o.slot] =
                        IF o.op = "fill" THEN None ELSE buf[o.buffer]]
  BY <1>1 DEF Executed
<1> HIDE DEF t
<1>4. \A j \in 1..(n - 1) : t[j] = q[j + 1] /\ j + 1 \in 1..n /\ j + 1 \in 2..n
  BY <1>1
<1>5. ASSUME \A j \in 1..(n - 1) : ~ Writes(t[j], l, x)
      PROVE  hld2[l][x] = e
  <2>1. \A j \in 2..n : ~ Writes(q[j], l, x)
    <3>1. \A j \in 2..n : j - 1 \in 1..(n - 1) /\ t[j - 1] = q[j]
      <4>1. \A j \in 2..n : j - 1 \in 1..(n - 1) /\ (j - 1) + 1 = j
        OBVIOUS
      <4> QED
        BY <1>4, <4>1
    <3> QED
      BY <1>5, <3>1
  <2>2. CASE Writes(o, l, x)
    <3>1. 1 \in 1..n /\ \A k \in (1 + 1)..n : k \in 2..n
      OBVIOUS
    <3>2. o.op = "copy" /\ Delivered(buf, q, 1) = e
      BY <2>1, <2>2, <3>1 DEF Holds
    <3>3. buf[o.buffer] = e
      BY <3>2 DEF Delivered
    <3>4. hld2 = [hld EXCEPT ![l][x] = e]
      BY <1>3, <2>2, <3>2, <3>3 DEF Writes
    <3> QED
      BY <3>4
  <2>3. CASE ~ Writes(o, l, x)
    <3>1. \A j \in 1..n : j = 1 \/ j \in 2..n
      OBVIOUS
    <3>2. hld[l][x] = e
      BY <2>1, <2>3, <3>1 DEF Holds
    <3>3. o.op = "compute" \/ o.layer # l \/ o.slot # x
      BY <2>3 DEF Writes
    <3>4. hld2[l][x] = hld[l][x]
      BY <1>2, <1>3, <3>3
    <3> QED
      BY <3>2, <3>4
  <2> QED
    BY <2>2, <2>3
<1>6. ASSUME NEW j \in 1..(n - 1), Writes(t[j], l, x),
             \A k \in (j + 1)..(n - 1) : ~ Writes(t[k], l, x)
      PROVE  t[j].op = "copy" /\ Delivered(buf2, t, j) = e
  <2> DEFINE i == j + 1
  <2>1. i \in 1..n /\ i # 1 /\ i - 1 = j /\ t[j] = q[i] /\ i \in DOMAIN q
    BY <1>1, <1>4
  <2>2. ASSUME NEW k \in (i + 1)..n
        PROVE  ~ Writes(q[k], l, x)
    <3>1. k - 1 \in (j + 1)..(n - 1) /\ k - 1 \in 1..(n - 1) /\ (k - 1) + 1 = k
      BY <1>1
    <3>2. t[k - 1] = q[k]
      BY <1>4, <3>1
    <3> QED
      BY <1>6, <3>1, <3>2
  <2> HIDE DEF i
  <2>3. q[i].op = "copy" /\ Delivered(buf, q, i) = e
    BY <1>6, <2>1, <2>2 DEF Holds
  <2>4. q[j].expert = e /\ q[j].op = "fill"
    BY <2>1, <2>3 DEF Delivered, Paired
  <2>5. CASE j = 1
    <3>1. q[i].buffer = o.buffer
      <4>1. j + 1 = i /\ j \in DOMAIN q
        BY <1>1, <2>1, <2>5
      <4> QED
        BY <2>4, <2>5, <4>1 DEF Paired
    <3>2. buf2[o.buffer] = e
      BY <1>2, <1>3, <2>4, <2>5
    <3> QED
      BY <2>1, <2>3, <2>5, <3>1, <3>2 DEF Delivered
  <2>6. CASE j # 1
    <3>1. j - 1 \in 1..(n - 1) /\ (j - 1) + 1 = j
      BY <2>6
    <3>2. t[j - 1] = q[j]
      BY <1>4, <3>1
    <3> QED
      BY <2>1, <2>3, <2>4, <2>6, <3>2 DEF Delivered
  <2> QED
    BY <2>5, <2>6
<1> QED
  BY <1>5, <1>6 DEF Holds, t

(* A load makes its slot the expert's and leaves the other slots alone.    *)
LEMMA LoadedSlots ==
  ASSUME NEW c \in SlotTable, Consistent(c), NEW e \in Experts, NEW locked,
         NEW d, d = Loaded(c, e, locked)
  PROVE  d.slot_to_expert = [c.slot_to_expert EXCEPT ![d.expert_to_slot[e]] = e]
<1> DEFINE s0 == c.expert_to_slot[e]
<1>1. c.slot_to_expert \in [Slots -> Experts \cup {None}] /\ s0 \in Slots \cup {None}
  BY DEF SlotTable
<1>2. CASE s0 # None
  <2>1. c.slot_to_expert[s0] = e
    BY <1>2 DEF Consistent
  <2>2. s0 \in Occupied(c)
    BY <1>1, <1>2, <2>1, NoneIsNoSlot DEF Occupied
  <2>3. d = Touched(c, s0)
    BY <1>2 DEF Loaded
  <2>4. d.expert_to_slot[e] = s0 /\ d.slot_to_expert = c.slot_to_expert
    BY <2>2, <2>3, TouchedKeeps DEF Touched, SlotTable
  <2> HIDE DEF s0
  <2> QED
    BY <1>1, <2>1, <2>4
<1>3. CASE s0 = None
  <2>1. \E x, free, lru : d = Bound(c, e, x, free, lru)
    BY <1>3 DEF Loaded
  <2>2. PICK x, free, lru : d = Bound(c, e, x, free, lru)
    BY <2>1
  <2>3. d.slot_to_expert = [c.slot_to_expert EXCEPT ![x] = e]
    BY <2>2 DEF Bound
  <2>4. d.expert_to_slot[e] = x
    BY <2>2 DEF Bound
  <2> QED
    BY <2>3, <2>4
<1> QED
  BY <1>2, <1>3

(* A hit moves a slot to the end of the order and binds nothing.           *)
LEMMA HitSlots ==
  ASSUME NEW c \in SlotTable, Consistent(c), NEW e \in Resident(c), NEW locked
  PROVE  Loaded(c, e, locked).slot_to_expert = c.slot_to_expert
<1>1. Loaded(c, e, locked) = Touched(c, c.expert_to_slot[e])
  BY DEF Loaded, Resident
<1> QED
  BY <1>1 DEF Touched, SlotTable

(* In column mode a step of the host enqueues nothing and rebinds no slot, *)
(* or it is a load, or the running of experts, or a reset.                 *)
TableIdle ==
  /\ queue' = queue
  /\ \A l \in Layers : cache'[l].slot_to_expert = cache[l].slot_to_expert
TableLoad(st, l, e, locked) ==
  /\ cache' = [cache EXCEPT ![l] = Loaded(cache[l], e, locked)]
  /\ LET x == cache'[l].expert_to_slot[e]
     IN  Enqueue(st, <<Fill(x, l, x, e), Copy(x, l, x)>>)
  /\ \/ st = Current /\ host.pc \in {"load", "step", "warm"}
     \/ st = host.target /\ host.pc = "prefetch"

(* Every step of the host does one of these.                               *)
LEMMA HostTables ==
  ASSUME IInv, DmaTypeOK, Columns, HostStep
  PROVE  \/ TableIdle
         \/ \E st \in Streams, l \in Layers, e \in Experts : \E locked :
              TableLoad(st, l, e, locked)
         \/ \E E \in SUBSET Resident(cache[host.layer]) :
              Run(E) /\ cache' = cache /\ host.pc \in {"infer", "exec"}
         \/ DmaResetState
<1>1. /\ cache \in [Layers -> SlotTable] /\ TablesConsistent
      /\ host.layer \in Layers /\ host.target \in Layers
      /\ Current \in Streams /\ \A l \in Layers : l \in Streams
  BY DEF IInv, TypeOK, HostState, Streams
<1>2. ASSUME NEW st \in Streams, NEW class, NEW l \in Layers,
             NEW e \in Experts, NEW locked, NEW blocking,
             cache' = [cache EXCEPT ![l] = Loaded(cache[l], e, locked)],
             Load(st, class, l, cache'[l].expert_to_slot[e], e, blocking),
             \/ st = Current /\ host.pc \in {"load", "step", "warm"}
             \/ st = host.target /\ host.pc = "prefetch"
      PROVE  TableLoad(st, l, e, locked)
  BY <1>2 DEF Load, Transfer, BufferOf, TableLoad
<1>3. ASSUME NEW l \in Layers, NEW e \in Resident(cache[l]),
             cache' = [cache EXCEPT ![l] = Loaded(cache[l], e, {})],
             queue' = queue
      PROVE  TableIdle
  <2>1. cache[l] \in SlotTable /\ Consistent(cache[l])
    BY <1>1 DEF TablesConsistent
  <2>2. Loaded(cache[l], e, {}).slot_to_expert = cache[l].slot_to_expert
    BY <2>1, HitSlots
  <2> QED
    BY <1>1, <1>3, <2>2 DEF TableIdle
<1>4. CASE queue' = queue /\ cache' = cache
  BY <1>4 DEF TableIdle
<1>5. ASSUME NEW e \in Experts, DmaPrefetchStep(e)
      PROVE  \E st \in Streams, l \in Layers, x \in Experts : \E locked :
               TableLoad(st, l, x, locked)
  <2>1. /\ cache' = [cache EXCEPT ![host.target] = Loaded(cache[host.target], e, {})]
        /\ host.pc = "prefetch"
        /\ Load(host.target, Speculative, host.target,
                cache'[host.target].expert_to_slot[e], e, FALSE)
    BY <1>5 DEF DmaPrefetchStep, PrefetchStep
  <2>2. TableLoad(host.target, host.target, e, {})
    BY <1>1, <1>2, <1>5, <2>1
  <2> QED
    BY <1>1, <1>5, <2>2
<1>6. ASSUME NEW e \in Experts, DmaLoadMiss(e)
      PROVE  \E st \in Streams, l \in Layers, x \in Experts : \E locked :
               TableLoad(st, l, x, locked)
  <2>1. /\ cache' = [cache EXCEPT ![host.layer]
                        = Loaded(cache[host.layer], e, host.locked)]
        /\ host.pc = "load"
        /\ Load(Current, Demand, host.layer,
                cache'[host.layer].expert_to_slot[e], e, FALSE)
    BY <1>6 DEF DmaLoadMiss, LoadMiss
  <2>2. TableLoad(Current, host.layer, e, host.locked)
    BY <1>1, <1>2, <1>6, <2>1
  <2> QED
    BY <1>1, <1>6, <2>2
<1>7. ASSUME NEW e \in Experts, DmaStepExpert(e)
      PROVE  TableIdle \/ \E st \in Streams, l \in Layers, x \in Experts : \E locked :
                            TableLoad(st, l, x, locked)
  <2>1. /\ cache' = [cache EXCEPT ![host.layer] = Loaded(cache[host.layer], e, {})]
        /\ host.pc = "step"
    BY <1>7 DEF DmaStepExpert, StepExpert
  <2>2. CASE e \in Resident(cache[host.layer])
    <3>1. queue' = queue
      BY <1>7, <2>2 DEF DmaStepExpert, NoLoad
    <3> QED
      BY <1>1, <1>3, <2>1, <2>2, <3>1
  <2>3. CASE e \notin Resident(cache[host.layer])
    <3>1. Load(Current, Demand, host.layer,
               cache'[host.layer].expert_to_slot[e], e, TRUE)
      BY <1>7, <2>3 DEF DmaStepExpert
    <3>2. TableLoad(Current, host.layer, e, {})
      BY <1>1, <1>2, <1>7, <2>1, <3>1
    <3> QED
      BY <1>1, <1>7, <3>2
  <2> QED
    BY <2>2, <2>3
<1>8. ASSUME NEW e \in Experts, DmaWarmupStep(e)
      PROVE  TableIdle \/ \E st \in Streams, l \in Layers, x \in Experts : \E locked :
                            TableLoad(st, l, x, locked)
  <2>1. /\ cache' = [cache EXCEPT ![host.target] = Loaded(cache[host.target], e, {})]
        /\ host.pc = "warm"
    BY <1>8 DEF DmaWarmupStep, WarmupStep
  <2>2. CASE e \in Resident(cache[host.target])
    <3>1. queue' = queue
      BY <1>8, <2>2 DEF DmaWarmupStep, NoLoad
    <3> QED
      BY <1>1, <1>3, <2>1, <2>2, <3>1
  <2>3. CASE e \notin Resident(cache[host.target])
    <3>1. Load(Current, Demand, host.target,
               cache'[host.target].expert_to_slot[e], e, TRUE)
      BY <1>8, <2>3 DEF DmaWarmupStep
    <3>2. TableLoad(Current, host.target, e, {})
      BY <1>1, <1>2, <1>8, <2>1, <3>1
    <3> QED
      BY <1>1, <1>8, <3>2
  <2> QED
    BY <2>2, <2>3
<1>9. ASSUME NEW e \in Experts, DmaLockHit(e)
      PROVE  TableIdle
  <2> DEFINE c == cache[host.layer]
  <2>1. queue' = queue /\ LockHit(e)
    BY <1>9 DEF DmaLockHit, Quiet, NoLoad
  <2>2. CASE c.expert_to_slot[e] # None
    <3>1. cache' = [cache EXCEPT ![host.layer] = Touched(c, c.expert_to_slot[e])]
      BY <2>1, <2>2 DEF LockHit
    <3>2. c \in SlotTable
      BY <1>1
    <3>3. Touched(c, c.expert_to_slot[e]).slot_to_expert = c.slot_to_expert
      BY <3>2 DEF Touched, SlotTable
    <3> QED
      BY <1>1, <2>1, <3>1, <3>3 DEF TableIdle
  <2>3. CASE c.expert_to_slot[e] = None
    BY <1>4, <2>1, <2>3 DEF LockHit, TableIdle
  <2> QED
    BY <2>2, <2>3
<1>10. CASE DmaInfer
  <2>1. host.pc = "infer" /\ Run(host.batch) /\ cache' = cache
    BY <1>10 DEF DmaInfer, Infer
  <2>2. host.batch \in SUBSET Resident(cache[host.layer])
    BY <2>1 DEF IInv, RoutedResident
  <2> QED
    BY <2>1, <2>2
<1>11. CASE DmaExecExpert
  <2>1. host.pc = "exec" /\ Run({host.expert}) /\ cache' = cache
    BY <1>11 DEF DmaExecExpert, ExecExpert
  <2>2. {host.expert} \in SUBSET Resident(cache[host.layer])
    BY <2>1 DEF IInv, RoutedResident
  <2> QED
    BY <2>1, <2>2
<1>12. CASE \/ \E decode \in BOOLEAN : DmaStartPass(decode)
            \/ \E P \in Predictions : DmaPrefetch(P)
            \/ DmaPrefetchEnd
            \/ \E R \in Routings : DmaForward(R)
            \/ DmaFindMisses \/ DmaLoadsIssued \/ DmaStartWarmup
            \/ \E T \in PrefillTops : DmaSeedLayer(T)
            \/ DmaWarmupEnd
  <2>1. queue' = queue /\ cache' = cache
    BY <1>12 DEF DmaStartPass, DmaPrefetch, DmaPrefetchEnd, DmaForward,
       DmaFindMisses, DmaLoadsIssued, DmaStartWarmup, DmaSeedLayer,
       DmaWarmupEnd, Quiet, NoLoad, StartPass, Prefetch, PrefetchEnd, Forward,
       FindMisses, LoadsIssued, StartWarmup, SeedLayer, WarmupEnd
  <2> QED
    BY <1>4, <2>1
<1> QED
  BY <1>5, <1>6, <1>7, <1>8, <1>9, <1>10, <1>11, <1>12 DEF HostStep

(* The warmup of a reset is made of whole transfers, each of expert x into *)
(* slot x, and it has one for every slot that the fresh table fills.       *)
FreshLoads(q) ==
  /\ Paired(q)
  /\ q # << >> => q[1].op # "copy"
  /\ \A i \in DOMAIN q :
       q[i].op # "compute" /\ (q[i].op = "fill" => q[i].expert = q[i].slot)

(* The warmup is one.                                                      *)
LEMMA WarmupFresh ==
  ASSUME Columns
  PROVE  LET ops == FlattenSeq([l \in Layers |-> WarmupLoads(l)])
         IN  /\ FreshLoads(ops)
             /\ \A l \in Layers, x \in Slots :
                  FreshTable.slot_to_expert[x] # None =>
                    /\ FreshTable.slot_to_expert[x] = x
                    /\ \E j \in DOMAIN ops : Writes(ops[j], l, x)
<1> DEFINE ops == FlattenSeq([l \in Layers |-> WarmupLoads(l)])
           F == {q \in Seq(Operations) : FreshLoads(q)}
           two(l, x) == <<Fill(x, l, x, x), Copy(x, l, x)>>
<1> SUFFICES /\ FreshLoads(ops)
             /\ \A l \in Layers, x \in Slots :
                  FreshTable.slot_to_expert[x] # None =>
                    /\ FreshTable.slot_to_expert[x] = x
                    /\ \E j \in DOMAIN ops : Writes(ops[j], l, x)
  OBVIOUS
<1>1. \A l, x : Transfer(Demand, l, x, x, TRUE) = two(l, x)
  BY DEF Transfer, BufferOf
<1>2. ASSUME NEW l \in Layers, NEW x \in Experts \cap Slots
      PROVE  two(l, x) \in F /\ Writes(two(l, x)[1], l, x)
  <2> DEFINE f == Fill(x, l, x, x)
             c == Copy(x, l, x)
  <2>1. f \in Operations /\ c \in Operations
    BY DEF Operations, Buffers
  <2>2. /\ f.op = "fill" /\ f.buffer = x /\ f.layer = l /\ f.slot = x /\ f.expert = x
        /\ c.op = "copy" /\ c.buffer = x /\ c.layer = l /\ c.slot = x
    BY DEF Fill, Copy
  <2> DEFINE t == <<f, c>>
  <2> HIDE DEF f, c
  <2>3. /\ t \in Seq(Operations) /\ DOMAIN t = 1..2
        /\ t[1] = f /\ t[2] = c /\ t # << >>
    BY <2>1
  <2> HIDE DEF t
  <2>4. FreshLoads(t)
    BY <2>2, <2>3 DEF FreshLoads, Paired
  <2>5. Writes(t[1], l, x)
    BY <2>2, <2>3 DEF Writes
  <2> QED
    BY <2>3, <2>4, <2>5 DEF t, f, c
<1>3. << >> \in F
  <2>1. DOMAIN << >> = {} /\ << >> \in Seq(Operations)
    OBVIOUS
  <2> QED
    BY <2>1 DEF FreshLoads, Paired
<1>4. ASSUME NEW a \in F, NEW b \in F PROVE a \o b \in F
  <2> DEFINE q == a \o b
  <2>1. a \in Seq(Operations) /\ b \in Seq(Operations)
    OBVIOUS
  <2>2. Paired(q)
    BY <2>1, PairedConcat DEF FreshLoads
  <2>3. /\ q \in Seq(Operations)
        /\ Len(a) \in Nat /\ DOMAIN a = 1..Len(a) /\ DOMAIN b = 1..Len(b)
        /\ DOMAIN q = 1..(Len(a) + Len(b)) /\ Len(b) \in Nat
        /\ \A i \in 1..Len(a) : q[i] = a[i]
        /\ \A i \in 1..(Len(a) + Len(b)) :
             i \in 1..Len(a) \/ (i - Len(a) \in 1..Len(b) /\ i > Len(a)
                                   /\ q[i] = b[i - Len(a)])
    BY <2>1, ConcatPlaces
  <2> HIDE DEF q
  <2>4. \A i \in DOMAIN q :
          q[i].op # "compute" /\ (q[i].op = "fill" => q[i].expert = q[i].slot)
    <3>1. \A i \in DOMAIN q : \/ \E j \in DOMAIN a : q[i] = a[j]
                              \/ \E j \in DOMAIN b : q[i] = b[j]
      BY <2>3
    <3> QED
      BY <1>4, <3>1 DEF FreshLoads
  <2>5. q # << >> => q[1].op # "copy"
    <3> SUFFICES ASSUME q # << >> PROVE q[1].op # "copy"
      OBVIOUS
    <3>1. 1 \in DOMAIN q
      BY <2>3
    <3>2. CASE 1 \in 1..Len(a)
      <4>1. a # << >> /\ q[1] = a[1]
        BY <2>1, <2>3, <3>2
      <4> QED
        BY <1>4, <4>1 DEF FreshLoads
    <3>3. CASE 1 \notin 1..Len(a)
      <4>1. Len(a) = 0 /\ 1 - Len(a) = 1
        BY <2>3, <3>3
      <4>2. q[1] = b[1] /\ 1 \in 1..Len(b)
        BY <2>3, <3>1, <3>3, <4>1
      <4>3. b # << >>
        BY <2>1, <4>2
      <4> QED
        BY <1>4, <4>2, <4>3 DEF FreshLoads
    <3> QED
      BY <3>2, <3>3
  <2>6. FreshLoads(q)
    BY <2>2, <2>4, <2>5 DEF FreshLoads
  <2> QED
    BY <2>3, <2>6 DEF q
<1> HIDE DEF two
<1>5. ops \in F
  <2>1. F \in SUBSET Seq(Operations)
    OBVIOUS
  <2> HIDE DEF F
  <2>2. \A l \in Layers, x \in Experts \cap Slots :
          Transfer(Demand, l, x, x, TRUE) \in F
    BY <1>1, <1>2
  <2>3. \A a, b \in F : a \o b \in F
    BY <1>4
  <2> QED
    BY <1>3, <2>1, <2>2, <2>3, WarmupIn
<1>6. ASSUME NEW l \in Layers, NEW x \in Slots,
             FreshTable.slot_to_expert[x] # None
      PROVE  /\ FreshTable.slot_to_expert[x] = x
             /\ \E j \in DOMAIN ops : Writes(ops[j], l, x)
  <2> DEFINE w == Smaller(WarmupSlots, Smaller(Capacity, NumExperts))
             seqs == [y \in DOMAIN FreshTable.slot_lru
                        |-> Transfer(Demand, l, y, y, TRUE)]
             all == [k \in Layers |-> WarmupLoads(k)]
  <2>1. w \in Nat /\ w <= Capacity /\ w <= NumExperts
    BY SlotAssumption, CacheAssumption DEF Smaller
  <2>2. /\ DOMAIN FreshTable.slot_lru = 1..w
        /\ FreshTable.slot_to_expert[x] = IF x <= w THEN x ELSE None
    BY DEF FreshTable, WarmTable
  <2> HIDE DEF w
  <2>3. x \in 1..w /\ FreshTable.slot_to_expert[x] = x
    BY <1>6, <2>1, <2>2 DEF Slots
  <2>4. \A y \in 1..w : y \in Experts \cap Slots
    BY <2>1, SlotAssumption DEF Slots, Experts
  <2>5. \A k \in Layers : WarmupLoads(k) \in Seq(Operations)
    <3>1. F \in SUBSET Seq(Operations)
      OBVIOUS
    <3>2. \A a, b \in F : a \o b \in F
      BY <1>4
    <3> HIDE DEF F
    <3>3. \A k \in Layers, y \in Experts \cap Slots :
            Transfer(Demand, k, y, y, TRUE) \in F
      BY <1>1, <1>2
    <3>4. \A k \in Layers : WarmupLoads(k) \in F
      BY <1>3, <3>1, <3>2, <3>3, OneWarmupIn
    <3> QED
      BY <3>1, <3>4
  <2>6. all \in Seq(Seq(Operations)) /\ Len(all) = NumLayers
    <3>1. all \in [1..NumLayers -> Seq(Operations)] /\ NumLayers \in Nat
      BY <2>5, CacheAssumption DEF Layers
    <3> HIDE DEF all
    <3> QED
      BY <3>1, SeqDef
  <2>7. \A y \in 1..w : two(l, y) \in Seq(Operations)
    BY <1>2, <2>4
  <2>8. seqs = [y \in 1..w |-> two(l, y)]
    BY <1>1, <2>2
  <2> HIDE DEF seqs
  <2>9. seqs \in Seq(Seq(Operations)) /\ x \in 1..Len(seqs) /\ seqs[x] = two(l, x)
    <3>1. seqs \in [1..w -> Seq(Operations)]
      BY <2>7, <2>8
    <3>2. seqs \in Seq(Seq(Operations)) /\ Len(seqs) = w
      BY <2>1, <3>1, SeqDef
    <3> QED
      BY <2>3, <2>8, <3>2
  <2>10. ToSet(seqs[x]) \subseteq ToSet(WarmupLoads(l))
    <3>1. ToSet(seqs[x]) \subseteq ToSet(FlattenSeq(seqs))
      BY <2>9, FlattenCovers
    <3> QED
      BY <3>1 DEF WarmupLoads, seqs
  <2>11. ToSet(WarmupLoads(l)) \subseteq ToSet(ops)
    <3>1. l \in 1..Len(all) /\ all[l] = WarmupLoads(l)
      BY <2>6 DEF Layers
    <3>2. ops = FlattenSeq(all)
      OBVIOUS
    <3> HIDE DEF all, ops
    <3> QED
      BY <2>6, <3>1, <3>2, FlattenCovers
  <2>12. two(l, x)[1] \in ToSet(two(l, x))
    BY DEF two, ToSet
  <2>13. two(l, x)[1] \in ToSet(ops)
    BY <2>9, <2>10, <2>11, <2>12
  <2>14. Writes(two(l, x)[1], l, x)
    BY <1>2, <2>3, <2>4
  <2> HIDE DEF ops
  <2>15. \E j \in DOMAIN ops : Writes(ops[j], l, x)
    BY <2>13, <2>14 DEF ToSet
  <2> QED
    BY <2>3, <2>15
<1>7. FreshLoads(ops)
  BY <1>5
<1> HIDE DEF ops
<1> QED
  BY <1>6, <1>7

(***************************************************************************)
(* The transfers are lossless                                              *)
(***************************************************************************)

(* The receive buffer of a slot is shared by the streams, so a load is     *)
(* safe when the streams work in turn.  They do when nothing is prefetched *)
(* or when a prefetch is for the layer that runs next (no hook ahead of    *)
(* the others) and the forward of that layer waits for it.                 *)
TransfersInTurn ==
  /\ Columns
  /\ Lookahead => ~ Hooked /\ (Mixtral = Layers \/ TopK <= Capacity)

(* With lookahead disabled nothing is ever prefetched.                     *)
Unhooked ==
  ~ Lookahead => /\ host.pc \notin {"hook", "prefetch"}
                 /\ \A l \in Layers : Drained(l)

(* A prefetch stream works while the current stream has nothing to do.     *)
InTurn == \A l \in Layers : ~ Drained(l) => Drained(Current)

(* What a stream has is whole transfers, but for the copy of one whose     *)
(* fill has run.                                                           *)
WholeTransfers == \A st \in Streams : Paired(queue[st])

(* Wherever a computation stands in its stream, what is ahead of it brings *)
(* the weights it reads.                                                   *)
ComputesRead ==
  \A st \in Streams : \A i \in DOMAIN queue[st] :
    queue[st][i].op = "compute" =>
      \A use \in queue[st][i].uses :
        Holds(buffer, held, queue[st], i - 1, queue[st][i].layer, use[2], use[1])

(* When the one stream that works has executed all it was given, the slots *)
(* hold what the tables say.                                               *)
Only(st) == \A u \in Streams : u # st => Drained(u)
TablesHeld ==
  \A st \in Streams : Only(st) =>
    \A l \in Layers, x \in Slots :
      cache[l].slot_to_expert[x] # None =>
        Holds(buffer, held, queue[st], Len(queue[st]), l, x,
              cache[l].slot_to_expert[x])

(* The invariant of the transfers.                                         *)
LosslessInv ==
  /\ EventsInv /\ PrefetchDrained /\ Unhooked /\ InTurn
  /\ WholeTransfers /\ ComputesRead /\ TablesHeld

(* A prefetch stream works for the layer in front of which the host is.    *)
LEMMA BusyLayer ==
  ASSUME TransfersInTurn, EventsInv, Unhooked, NEW l \in Layers, ~ Drained(l)
  PROVE  l = host.layer /\ host.pc \in {"prefetch", "forward"}
<1>1. Lookahead /\ ~ Hooked
  BY DEF Unhooked, TransfersInTurn
<1>2. MayRun(l)
  BY DEF EventsInv, StreamsOf
<1>3. /\ l = host.layer /\ host.decode
      /\ host.pc \in {"prefetch", "forward"} \/ Overfull
  BY <1>1, <1>2 DEF MayRun
<1>4. ~ Overfull
  <2> SUFFICES ASSUME Overfull PROVE FALSE
    OBVIOUS
  <2>1. ~ (TopK <= Capacity)
    BY <1>3 DEF EventsInv, OverfullMisses
  <2>2. host.layer \in Layers /\ host.layer \notin Mixtral
    BY <1>3 DEF Overfull
  <2> QED
    BY <1>1, <2>1, <2>2 DEF TransfersInTurn
<1> QED
  BY <1>3, <1>4

(* So no two streams have work at the same time.                           *)
LEMMA OneBusy ==
  ASSUME TransfersInTurn, EventsInv, Unhooked, InTurn,
         NEW u \in Streams, ~ Drained(u)
  PROVE  Only(u)
<1> SUFFICES ASSUME NEW v \in Streams, v # u, ~ Drained(v) PROVE FALSE
  BY DEF Only
<1>1. CASE u = Current
  <2>1. v \in Layers
    BY <1>1 DEF Streams
  <2> QED
    BY <1>1, <2>1 DEF InTurn
<1>2. CASE v = Current
  <2>1. u \in Layers
    BY <1>2 DEF Streams
  <2> QED
    BY <1>2, <2>1 DEF InTurn
<1>3. CASE u \in Layers /\ v \in Layers
  BY <1>3, BusyLayer
<1> QED
  BY <1>1, <1>2, <1>3 DEF Streams

(* The stream that is given something is the only one with work.           *)
LEMMA OnlyCurrent ==
  ASSUME TransfersInTurn, EventsInv, Unhooked,
         host.pc \notin {"prefetch", "forward"}
  PROVE  Only(Current)
<1>1. \A l \in Layers : Drained(l)
  BY BusyLayer
<1> QED
  BY <1>1 DEF Only, Streams

(* While a prefetch is issued no other stream than its own works.          *)
LEMMA OnlyTarget ==
  ASSUME TransfersInTurn, EventsInv, Unhooked, PrefetchDrained,
         host.pc = "prefetch"
  PROVE  host.target \in Layers /\ Only(host.target)
<1>1. host.target \in Layers /\ Drained(Current)
  BY DEF EventsInv, IInv, TypeOK, HostState, PrefetchDrained
<1>2. Lookahead /\ ~ Hooked
  BY DEF Unhooked, TransfersInTurn
<1>3. host.target = host.layer
  BY <1>2 DEF EventsInv, TargetsAhead
<1>4. \A l \in Layers : l # host.target => Drained(l)
  BY <1>3, BusyLayer
<1> QED
  BY <1>1, <1>4 DEF Only, Streams

(* Operations put behind the only stream with work keep the streams in     *)
(* turn and whole; computations still read, and tables still say, what the *)
(* slots will hold, if the new ones do.                                    *)
Foreseen(q, n, cch) ==
  \A l \in Layers, x \in Slots :
    cch[l].slot_to_expert[x] # None =>
      Holds(buffer, held, q, n, l, x, cch[l].slot_to_expert[x])

(* The streams after operations have been put behind one of them.          *)
LEMMA Appended ==
  ASSUME queue \in [Streams -> Seq(Operations)],
         NEW st \in Streams, Only(st),
         NEW ops \in Seq(Operations), Enqueue(st, ops),
         buffer' = buffer, held' = held,
         WholeTransfers, ComputesRead,
         Paired(ops), ops # << >> => ops[1].op # "copy",
         \A i \in DOMAIN ops : ops[i].op = "compute" =>
           \A use \in ops[i].uses :
             Holds(buffer, held, queue[st] \o ops, Len(queue[st]) + i - 1,
                   ops[i].layer, use[2], use[1]),
         Foreseen(queue[st] \o ops, Len(queue[st] \o ops), cache')
  PROVE  InTurn' /\ WholeTransfers' /\ ComputesRead' /\ TablesHeld'
<1> DEFINE q == queue[st]
           r == q \o ops
<1>1. /\ queue' \in [Streams -> Seq(Operations)]
      /\ queue'[st] = r
      /\ \A u \in Streams : u # st => queue'[u] = queue[u]
  BY EnqueueAppends
<1>2. \A u \in Streams : u # st => queue[u] = << >> /\ queue'[u] = << >>
  BY <1>1 DEF Only, Drained
<1>3. q \in Seq(Operations)
  OBVIOUS
<1>4. /\ Len(q) \in Nat /\ Len(ops) \in Nat
      /\ DOMAIN q = 1..Len(q) /\ DOMAIN ops = 1..Len(ops)
      /\ DOMAIN r = 1..(Len(q) + Len(ops))
      /\ \A i \in 1..Len(q) : r[i] = q[i]
      /\ \A i \in 1..(Len(q) + Len(ops)) :
           \/ i \in 1..Len(q)
           \/ i - Len(q) \in 1..Len(ops) /\ i > Len(q) /\ r[i] = ops[i - Len(q)]
  BY <1>3, ConcatPlaces
<1>5. DOMAIN << >> = {}
  OBVIOUS
<1>6. Paired(r)
  BY <1>3, PairedConcat DEF WholeTransfers
<1>7. Foreseen(r, Len(r), cache')
  OBVIOUS
<1>8. ASSUME NEW i \in DOMAIN r, r[i].op = "compute", NEW use \in r[i].uses
      PROVE  Holds(buffer, held, r, i - 1, r[i].layer, use[2], use[1])
  <2>1. CASE i \in 1..Len(q)
    <3>1. r[i] = q[i] /\ i \in DOMAIN q /\ i - 1 \in 0..Len(q)
      BY <1>4, <2>1
    <3>2. Holds(buffer, held, q, i - 1, q[i].layer, use[2], use[1])
      BY <1>8, <3>1 DEF ComputesRead
    <3> HIDE DEF q
    <3>3. Holds(buffer, held, r, i - 1, q[i].layer, use[2], use[1])
      BY <1>3, <3>1, <3>2, HoldsBefore
    <3> QED
      BY <3>1, <3>3
  <2>2. CASE i \notin 1..Len(q)
    <3> DEFINE k == i - Len(q)
    <3>1. k \in DOMAIN ops /\ r[i] = ops[k] /\ Len(q) + k - 1 = i - 1
      BY <1>4, <2>2
    <3> HIDE DEF k
    <3>2. Holds(buffer, held, r, Len(q) + k - 1, ops[k].layer, use[2], use[1])
      BY <1>8, <3>1
    <3> QED
      BY <3>1, <3>2
  <2> QED
    BY <2>1, <2>2
<1> HIDE DEF q, r
<1>9. InTurn'
  <2>1. ASSUME NEW l \in Layers, queue'[l] # << >> PROVE queue'[Current] = << >>
    <3>1. l \in Streams /\ Current \in Streams /\ l # Current
      BY CacheAssumption DEF Streams, Current, Layers
    <3> QED
      BY <1>2, <2>1, <3>1
  <2> QED
    BY <2>1 DEF InTurn, Drained
<1>10. WholeTransfers'
  <2>1. Paired(<< >>)
    BY <1>5 DEF Paired
  <2>2. \A u \in Streams : Paired(queue'[u])
    BY <1>1, <1>2, <1>6, <2>1
  <2> QED
    BY <2>2 DEF WholeTransfers
<1>11. ComputesRead'
  <2>1. ASSUME NEW u \in Streams, NEW i \in DOMAIN queue'[u],
               queue'[u][i].op = "compute", NEW use \in queue'[u][i].uses
        PROVE  Holds(buffer, held, queue'[u], i - 1, queue'[u][i].layer,
                     use[2], use[1])
    <3>1. u = st
      BY <1>2, <1>5, <2>1
    <3> QED
      BY <1>1, <1>8, <2>1, <3>1
  <2> QED
    BY <2>1 DEF ComputesRead
<1>12. TablesHeld'
  <2>1. ASSUME NEW u \in Streams, Only(u)' PROVE queue'[u] = r
    <3>1. CASE u # st
      <4>1. queue'[st] = << >>
        BY <2>1, <3>1 DEF Only, Drained
      <4> QED
        BY <1>1, <1>2, <3>1, <4>1
    <3> QED
      BY <1>1, <3>1
  <2>2. ASSUME NEW u \in Streams, Only(u)',
               NEW l \in Layers, NEW x \in Slots,
               cache'[l].slot_to_expert[x] # None
        PROVE  Holds(buffer, held, queue'[u], Len(queue'[u]), l, x,
                     cache'[l].slot_to_expert[x])
    <3>1. queue'[u] = r
      BY <2>1, <2>2
    <3> QED
      BY <1>7, <2>2, <3>1 DEF Foreseen
  <2> QED
    BY <2>2 DEF TablesHeld
<1> QED
  BY <1>9, <1>10, <1>11, <1>12

(* In column mode the host itself fills no buffer.                         *)
LEMMA BuffersIdle ==
  ASSUME IInv, DmaTypeOK, Columns, HostStep
  PROVE  buffer' = buffer /\ held' = held
<1>1. held' = held
  BY HostTyped
<1>2. buffer' = buffer
  BY DEF HostStep, DmaStartPass, DmaPrefetch, DmaPrefetchStep, DmaPrefetchEnd,
     DmaForward, DmaLockHit, DmaFindMisses, DmaLoadMiss, DmaLoadsIssued,
     DmaInfer, DmaStepExpert, DmaExecExpert, DmaResetState, DmaStartWarmup,
     DmaSeedLayer, DmaWarmupStep, DmaWarmupEnd, Quiet, NoLoad, Load, Run
<1> QED
  BY <1>1, <1>2

(* A load behind the one stream with work.                                 *)
LEMMA LoadForeseen ==
  ASSUME IInv, DmaTypeOK, Columns, WholeTransfers, ComputesRead, TablesHeld,
         buffer' = buffer, held' = held,
         NEW st \in Streams, Only(st), NEW l \in Layers, NEW e \in Experts,
         NEW locked, TableLoad(st, l, e, locked)
  PROVE  InTurn' /\ WholeTransfers' /\ ComputesRead' /\ TablesHeld'
<1> DEFINE x == cache'[l].expert_to_slot[e]
           f == Fill(x, l, x, e)
           c == Copy(x, l, x)
           q == queue[st]
<1>1. /\ cache \in [Layers -> SlotTable] /\ cache[l] \in SlotTable
      /\ Consistent(cache[l])
      /\ cache' = [cache EXCEPT ![l] = Loaded(cache[l], e, locked)]
      /\ queue \in [Streams -> Seq(Operations)] /\ q \in Seq(Operations)
  BY DEF IInv, TypeOK, TablesConsistent, DmaTypeOK, TableLoad
<1>2. x \in Slots
  BY <1>1, LoadBinds
<1>3. /\ cache'[l].slot_to_expert = [cache[l].slot_to_expert EXCEPT ![x] = e]
      /\ \A k \in Layers : k # l => cache'[k] = cache[k]
  <2> DEFINE d == cache'[l]
  <2>1. d = Loaded(cache[l], e, locked) /\ \A k \in Layers : k # l => cache'[k] = cache[k]
    BY <1>1
  <2>2. \A t : t = Loaded(cache[l], e, locked) =>
          t.slot_to_expert = [cache[l].slot_to_expert EXCEPT ![t.expert_to_slot[e]] = e]
    BY <1>1, LoadedSlots
  <2> QED
    BY <2>1, <2>2
<1>4. Enqueue(st, <<f, c>>)
  BY DEF TableLoad
<1> HIDE DEF x
<1>5. f \in Operations /\ c \in Operations
  BY <1>2 DEF Operations, Buffers
<1>6. /\ f.op = "fill" /\ f.buffer = x /\ f.layer = l /\ f.slot = x /\ f.expert = e
      /\ c.op = "copy" /\ c.buffer = x /\ c.layer = l /\ c.slot = x
  BY DEF Fill, Copy
<1> HIDE DEF f, c, q
<1>7. PICK ops : ops = <<f, c>>
  OBVIOUS
<1>8. /\ ops \in Seq(Operations) /\ DOMAIN ops = 1..2
      /\ ops[1] = f /\ ops[2] = c /\ ops # << >>
  BY <1>5, <1>7
<1>9. Paired(ops) /\ ops[1].op # "copy" /\ \A i \in DOMAIN ops : ops[i].op # "compute"
  BY <1>6, <1>8 DEF Paired
<1>10. Holds(buffer, held, q \o ops, Len(q \o ops), l, x, e)
  <2>1. Writes(c, f.layer, f.slot)
    BY <1>6 DEF Writes
  <2>2. Holds(buffer, held, q \o ops, Len(q \o ops), f.layer, f.slot, f.expert)
    BY <1>1, <1>5, <1>6, <1>7, <2>1, HoldsLoaded
  <2> QED
    BY <1>6, <2>2
<1>11. Foreseen(q \o ops, Len(q \o ops), cache')
  <2>1. ASSUME NEW k \in Layers, NEW y \in Slots,
               cache'[k].slot_to_expert[y] # None
        PROVE  Holds(buffer, held, q \o ops, Len(q \o ops), k, y,
                     cache'[k].slot_to_expert[y])
    <3>1. CASE k = l /\ y = x
      <4>1. cache'[l].slot_to_expert[x] = e
        BY <1>1, <1>2, <1>3 DEF SlotTable
      <4> QED
        BY <1>10, <3>1, <4>1
    <3>2. CASE ~ (k = l /\ y = x)
      <4> DEFINE g == cache[k].slot_to_expert[y]
      <4>1. cache'[k].slot_to_expert[y] = g
        BY <1>1, <1>2, <1>3, <3>2 DEF SlotTable
      <4>2. g # None
        BY <2>1, <4>1
      <4>3. Holds(buffer, held, q, Len(q), k, y, g)
        BY <2>1, <4>2 DEF TablesHeld, q
      <4>4. \A i \in DOMAIN ops : ~ Writes(ops[i], k, y)
        BY <1>6, <1>8, <3>2 DEF Writes
      <4> HIDE DEF g
      <4>5. Holds(buffer, held, q \o ops, Len(q \o ops), k, y, g)
        BY <1>1, <1>8, <4>3, <4>4, HoldsUntouched
      <4> QED
        BY <4>1, <4>5
    <3> QED
      BY <3>1, <3>2
  <2> QED
    BY <2>1 DEF Foreseen
<1>12. /\ Enqueue(st, ops) /\ ops \in Seq(Operations)
       /\ \A i \in DOMAIN ops : ops[i].op = "compute" =>
            \A use \in ops[i].uses :
              Holds(buffer, held, queue[st] \o ops, Len(queue[st]) + i - 1,
                    ops[i].layer, use[2], use[1])
  BY <1>4, <1>7, <1>8, <1>9
<1>13. Foreseen(queue[st] \o ops, Len(queue[st] \o ops), cache')
  BY <1>11 DEF q
<1> QED
  BY <1>1, <1>9, <1>12, <1>13, Appended

(* A computation that reads slots for experts is an operation.             *)
LEMMA ComputeTyped ==
  ASSUME NEW l \in Layers, NEW uses \in SUBSET (Experts \X Slots)
  PROVE  Compute(l, uses) \in Operations
BY DEF Operations

(* The running of experts: each reads the slot its weights are bound to.   *)
LEMMA RunForeseen ==
  ASSUME IInv, DmaTypeOK, WholeTransfers, ComputesRead, TablesHeld,
         buffer' = buffer, held' = held, cache' = cache, Only(Current),
         NEW E \in SUBSET Resident(cache[host.layer]), Run(E)
  PROVE  InTurn' /\ WholeTransfers' /\ ComputesRead' /\ TablesHeld'
<1> DEFINE l == host.layer
           bound == cache[l].expert_to_slot
           uses == {<<e, bound[e]>> : e \in E}
           o == Compute(l, uses)
           q == queue[Current]
<1>1. /\ l \in Layers /\ cache[l] \in SlotTable /\ Consistent(cache[l])
      /\ Current \in Streams
      /\ queue \in [Streams -> Seq(Operations)] /\ q \in Seq(Operations)
  BY DEF IInv, TypeOK, HostState, TablesConsistent, DmaTypeOK, Streams
<1>2. \A e \in E : /\ e \in Experts /\ bound[e] \in Slots
                   /\ cache[l].slot_to_expert[bound[e]] = e /\ e # None
  BY <1>1, NoneIsNoSlot DEF Resident, SlotTable, Consistent
<1>3. \A use \in uses : /\ use[2] \in Slots /\ use[1] \in Experts
                        /\ cache[l].slot_to_expert[use[2]] = use[1]
                        /\ use[1] # None
  BY <1>2
<1>4. o.op = "compute" /\ o.layer = l /\ o.uses = uses
  BY DEF Compute
<1>5. Enqueue(Current, <<o>>)
  BY DEF Run
<1>6. o \in Operations
  <2>1. uses \in SUBSET (Experts \X Slots)
    BY <1>2
  <2> HIDE DEF uses
  <2> QED
    BY <1>1, <2>1, ComputeTyped
<1> HIDE DEF l, uses, o, q
<1>7. PICK ops : ops = <<o>>
  OBVIOUS
<1>8. /\ ops \in Seq(Operations) /\ DOMAIN ops = {1} /\ ops[1] = o
  BY <1>6, <1>7
<1>9. Paired(ops) /\ ops[1].op # "copy"
  BY <1>4, <1>8 DEF Paired
<1>10. ASSUME NEW k \in Layers, NEW y \in Slots,
              cache[k].slot_to_expert[y] # None
       PROVE  Holds(buffer, held, q, Len(q), k, y, cache[k].slot_to_expert[y])
  BY <1>1, <1>10 DEF TablesHeld, q
<1>11. Foreseen(q \o ops, Len(q \o ops), cache')
  <2>1. ASSUME NEW k \in Layers, NEW y \in Slots,
               cache[k].slot_to_expert[y] # None
        PROVE  Holds(buffer, held, q \o ops, Len(q \o ops), k, y,
                     cache[k].slot_to_expert[y])
    <3> DEFINE g == cache[k].slot_to_expert[y]
    <3>1. Holds(buffer, held, q, Len(q), k, y, g)
      BY <1>10, <2>1
    <3>2. \A i \in DOMAIN ops : ~ Writes(ops[i], k, y)
      BY <1>4, <1>8 DEF Writes
    <3> HIDE DEF g
    <3>3. Holds(buffer, held, q \o ops, Len(q \o ops), k, y, g)
      BY <1>1, <1>8, <3>1, <3>2, HoldsUntouched
    <3> QED
      BY <3>3 DEF g
  <2> QED
    BY <2>1 DEF Foreseen
<1>12. ASSUME NEW i \in DOMAIN ops, NEW use \in ops[i].uses
       PROVE  Holds(buffer, held, q \o ops, Len(q) + i - 1, ops[i].layer,
                    use[2], use[1])
  <2>1. i = 1 /\ ops[i] = o /\ use \in uses /\ ops[i].layer = l
    BY <1>4, <1>8, <1>12
  <2>2. /\ Len(q) \in 0..Len(q) /\ Len(q) + i - 1 = Len(q)
    <3>1. Len(q) \in Nat
      BY <1>1
    <3> QED
      BY <2>1, <3>1
  <2>3. Holds(buffer, held, q, Len(q), l, use[2], use[1])
    BY <1>1, <1>3, <1>10, <2>1
  <2>4. Holds(buffer, held, q \o ops, Len(q), l, use[2], use[1])
    BY <1>1, <1>8, <2>2, <2>3, HoldsBefore
  <2> QED
    BY <2>1, <2>2, <2>4
<1>13. /\ Enqueue(Current, ops)
       /\ \A i \in DOMAIN ops : ops[i].op = "compute" =>
            \A use \in ops[i].uses :
              Holds(buffer, held, queue[Current] \o ops,
                    Len(queue[Current]) + i - 1, ops[i].layer, use[2], use[1])
       /\ Foreseen(queue[Current] \o ops, Len(queue[Current] \o ops), cache')
  BY <1>5, <1>7, <1>11, <1>12 DEF q
<1> QED
  BY <1>1, <1>8, <1>9, <1>13, Appended

(* A reset: the fresh tables are filled from an idle device.               *)
LEMMA ResetForeseen ==
  ASSUME IInv, DmaTypeOK, Columns, WholeTransfers, ComputesRead,
         buffer' = buffer, held' = held, Only(Current), DmaResetState
  PROVE  InTurn' /\ WholeTransfers' /\ ComputesRead' /\ TablesHeld'
<1> DEFINE ops == FlattenSeq([l \in Layers |-> WarmupLoads(l)])
<1>1. /\ queue \in [Streams -> Seq(Operations)] /\ Current \in Streams
      /\ queue[Current] = << >> /\ Enqueue(Current, ops)
      /\ cache' = [l \in Layers |-> FreshTable]
  BY DEF DmaTypeOK, DmaResetState, ResetState, Drained, Streams
<1>2. /\ ops \in Seq(Operations) /\ FreshLoads(ops)
      /\ \A l \in Layers, x \in Slots :
           FreshTable.slot_to_expert[x] # None =>
             /\ FreshTable.slot_to_expert[x] = x
             /\ \E j \in DOMAIN ops : Writes(ops[j], l, x)
  BY WarmupFresh, WarmupTyped
<1> HIDE DEF ops
<1>3. << >> \o ops = ops /\ Len(ops) \in Nat /\ DOMAIN ops = 1..Len(ops)
  BY <1>2
<1>4. ASSUME NEW l \in Layers, NEW x \in Slots,
             FreshTable.slot_to_expert[x] # None
      PROVE  Holds(buffer, held, ops, Len(ops), l, x, FreshTable.slot_to_expert[x])
  <2>1. /\ FreshTable.slot_to_expert[x] = x
        /\ \E j \in 1..Len(ops) : Writes(ops[j], l, x)
    BY <1>2, <1>3, <1>4
  <2>2. ASSUME NEW j \in 1..Len(ops), Writes(ops[j], l, x),
               \A k \in (j + 1)..Len(ops) : ~ Writes(ops[k], l, x)
        PROVE  ops[j].op = "copy" /\ Delivered(buffer, ops, j) = x
    <3>1. ops[j] \in Operations /\ ops[j].op # "compute"
      BY <1>2, <1>3 DEF FreshLoads
    <3>2. ops[j].op # "fill"
      <4> SUFFICES ASSUME ops[j].op = "fill" PROVE FALSE
        OBVIOUS
      <4>1. /\ j + 1 \in 1..Len(ops) /\ ops[j + 1].op = "copy"
            /\ ops[j + 1].layer = ops[j].layer /\ ops[j + 1].slot = ops[j].slot
        BY <1>2, <1>3 DEF FreshLoads, Paired
      <4>2. Writes(ops[j + 1], l, x)
        BY <2>2, <4>1 DEF Writes
      <4> QED
        BY <1>3, <2>2, <4>1, <4>2
    <3>3. ops[j].op = "copy" /\ ops[j].slot = x
      BY <2>2, <3>1, <3>2, OperationShape DEF Writes
    <3>4. j # 1
      <4>1. ops # << >>
        BY <1>3
      <4> QED
        BY <1>2, <3>3, <4>1 DEF FreshLoads
    <3>5. j - 1 \in DOMAIN ops /\ (j - 1) + 1 = j
      BY <1>3, <3>4
    <3>6. ops[j - 1].op = "fill" /\ ops[j - 1].expert = ops[j - 1].slot
      BY <1>2, <1>3, <3>3, <3>4, <3>5 DEF FreshLoads, Paired
    <3>7. ops[j].slot = ops[j - 1].slot
      BY <1>2, <3>5, <3>6 DEF FreshLoads, Paired
    <3> QED
      BY <3>3, <3>4, <3>6, <3>7 DEF Delivered
  <2> QED
    BY <2>1, <2>2 DEF Holds
<1>5. Foreseen(queue[Current] \o ops, Len(queue[Current] \o ops), cache')
  <2>1. queue[Current] \o ops = ops
    BY <1>1, <1>3
  <2>2. \A l \in Layers : cache'[l] = FreshTable
    BY <1>1
  <2> QED
    BY <1>4, <2>1, <2>2 DEF Foreseen
<1>6. /\ Paired(ops) /\ (ops # << >> => ops[1].op # "copy")
      /\ \A i \in DOMAIN ops : ops[i].op # "compute"
  BY <1>2 DEF FreshLoads
<1> QED
  BY <1>1, <1>2, <1>5, <1>6, Appended

(* With lookahead disabled the host never comes to the hook, and with the  *)
(* prefetch loop never run the prefetch streams stay empty.                *)
LEMMA StaysUnhooked ==
  ASSUME IInv, DmaTypeOK, Unhooked, HostStep
  PROVE  Unhooked'
<1> SUFFICES ASSUME ~ Lookahead
             PROVE  /\ host'.pc \notin {"hook", "prefetch"}
                    /\ \A l \in Layers : queue'[l] = << >>
  BY DEF Unhooked, Drained
<1>1. /\ host \in HostState /\ host.pc \notin {"hook", "prefetch"}
      /\ \A l \in Layers : queue[l] = << >>
      /\ queue \in [Streams -> Seq(Operations)]
  BY DEF IInv, TypeOK, Unhooked, Drained, DmaTypeOK
<1>2. \A l, decode : AtLayer(l, decode).pc = "forward"
  BY DEF AtLayer, Between
<1>3. NextLayer.pc \in {"forward", "between"}
  BY <1>2 DEF NextLayer, Between
<1>4. \A pc \in {"lock", "load", "infer", "step", "exec"} :
        Stays(pc) => host'.pc \notin {"hook", "prefetch"}
  BY DEF Stays
<1>5. host'.pc \notin {"hook", "prefetch"}
  BY <1>1, <1>2, <1>3, <1>4, HostStepsBelow, Moves DEF Next, StartPass
<1>6. \A l \in Layers : queue'[l] = << >>
  <2>1. PICK st \in Streams, ops \in Seq(Operations) : HostOperations(st, ops)
    BY HostOperates
  <2>2. st = Current
    BY <1>1, <2>1 DEF HostOperations
  <2>3. \A u \in Streams : u # st => queue'[u] = queue[u]
    BY <1>1, <2>1, EnqueueAppends DEF HostOperations
  <2>4. \A l \in Layers : l \in Streams /\ l # Current
    BY CacheAssumption DEF Streams, Current, Layers
  <2> QED
    BY <1>1, <2>2, <2>3, <2>4
<1> QED
  BY <1>5, <1>6

(* Every step of the host: whatever it enqueues, it enqueues on the only   *)
(* stream with work, behind what makes it right.                           *)
LEMMA HostForeseen ==
  ASSUME TransfersInTurn, LosslessInv, HostStep
  PROVE  LosslessInv'
<1>1. /\ EventsInv /\ PrefetchDrained /\ Unhooked /\ InTurn
      /\ WholeTransfers /\ ComputesRead /\ TablesHeld
      /\ IInv /\ DmaTypeOK /\ Columns
  BY DEF LosslessInv, EventsInv, TransfersInTurn
<1>2. EventsInv' /\ PrefetchDrained' /\ Unhooked'
  BY <1>1, EventsStep, PrefetchStaysDrained, StaysUnhooked DEF DmaNext
<1>3. buffer' = buffer /\ held' = held
  BY <1>1, BuffersIdle
<1> SUFFICES InTurn' /\ WholeTransfers' /\ ComputesRead' /\ TablesHeld'
  BY <1>2 DEF LosslessInv
<1>4. CASE TableIdle
  <2>1. InTurn' /\ WholeTransfers'
    BY <1>1, <1>4 DEF TableIdle, InTurn, WholeTransfers, Drained
  <2>2. ComputesRead'
    BY <1>1, <1>3, <1>4 DEF TableIdle, ComputesRead
  <2>3. TablesHeld'
    <3>1. \A st \in Streams : Only(st)' => Only(st)
      BY <1>4 DEF TableIdle, Only, Drained
    <3> QED
      BY <1>1, <1>3, <1>4, <3>1 DEF TableIdle, TablesHeld
  <2> QED
    BY <2>1, <2>2, <2>3
<1>5. ASSUME NEW st \in Streams, NEW l \in Layers, NEW e \in Experts,
             NEW locked, TableLoad(st, l, e, locked)
      PROVE  InTurn' /\ WholeTransfers' /\ ComputesRead' /\ TablesHeld'
  <2>1. Only(st)
    <3>1. \/ st = Current /\ host.pc \in {"load", "step", "warm"}
          \/ st = host.target /\ host.pc = "prefetch"
      BY <1>5 DEF TableLoad
    <3> QED
      BY <1>1, <3>1, OnlyCurrent, OnlyTarget
  <2> QED
    BY <1>1, <1>3, <1>5, <2>1, LoadForeseen
<1>6. ASSUME NEW E \in SUBSET Resident(cache[host.layer]), Run(E),
             cache' = cache, host.pc \in {"infer", "exec"}
      PROVE  InTurn' /\ WholeTransfers' /\ ComputesRead' /\ TablesHeld'
  <2>1. Only(Current)
    BY <1>1, <1>6, OnlyCurrent
  <2> QED
    BY <1>1, <1>3, <1>6, <2>1, RunForeseen
<1>7. CASE DmaResetState
  <2>1. Only(Current)
    BY <1>1, <1>7, OnlyCurrent DEF DmaResetState, ResetState
  <2> QED
    BY <1>1, <1>3, <1>7, <2>1, ResetForeseen
<1> QED
  BY <1>1, <1>4, <1>5, <1>6, <1>7, HostTables

(* The stream that works executes what was foreseen of it.                 *)
LEMMA StreamForeseen ==
  ASSUME TransfersInTurn, LosslessInv, NEW st \in Streams, StreamStep(st)
  PROVE  LosslessInv'
<1> DEFINE q == queue[st]
<1>1. /\ EventsInv /\ PrefetchDrained /\ Unhooked /\ InTurn
      /\ WholeTransfers /\ ComputesRead /\ TablesHeld
      /\ IInv /\ DmaTypeOK
      /\ cache \in [Layers -> SlotTable]
  BY DEF LosslessInv, EventsInv, IInv, TypeOK
<1>2. /\ queue'[st] = Tail(q) /\ q # << >> /\ q \in Seq(Operations)
      /\ \A u \in Streams : u # st => queue'[u] = queue[u]
      /\ cache' = cache /\ host' = host
      /\ buffer \in [Buffers -> Experts \cup {None}]
      /\ held \in [Layers -> [Slots -> Experts \cup {None}]]
  BY <1>1, StreamTyped DEF DmaTypeOK
<1>3. Executed(Head(q), buffer, held, buffer', held')
  BY DEF StreamStep, Executed
<1>4. \A u \in Streams : u # st => queue[u] = << >> /\ queue'[u] = << >>
  <2>1. Only(st)
    BY <1>1, <1>2, OneBusy DEF Drained
  <2> QED
    BY <1>2, <2>1 DEF Only, Drained
<1>5. Paired(q)
  BY <1>1 DEF WholeTransfers
<1>6. /\ Len(q) \in Nat \ {0} /\ Len(Tail(q)) = Len(q) - 1
      /\ DOMAIN q = 1..Len(q) /\ DOMAIN Tail(q) = 1..(Len(q) - 1)
      /\ \A i \in 1..(Len(q) - 1) : Tail(q)[i] = q[i + 1]
  BY <1>2, TailPlaces
<1>7. ASSUME NEW i \in DOMAIN q, q[i].op = "compute", NEW use \in q[i].uses
      PROVE  /\ Holds(buffer, held, q, i - 1, q[i].layer, use[2], use[1])
             /\ q[i].layer \in Layers /\ use[2] \in Slots
  <2>1. q[i] \in Operations
    BY <1>2, <1>7
  <2>2. q[i].layer \in Layers /\ use \in Experts \X Slots
    BY <1>7, <2>1, OperationShape
  <2> QED
    BY <1>1, <1>7, <2>2 DEF ComputesRead
<1>8. Only(st)
  BY <1>4 DEF Only, Drained
<1>9. ASSUME NEW l \in Layers, NEW x \in Slots,
             cache[l].slot_to_expert[x] # None
      PROVE  Holds(buffer, held, q, Len(q), l, x, cache[l].slot_to_expert[x])
  BY <1>1, <1>8, <1>9 DEF TablesHeld
<1>10. EventsInv' /\ PrefetchDrained' /\ Unhooked' /\ InTurn'
  <2>1. EventsInv'
    BY <1>1, EventsStep DEF DmaNext
  <2>2. \A u \in Streams : Drained(u) => Drained(u)'
    BY <1>2 DEF Drained
  <2>3. Current \in Streams /\ \A l \in Layers : l \in Streams
    BY DEF Streams
  <2> QED
    BY <1>1, <1>2, <2>1, <2>2, <2>3 DEF PrefetchDrained, Unhooked, InTurn
<1> HIDE DEF q
<1>11. WholeTransfers'
  <2>1. Paired(Tail(q)) /\ Paired(<< >>)
    <3>1. DOMAIN << >> = {}
      OBVIOUS
    <3> QED
      BY <1>2, <1>5, <3>1, PairedTail DEF Paired
  <2>2. \A u \in Streams : Paired(queue'[u])
    BY <1>2, <1>4, <2>1
  <2> QED
    BY <2>2 DEF WholeTransfers
<1>12. ComputesRead'
  <2>1. ASSUME NEW u \in Streams, NEW i \in DOMAIN queue'[u],
               queue'[u][i].op = "compute", NEW use \in queue'[u][i].uses
        PROVE  Holds(buffer', held', queue'[u], i - 1, queue'[u][i].layer,
                     use[2], use[1])
    <3>1. u = st
      <4>1. DOMAIN << >> = {}
        OBVIOUS
      <4> QED
        BY <1>4, <2>1, <4>1
    <3> DEFINE k == i + 1
    <3>2. k \in DOMAIN q /\ queue'[u][i] = q[k] /\ k - 1 = i /\ i \in 1..Len(q)
      BY <1>2, <1>6, <2>1, <3>1
    <3> HIDE DEF k
    <3>3. /\ Holds(buffer, held, q, i, q[k].layer, use[2], use[1])
          /\ q[k].layer \in Layers /\ use[2] \in Slots
      BY <1>7, <2>1, <3>2
    <3>4. Holds(buffer', held', Tail(q), i - 1, q[k].layer, use[2], use[1])
      BY <1>2, <1>3, <1>5, <3>2, <3>3, HoldsExecuted
    <3> QED
      BY <1>2, <3>1, <3>2, <3>4
  <2> QED
    BY <2>1 DEF ComputesRead
<1>13. TablesHeld'
  <2>1. ASSUME NEW u \in Streams, Only(u)'
        PROVE  queue'[u] = Tail(q)
    <3>1. CASE u # st
      <4>1. queue'[st] = << >>
        BY <2>1, <3>1 DEF Only, Drained
      <4> QED
        BY <1>2, <1>4, <3>1, <4>1
    <3> QED
      BY <1>2, <3>1
  <2>2. ASSUME NEW l \in Layers, NEW x \in Slots,
               cache[l].slot_to_expert[x] # None
        PROVE  Holds(buffer', held', Tail(q), Len(Tail(q)), l, x,
                     cache[l].slot_to_expert[x])
    <3> DEFINE g == cache[l].slot_to_expert[x]
    <3>1. Holds(buffer, held, q, Len(q), l, x, g) /\ Len(q) \in 1..Len(q)
      BY <1>6, <1>9, <2>2
    <3> HIDE DEF g
    <3>2. Holds(buffer', held', Tail(q), Len(q) - 1, l, x, g)
      BY <1>2, <1>3, <1>5, <2>2, <3>1, HoldsExecuted
    <3> QED
      BY <1>6, <3>2 DEF g
  <2> QED
    BY <1>2, <2>1, <2>2 DEF TablesHeld
<1> QED
  BY <1>10, <1>11, <1>12, <1>13 DEF LosslessInv

(* At the start nothing is on its way, and the slots hold what the fresh   *)
(* tables say: the wrapper loaded them before it was used.                 *)
LEMMA LosslessInit == DmaInit => LosslessInv
<1> SUFFICES ASSUME DmaInit PROVE LosslessInv
  OBVIOUS
<1>1. /\ EventsInv /\ host.pc = "between"
      /\ \A st \in Streams : queue[st] = << >>
      /\ \A l \in Layers : cache[l] = FreshTable
                           /\ held[l] = FreshTable.slot_to_expert
  BY EventsInit DEF DmaInit, Init, Between
<1>2. DOMAIN << >> = {} /\ Len(<< >>) = 0 /\ 1..0 = {}
  OBVIOUS
<1>3. PrefetchDrained /\ Unhooked /\ InTurn
  BY <1>1 DEF PrefetchDrained, Unhooked, InTurn, Drained, Streams
<1>4. WholeTransfers /\ ComputesRead
  BY <1>1, <1>2 DEF WholeTransfers, ComputesRead, Paired
<1>5. TablesHeld
  <2>1. ASSUME NEW l \in Layers, NEW x \in Slots
        PROVE  Holds(buffer, held, << >>, 0, l, x, cache[l].slot_to_expert[x])
    BY <1>1, <1>2 DEF Holds
  <2> QED
    BY <1>1, <1>2, <2>1 DEF TablesHeld
<1> QED
  BY <1>1, <1>3, <1>4, <1>5 DEF LosslessInv

(* Every expert computes from its own weights, whichever way the streams   *)
(* are interleaved and the receive buffers reused.                         *)
THEOREM TransfersAlwaysLossless ==
  ASSUME TransfersInTurn
  PROVE  DmaSpec => []TransfersLossless
<1>1. DmaInit => LosslessInv
  BY LosslessInit
<1>2. LosslessInv /\ [DmaNext]_dmaVars => LosslessInv'
  <2> SUFFICES ASSUME LosslessInv, [DmaNext]_dmaVars PROVE LosslessInv'
    OBVIOUS
  <2>1. CASE UNCHANGED dmaVars
    BY <2>1, EventsStep
    DEF dmaVars, LosslessInv, PrefetchDrained, Unhooked, InTurn, Drained,
        WholeTransfers, ComputesRead, TablesHeld, Only
  <2> QED
    BY <2>1, HostForeseen, StreamForeseen DEF DmaNext
<1>3. LosslessInv => TransfersLossless
  <2> SUFFICES ASSUME LosslessInv PROVE DmaTypeOK /\ Lossless
    BY DEF TransfersLossless
  <2> DEFINE q == queue[Current]
  <2>1. /\ DmaTypeOK /\ ComputesRead /\ Current \in Streams
        /\ q \in Seq(Operations)
    BY DEF LosslessInv, EventsInv, DmaTypeOK, Streams
  <2>2. ASSUME q # << >>, q[1].op = "compute", NEW use \in q[1].uses
        PROVE  held[q[1].layer][use[2]] = use[1]
    <3>1. 1 \in DOMAIN q
      BY <2>1, <2>2
    <3>2. Holds(buffer, held, q, 0, q[1].layer, use[2], use[1])
      BY <2>1, <2>2, <3>1 DEF ComputesRead
    <3>3. 1..0 = {}
      OBVIOUS
    <3> QED
      BY <3>2, <3>3 DEF Holds
  <2>3. q # << >> => Head(q) = q[1]
    BY <2>1
  <2>4. Lossless
    BY <2>2, <2>3 DEF Lossless, Drained
  <2> QED
    BY <2>1, <2>4
<1> QED
  BY <1>1, <1>2, <1>3, PTL DEF DmaSpec

=============================================================================
