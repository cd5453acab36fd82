-------------------------- MODULE TieredMoEProofs --------------------------
(***************************************************************************)
(* Proofs about TieredMoE and HugeServe.  Of TieredMoE, for any number of  *)
(* experts, layers and slots: the tables stay consistent, and a forward    *)
(* whose experts fit keeps them.  The code locks nothing; what protects    *)
(* the experts of a forward is that their slots are the most recent ones   *)
(* of the list (ServedLast).  Of HugeServe, for any batch, prompt, chunk   *)
(* and limit: serving uses the layers as their specification says, so that *)
(* all of this holds while serving; the cache follows the sequence, and    *)
(* the count of a row stands still once the row has ended.                 *)
(***************************************************************************)
EXTENDS HugeServe, SlotOrderProofs, FiniteSetTheorems

(* The experts of the forward under way that its first two loops have      *)
(* touched or loaded already.                                              *)
Kept == IF host.pc = "touch"
          THEN (host.need \cap Resident(tier[host.layer])) \ host.todo
          ELSE host.need \ host.todo
SlotsOf(c, E) == {c.expert_to_slot[e] : e \in E}

(* What the loops of a forward that fits rely on: the slots of the experts *)
(* they have handled come last in the list.                                *)
ServedLast ==
  LET c == tier[host.layer]
  IN  /\ host.todo \subseteq host.need
      /\ host.pc \in {"touch", "admit"}
           => /\ Fits
              /\ Kept \subseteq Resident(c)
              /\ ComeLast(c.slot_lru, SlotsOf(c, Kept))
      /\ host.pc = "touch" => host.todo \subseteq Resident(c)
      /\ host.pc = "admit" => host.todo \cap Resident(c) = {}

(* The part of TypeOK about the host's own data.                           *)
HostTypeOK ==
  /\ option \in [placement : {"slots", "cpu"}, capacity : 0..MaxCapacity]
  /\ tier \in [Layers -> TierTable]
  /\ fifo \in [Layers -> Seq(Experts)]
  /\ host \in HostStates

(* The inductive invariant.                                                *)
IInv == HostTypeOK /\ TiersConsistent /\ FittingStaysResident /\ ServedLast

(***************************************************************************)
(* The table of one layer                                                  *)
(***************************************************************************)

(* The number of slots is positive, and None numbers nothing.              *)
LEMMA CapacityType ==
  ASSUME option \in [placement : {"slots", "cpu"}, capacity : 0..MaxCapacity]
  PROVE  Capacity \in Nat \ {0} /\ None \notin Slots /\ None \notin Experts
BY TieredAssumption DEF Capacity, Streaming, Slots, Experts, None

(* The first of a set of experts is one of them.                           *)
LEMMA FirstMember ==
  ASSUME NEW S \in SUBSET Nat, S # {}
  PROVE  First(S) \in S
BY LeastNatural DEF First

(* A hit that becomes the most recent: nothing is bound or unbound.        *)
LEMMA TouchKeeps ==
  ASSUME NEW c \in TierTable, ConsistentTier(c), NEW e \in Resident(c)
  PROVE  /\ Touch(c, e) \in TierTable
         /\ ConsistentTier(Touch(c, e))
         /\ Touch(c, e).expert_to_slot = c.expert_to_slot
         /\ \A S : ComeLast(c.slot_lru, S)
                     => ComeLast(Touch(c, e).slot_lru, S \cup {c.expert_to_slot[e]})
<1> DEFINE q == c.slot_lru
           s == c.expert_to_slot[e]
           d == Touch(c, e)
<1>1. /\ q \in Seq(Slots) /\ Injective(q) /\ ToSet(q) = Slots /\ s \in ToSet(q)
  BY DEF TierTable, ConsistentTier, Resident
<1>2. /\ MoveToEnd(q, s) \in Seq(Slots)
      /\ Injective(MoveToEnd(q, s))
      /\ ToSet(MoveToEnd(q, s)) = ToSet(q)
      /\ \A S : ComeLast(q, S) => ComeLast(MoveToEnd(q, s), S \cup {s})
  BY <1>1, MoveToEndKeeps
<1>3. /\ d.expert_to_slot = c.expert_to_slot
      /\ d.slot_to_expert = c.slot_to_expert
      /\ d.slot_lru = MoveToEnd(q, s)
      /\ d \in TierTable
  BY <1>2 DEF Touch, TierTable
<1>4. ConsistentTier(d)
  BY <1>1, <1>2, <1>3 DEF ConsistentTier
<1> QED
  BY <1>2, <1>3, <1>4

(* Loading an expert that is not resident: only the expert of the oldest   *)
(* slot is unbound.                                                        *)
LEMMA TakeKeeps ==
  ASSUME HostTypeOK, NEW c \in TierTable, ConsistentTier(c),
         NEW e \in Experts, e \notin Resident(c)
  PROVE  LET s == Head(c.slot_lru)
         IN  /\ s \in Slots
             /\ Take(c, e) \in TierTable
             /\ ConsistentTier(Take(c, e))
             /\ Take(c, e).expert_to_slot[e] = s
             /\ \A x \in Experts \ {e} : Take(c, e).expert_to_slot[x]
                  = IF c.expert_to_slot[x] = s THEN None ELSE c.expert_to_slot[x]
             /\ \A S : ComeLast(c.slot_lru, S)
                         => ComeLast(Take(c, e).slot_lru, S \cup {s})
<1> DEFINE q == c.slot_lru
           s == Head(q)
           m == Append(Tail(q), s)
           d == Take(c, e)
<1>1. /\ Capacity \in Nat \ {0} /\ None \notin Slots /\ None \notin Experts
  BY CapacityType DEF HostTypeOK
<1>2. /\ q \in Seq(Slots) /\ Injective(q) /\ ToSet(q) = Slots /\ q # << >>
  <2>1. /\ q \in Seq(Slots) /\ Injective(q) /\ ToSet(q) = Slots
    BY DEF TierTable, ConsistentTier
  <2>2. 1 \in Slots
    BY <1>1 DEF Slots
  <2> QED
    BY <2>1, <2>2 DEF ToSet
<1>3. /\ s \in Slots
      /\ m \in Seq(Slots) /\ Injective(m) /\ ToSet(m) = Slots
      /\ \A S : ComeLast(q, S) => ComeLast(m, S \cup {s})
  BY <1>2, RotateKeeps, TailInjective
<1>4. /\ d.expert_to_slot = [x \in Experts |->
                               IF x = e THEN s
                               ELSE IF x = c.slot_to_expert[s] THEN None
                               ELSE c.expert_to_slot[x]]
      /\ d.slot_to_expert = [c.slot_to_expert EXCEPT ![s] = e]
      /\ d.slot_lru = m
      /\ DOMAIN d = {"expert_to_slot", "slot_to_expert", "slot_lru"}
  BY DEF Take
<1>5. d \in TierTable
  <2> HIDE DEF s, m
  <2>1. /\ c.expert_to_slot \in [Experts -> Slots \cup {None}]
        /\ c.slot_to_expert \in [Slots -> Experts \cup {None}]
    BY DEF TierTable
  <2> QED
    BY <1>3, <2>1 DEF Take, TierTable, s, m
<1> HIDE DEF s, m, d
<1>6. /\ c.expert_to_slot \in [Experts -> Slots \cup {None}]
      /\ c.slot_to_expert \in [Slots -> Experts \cup {None}]
      /\ c.expert_to_slot[e] = None
      /\ \A x \in Experts : c.expert_to_slot[x] # None
                              => c.slot_to_expert[c.expert_to_slot[x]] = x
      /\ \A t \in Slots : c.slot_to_expert[t] # None
                            => c.expert_to_slot[c.slot_to_expert[t]] = t
  BY DEF TierTable, ConsistentTier, Resident
<1>7. \A x \in Experts \ {e} : d.expert_to_slot[x]
         = IF c.expert_to_slot[x] = s THEN None ELSE c.expert_to_slot[x]
  BY <1>1, <1>3, <1>4, <1>6
<1>8. \A x \in Experts : d.expert_to_slot[x] # None
                           => d.slot_to_expert[d.expert_to_slot[x]] = x
  BY <1>1, <1>3, <1>4, <1>6, <1>7
<1>9. \A t \in Slots : d.slot_to_expert[t] # None
                         => d.expert_to_slot[d.slot_to_expert[t]] = t
  BY <1>1, <1>3, <1>4, <1>6
<1>10. ConsistentTier(d)
  BY <1>3, <1>4, <1>8, <1>9 DEF ConsistentTier
<1>11. d.expert_to_slot[e] = s
  BY <1>4
<1> QED
  BY <1>3, <1>4, <1>5, <1>7, <1>10, <1>11 DEF s, m, d

(* An empty table is consistent.                                           *)
LEMMA EmptyTierConsistent ==
  ASSUME option \in [placement : {"slots", "cpu"}, capacity : 0..MaxCapacity]
  PROVE  EmptyTier(Capacity) \in TierTable /\ ConsistentTier(EmptyTier(Capacity))
<1> DEFINE q == [i \in 1..Capacity |-> i]
<1>1. /\ Capacity \in Nat /\ None \notin Slots /\ None \notin Experts
  BY CapacityType
<1>2. q \in Seq(Slots) /\ Injective(q) /\ ToSet(q) = Slots
  BY <1>1, IsASeq DEF Slots, Injective, ToSet
<1> QED
  BY <1>1, <1>2 DEF EmptyTier, TierTable, ConsistentTier, Slots

(* The CPU cache stays within its bound and lists no expert twice.         *)
LEMMA CachedKeeps ==
  ASSUME NEW q \in Seq(Experts), Injective(q), Len(q) <= CpuCacheCap,
         NEW e \in Experts
  PROVE  /\ Cached(q, e) \in Seq(Experts)
         /\ Injective(Cached(q, e))
         /\ Len(Cached(q, e)) <= CpuCacheCap
<1> DEFINE more == Append(q, e)
<1>1. CASE e \in ToSet(q)
  BY <1>1 DEF Cached
<1>2. CASE e \notin ToSet(q)
  <2>1. /\ more \in Seq(Experts) /\ Injective(more)
        /\ Len(q) \in Nat /\ Len(more) = Len(q) + 1 /\ more # << >>
    BY <1>2, AppendInjectiveSeq, AppendProperties, LenProperties
  <2>2. /\ Tail(more) \in Seq(Experts) /\ Injective(Tail(more))
        /\ Len(Tail(more)) = Len(q)
    <3> HIDE DEF more
    <3>1. Tail(more) \in Seq(Experts) /\ Injective(Tail(more))
      BY <2>1, TailInjective
    <3>2. Len(Tail(more)) = Len(more) - 1
      BY <2>1, HeadTailProperties
    <3> QED
      BY <2>1, <3>1, <3>2
  <2>3. Cached(q, e) = IF Len(more) > CpuCacheCap THEN Tail(more) ELSE more
    BY <1>2 DEF Cached
  <2> HIDE DEF more
  <2> QED
    BY <2>1, <2>2, <2>3, TieredAssumption
<1> QED
  BY <1>1, <1>2

(***************************************************************************)
(* The steps                                                               *)
(***************************************************************************)

(* A step that leaves the slots alone and leads out of the two loops that  *)
(* serve a forward that fits.                                              *)
LEMMA ElsewhereKeeps ==
  ASSUME IInv, UNCHANGED <<option, tier, fifo>>, host' \in HostStates,
         host'.pc \notin {"touch", "admit"}, host'.todo \subseteq host'.need,
         FittingStaysResident', host.pc # "failed"
  PROVE  IInv'
<1>1. HostTypeOK'
  BY DEF IInv, HostTypeOK, TierTable, Slots, Capacity, Streaming
<1>2. TiersConsistent'
  BY DEF IInv, TiersConsistent, ConsistentTier, Slots, Capacity, Streaming
<1>3. ServedLast'
  BY DEF ServedLast
<1> QED
  BY <1>1, <1>2, <1>3 DEF IInv

(* One layer's table is replaced by a consistent one.                      *)
LEMMA OneTier ==
  ASSUME IInv, NEW d \in TierTable, ConsistentTier(d),
         UNCHANGED <<option, fifo>>, host.pc # "failed",
         tier' = [tier EXCEPT ![host.layer] = d], host' \in HostStates
  PROVE  /\ HostTypeOK' /\ TiersConsistent'
         /\ tier'[host.layer] = d /\ Capacity' = Capacity
<1>1. /\ host.layer \in Layers /\ tier \in [Layers -> TierTable]
  BY DEF IInv, HostTypeOK, HostStates
<1>2. Capacity' = Capacity /\ Slots' = Slots /\ TierTable' = TierTable
  BY DEF Slots, Capacity, Streaming, TierTable
<1>3. \A l \in Layers : tier'[l] = IF l = host.layer THEN d ELSE tier[l]
  BY <1>1
<1>4. HostTypeOK'
  BY <1>1, <1>2 DEF IInv, HostTypeOK
<1>5. \A l \in Layers : ConsistentTier(tier[l]) /\ Injective(fifo[l]) /\ Len(fifo[l]) <= CpuCacheCap
  BY DEF IInv, TiersConsistent
<1>6. \A l \in Layers : ConsistentTier(tier'[l])
  BY <1>3, <1>5
<1>7. TiersConsistent'
  BY <1>2, <1>5, <1>6 DEF TiersConsistent, ConsistentTier
<1> QED
  BY <1>1, <1>2, <1>4, <1>7

(* A hit is touched: its slot joins those that come last.                  *)
LEMMA TouchHitKeeps ==
  ASSUME IInv, NEW e \in Experts, TouchHit(e)
  PROVE  IInv'
<1> DEFINE c == tier[host.layer]
           d == Touch(c, e)
<1>1. /\ host \in HostStates /\ host.layer \in Layers /\ c \in TierTable
      /\ host.todo \in SUBSET Experts /\ host.need \in SUBSET Experts
  BY DEF IInv, HostTypeOK, HostStates
<1>2. /\ host.pc = "touch" /\ host.todo # {} /\ e = First(host.todo)
      /\ tier' = [tier EXCEPT ![host.layer] = d]
      /\ host' = [host EXCEPT !.todo = @ \ {e}]
      /\ UNCHANGED <<option, fifo>>
  BY DEF TouchHit
<1>3. /\ host.todo \subseteq host.need /\ host.todo \subseteq Resident(c)
      /\ Fits /\ ComeLast(c.slot_lru, SlotsOf(c, Kept))
      /\ ConsistentTier(c)
  BY <1>1, <1>2 DEF IInv, ServedLast, TiersConsistent
<1>4. e \in host.todo
  BY <1>1, <1>2, FirstMember DEF Experts
<1>5. /\ d \in TierTable /\ ConsistentTier(d)
      /\ d.expert_to_slot = c.expert_to_slot
      /\ ComeLast(d.slot_lru, SlotsOf(c, Kept) \cup {c.expert_to_slot[e]})
  BY <1>1, <1>3, <1>4, TouchKeeps
<1>6. /\ host' \in HostStates /\ host'.pc = "touch" /\ host'.layer = host.layer
      /\ host'.need = host.need /\ host'.todo = host.todo \ {e}
  BY <1>1, <1>2 DEF HostStates
<1> HIDE DEF d
<1>7. /\ HostTypeOK' /\ TiersConsistent'
      /\ tier'[host.layer] = d /\ Capacity' = Capacity
  BY <1>2, <1>5, <1>6, OneTier
<1>8. Resident(d) = Resident(c)
  BY <1>5 DEF Resident
<1>9. Kept' = Kept \cup {e} /\ Kept \subseteq Resident(c)
  BY <1>2, <1>3, <1>4, <1>6, <1>7, <1>8 DEF Kept
<1>10. SlotsOf(d, Kept') = SlotsOf(c, Kept) \cup {c.expert_to_slot[e]}
  BY <1>5, <1>9 DEF SlotsOf
<1>11. ServedLast'
  <2>1. Fits'
    BY <1>3, <1>6, <1>7 DEF Fits
  <2>2. Kept' \subseteq Resident(d)
    BY <1>3, <1>4, <1>8, <1>9
  <2>3. ComeLast(d.slot_lru, SlotsOf(d, Kept'))
    BY <1>5, <1>10
  <2> QED
    BY <1>3, <1>6, <1>7, <1>8, <2>1, <2>2, <2>3 DEF ServedLast
<1>12. FittingStaysResident'
  BY <1>6 DEF FittingStaysResident
<1> QED
  BY <1>7, <1>11, <1>12 DEF IInv

(* A missing expert is loaded: were the oldest slot one of those the       *)
(* forward has handled, all the slots would be, but they are fewer than    *)
(* the experts of the forward, which fit.                                  *)
LEMMA AdmitKeeps ==
  ASSUME IInv, NEW e \in Experts, Admit(e)
  PROVE  IInv'
<1> DEFINE c == tier[host.layer]
           s == Head(c.slot_lru)
           d == Take(c, e)
<1>1. /\ host \in HostStates /\ host.layer \in Layers /\ c \in TierTable
      /\ host.todo \in SUBSET Experts /\ host.need \in SUBSET Experts
      /\ HostTypeOK
  BY DEF IInv, HostTypeOK, HostStates
<1>2. /\ host.pc = "admit" /\ host.todo # {} /\ e = First(host.todo)
      /\ tier' = [tier EXCEPT ![host.layer] = d]
      /\ host' = [host EXCEPT !.todo = @ \ {e}]
      /\ UNCHANGED <<option, fifo>>
  BY DEF Admit
<1>3. /\ host.todo \subseteq host.need /\ host.todo \cap Resident(c) = {}
      /\ Fits /\ Kept \subseteq Resident(c)
      /\ ComeLast(c.slot_lru, SlotsOf(c, Kept))
      /\ ConsistentTier(c)
      /\ Kept = host.need \ host.todo
  BY <1>1, <1>2 DEF IInv, ServedLast, TiersConsistent, Kept
<1>4. e \in host.todo /\ e \notin Resident(c) /\ e \notin Kept
  BY <1>1, <1>2, <1>3, FirstMember DEF Experts
<1>5. /\ s \in Slots /\ d \in TierTable /\ ConsistentTier(d)
      /\ d.expert_to_slot[e] = s
      /\ \A x \in Experts \ {e} : d.expert_to_slot[x]
           = IF c.expert_to_slot[x] = s THEN None ELSE c.expert_to_slot[x]
      /\ ComeLast(d.slot_lru, SlotsOf(c, Kept) \cup {s})
  BY <1>1, <1>3, <1>4, TakeKeeps
<1>6. /\ Capacity \in Nat \ {0} /\ None \notin Slots /\ None \notin Experts
  BY <1>1, CapacityType DEF HostTypeOK
<1>7. s \notin SlotsOf(c, Kept)
  <2> SUFFICES ASSUME s \in SlotsOf(c, Kept) PROVE FALSE
    OBVIOUS
  <2>1. Slots \subseteq SlotsOf(c, Kept)
    <3>1. /\ c.slot_lru \in Seq(Slots) /\ ToSet(c.slot_lru) = Slots
          /\ 1 \in Slots
      BY <1>1, <1>3, <1>6 DEF TierTable, ConsistentTier, Slots
    <3>2. c.slot_lru # << >>
      BY <3>1 DEF ToSet
    <3> QED
      BY <1>3, <3>1, <3>2, LastFromFirst
  <2>2. /\ IsFiniteSet(host.need) /\ IsFiniteSet(Kept)
        /\ Cardinality(Kept) < Cardinality(host.need)
    <3>1. IsFiniteSet(Experts)
      <4>1. 1 \in Int /\ NumExperts \in Int
        BY TieredAssumption
      <4> HIDE DEF IInv, Admit
      <4> QED
        BY ONLY <4>1, FS_Interval DEF Experts
    <3>2. IsFiniteSet(host.need)
      BY <1>1, <3>1, FS_Subset
    <3>3. Kept \subseteq host.need /\ Kept # host.need
      BY <1>3, <1>4
    <3>4. /\ IsFiniteSet(Kept)
          /\ Cardinality(Kept) <= Cardinality(host.need)
          /\ Cardinality(Kept) # Cardinality(host.need)
      BY <3>2, <3>3, FS_Subset
    <3>5. Cardinality(Kept) \in Nat /\ Cardinality(host.need) \in Nat
      BY <3>2, <3>4, FS_CardinalityType
    <3> QED
      BY <3>2, <3>4, <3>5
  <2>3. IsFiniteSet(Slots) /\ Cardinality(Slots) = Capacity
    BY <1>6, FS_Interval DEF Slots
  <2> DEFINE f == [t \in Slots |-> CHOOSE x \in Kept : c.expert_to_slot[x] = t]
  <2>4. \A t \in Slots : f[t] \in Kept /\ c.expert_to_slot[f[t]] = t
    BY <2>1 DEF SlotsOf
  <2>5. f \in [Slots -> Kept]
    BY <2>4
  <2>6. Cardinality(Kept) < Cardinality(Slots)
    <3>1. Cardinality(Kept) \in Nat /\ Cardinality(host.need) \in Nat
      BY <2>2, FS_CardinalityType
    <3> QED
      BY <1>3, <1>6, <2>2, <2>3, <3>1 DEF Fits
  <2> HIDE DEF f
  <2>7. \E t, u \in Slots : t # u /\ f[t] = f[u]
    BY <2>2, <2>3, <2>5, <2>6, FS_PigeonHole
  <2> QED
    BY <2>4, <2>7
<1>8. /\ host' \in HostStates /\ host'.pc = "admit" /\ host'.layer = host.layer
      /\ host'.need = host.need /\ host'.todo = host.todo \ {e}
  BY <1>1, <1>2 DEF HostStates
<1> HIDE DEF d, s
<1>9. /\ HostTypeOK' /\ TiersConsistent'
      /\ tier'[host.layer] = d /\ Capacity' = Capacity
  BY <1>2, <1>5, <1>8, OneTier
<1>10. Kept' = Kept \cup {e} /\ Kept \subseteq Experts
  BY <1>1, <1>3, <1>4, <1>8 DEF Kept
<1>11. \A x \in Kept : d.expert_to_slot[x] = c.expert_to_slot[x]
  BY <1>4, <1>5, <1>7, <1>10 DEF SlotsOf
<1>12. /\ Kept' \subseteq Resident(d)
       /\ Resident(d) \subseteq Resident(c) \cup {e}
  BY <1>3, <1>5, <1>6, <1>10, <1>11 DEF Resident
<1>13. SlotsOf(d, Kept') = SlotsOf(c, Kept) \cup {s}
  BY <1>5, <1>10, <1>11 DEF SlotsOf
<1>14. ServedLast'
  <2>1. Fits'
    BY <1>3, <1>8, <1>9 DEF Fits
  <2>2. ComeLast(d.slot_lru, SlotsOf(d, Kept'))
    BY <1>5, <1>13
  <2>3. host'.todo \subseteq host'.need /\ host'.todo \cap Resident(d) = {}
    BY <1>3, <1>8, <1>12
  <2> QED
    BY <1>8, <1>9, <1>12, <2>1, <2>2, <2>3 DEF ServedLast
<1>15. FittingStaysResident'
  <2>1. host'.need \ host'.todo \subseteq Resident(d)
    BY <1>3, <1>4, <1>8, <1>10, <1>12
  <2> QED
    BY <1>8, <1>9, <2>1 DEF FittingStaysResident
<1> QED
  BY <1>9, <1>14, <1>15 DEF IInv

(* What both loops of the dispatch have in common: the tables change in a  *)
(* consistent way, and one expert less is left.                            *)
LEMMA DispatchKeeps ==
  ASSUME IInv, NEW d \in TierTable, ConsistentTier(d),
         UNCHANGED <<option, fifo>>, host.pc = "dispatch",
         tier' = [tier EXCEPT ![host.layer] = d],
         host' \in HostStates, host'.pc = "dispatch", host'.layer = host.layer,
         host'.need = host.need, host'.todo \subseteq host.todo,
         option.placement = "slots" /\ Fits => host.need \subseteq Resident(d)
  PROVE  IInv'
<1>1. /\ HostTypeOK' /\ TiersConsistent'
      /\ tier'[host.layer] = d /\ Capacity' = Capacity
  BY OneTier
<1>2. ServedLast'
  BY DEF IInv, ServedLast
<1>3. FittingStaysResident'
  BY <1>1 DEF FittingStaysResident, Fits
<1> QED
  BY <1>1, <1>2, <1>3 DEF IInv

(* Every step keeps the invariant.                                         *)
LEMMA NextKeeps ==
  ASSUME IInv, [Next]_tieredVars
  PROVE  IInv'
<1>1. /\ option \in [placement : {"slots", "cpu"}, capacity : 0..MaxCapacity]
      /\ tier \in [Layers -> TierTable] /\ fifo \in [Layers -> Seq(Experts)]
      /\ host \in HostStates /\ host.layer \in Layers
      /\ host.todo \in SUBSET Experts /\ host.need \in SUBSET Experts
      /\ host.todo \subseteq host.need
      /\ HostTypeOK /\ TiersConsistent /\ FittingStaysResident /\ ServedLast
  BY DEF IInv, HostTypeOK, HostStates, ServedLast
<1> DEFINE c == tier[host.layer]
<1>2. c \in TierTable /\ (host.pc # "failed" => ConsistentTier(c))
  BY <1>1 DEF TiersConsistent
<1>3. ASSUME NEW n \in Nat \ {0}, Call(n) PROVE IInv'
  <2>1. /\ host.pc = "idle" /\ host' = [Idle EXCEPT !.pc = "route", !.rows = n]
        /\ UNCHANGED <<option, tier, fifo>>
    BY <1>3 DEF Call
  <2>2. 1 \in Layers
    BY TieredAssumption DEF Layers
  <2>3. host' \in HostStates /\ host'.pc = "route" /\ host'.todo \subseteq host'.need
    BY <2>1, <2>2 DEF HostStates, Idle
  <2>4. FittingStaysResident'
    BY <2>3 DEF FittingStaysResident
  <2> QED
    BY <2>1, <2>3, <2>4, ElsewhereKeeps
<1>4. ASSUME NEW need \in SUBSET Experts, Route(need) PROVE IInv'
  <2> DEFINE fits == Cardinality(need) <= Capacity
             hits == need \cap Resident(c)
  <2>1. /\ host.pc = "route" /\ UNCHANGED <<option, tier, fifo>>
        /\ host' = IF option.placement = "cpu"
                     THEN [host EXCEPT !.pc = "cpu", !.need = need, !.todo = need]
                   ELSE IF fits
                     THEN [host EXCEPT !.pc = "touch", !.need = need, !.todo = hits]
                   ELSE [host EXCEPT !.pc = "count", !.need = need, !.todo = {}]
    BY <1>4 DEF Route
  <2>2. Capacity' = Capacity
    BY <2>1 DEF Capacity, Streaming
  <2>3. CASE option.placement = "cpu"
    <3>1. host' = [host EXCEPT !.pc = "cpu", !.need = need, !.todo = need]
      BY <2>1, <2>3
    <3>2. host' \in HostStates /\ host'.pc = "cpu" /\ host'.todo = host'.need
      BY <1>1, <3>1 DEF HostStates
    <3>3. FittingStaysResident'
      BY <3>2 DEF FittingStaysResident
    <3> QED
      BY <2>1, <3>2, <3>3, ElsewhereKeeps
  <2>4. CASE option.placement # "cpu" /\ fits
    <3>1. host' = [host EXCEPT !.pc = "touch", !.need = need, !.todo = hits]
      BY <2>1, <2>4
    <3>2. hits \in SUBSET Experts
      OBVIOUS
    <3>3. /\ host' \in HostStates /\ host'.pc = "touch" /\ host'.layer = host.layer
          /\ host'.need = need /\ host'.todo = hits
      BY <1>1, <3>1, <3>2 DEF HostStates
    <3>4. Kept' = {} /\ SlotsOf(c, {}) = {}
      BY <2>1, <3>3 DEF Kept, SlotsOf
    <3>5. ServedLast'
      <4>1. ComeLast(c.slot_lru, SlotsOf(c, {}))
        BY <3>4 DEF ComeLast
      <4>2. Fits'
        BY <2>2, <2>4, <3>3 DEF Fits
      <4> QED
        BY <2>1, <3>3, <3>4, <4>1, <4>2 DEF ServedLast
    <3>6. FittingStaysResident'
      BY <3>3 DEF FittingStaysResident
    <3>7. HostTypeOK' /\ TiersConsistent'
      BY <1>1, <2>1, <3>3 DEF HostTypeOK, TierTable, TiersConsistent,
         ConsistentTier, Slots, Capacity, Streaming
    <3> QED
      BY <3>5, <3>6, <3>7 DEF IInv
  <2>5. CASE option.placement # "cpu" /\ ~ fits
    <3>1. host' = [host EXCEPT !.pc = "count", !.need = need, !.todo = {}]
      BY <2>1, <2>5
    <3>2. /\ host' \in HostStates /\ host'.pc = "count"
          /\ host'.todo = {} /\ host'.need = need
      BY <1>1, <3>1 DEF HostStates
    <3>3. FittingStaysResident'
      BY <2>2, <2>5, <3>2 DEF FittingStaysResident, Fits
    <3> QED
      BY <2>1, <3>2, <3>3, ElsewhereKeeps
  <2> QED
    BY <2>3, <2>4, <2>5
<1>5. ASSUME NEW e \in Experts, TouchHit(e) PROVE IInv'
  BY <1>5, TouchHitKeeps
<1>6. ASSUME NEW e \in Experts, Admit(e) PROVE IInv'
  BY <1>6, AdmitKeeps
<1>7. ASSUME NEW e \in Experts, RunResident(e) PROVE IInv'
  <2> DEFINE d == IF Fits THEN c ELSE Touch(c, e)
  <2>1. /\ host.pc = "dispatch" /\ UNCHANGED <<option, fifo>>
        /\ e \in Resident(c)
        /\ tier' = IF Fits THEN tier ELSE [tier EXCEPT ![host.layer] = Touch(c, e)]
        /\ host' = [host EXCEPT !.todo = @ \ {e}]
    BY <1>7 DEF RunResident
  <2>2. tier' = [tier EXCEPT ![host.layer] = d]
    BY <1>1, <2>1
  <2>3. d \in TierTable /\ ConsistentTier(d) /\ Resident(d) = Resident(c)
    BY <1>2, <2>1, TouchKeeps DEF Resident
  <2>4. /\ host' \in HostStates /\ host'.pc = "dispatch"
        /\ host'.layer = host.layer /\ host'.need = host.need
        /\ host'.todo \subseteq host.todo
    BY <1>1, <2>1 DEF HostStates
  <2> HIDE DEF d
  <2>5. option.placement = "slots" /\ Fits => host.need \subseteq Resident(d)
    BY <1>1, <2>1, <2>3 DEF FittingStaysResident
  <2> QED
    BY <2>1, <2>2, <2>3, <2>4, <2>5, DispatchKeeps
<1>8. ASSUME NEW e \in Experts, LoadAndRun(e) PROVE IInv'
  <2> DEFINE d == Take(c, e)
  <2>1. /\ host.pc = "dispatch" /\ UNCHANGED <<option, fifo>>
        /\ host.todo # {} /\ e = First(host.todo)
        /\ e \notin Resident(c)
        /\ tier' = [tier EXCEPT ![host.layer] = d]
        /\ host' = [host EXCEPT !.todo = @ \ {e}]
    BY <1>8 DEF LoadAndRun
  <2>2. d \in TierTable /\ ConsistentTier(d)
    BY <1>1, <1>2, <2>1, TakeKeeps
  <2>3. /\ host' \in HostStates /\ host'.pc = "dispatch"
        /\ host'.layer = host.layer /\ host'.need = host.need
        /\ host'.todo \subseteq host.todo
    BY <1>1, <2>1 DEF HostStates
  <2>4. ~ (option.placement = "slots" /\ Fits)
    <3>1. e \in host.todo
      BY <1>1, <2>1, FirstMember DEF Experts
    <3> QED
      BY <1>1, <2>1, <3>1 DEF FittingStaysResident
  <2> HIDE DEF d
  <2> QED
    BY <2>1, <2>2, <2>3, <2>4, DispatchKeeps
<1>9. ASSUME NEW e \in Experts, RunOnCpu(e) PROVE IInv'
  <2>1. /\ host.pc = "cpu" /\ UNCHANGED <<option, tier>> /\ e \in host.todo
        /\ fifo' = [fifo EXCEPT ![host.layer] = Cached(@, e)]
        /\ host' = [host EXCEPT !.todo = @ \ {e}]
    BY <1>9 DEF RunOnCpu
  <2>2. /\ fifo[host.layer] \in Seq(Experts) /\ Injective(fifo[host.layer])
        /\ Len(fifo[host.layer]) <= CpuCacheCap
    BY <1>1, <2>1 DEF TiersConsistent
  <2>3. /\ Cached(fifo[host.layer], e) \in Seq(Experts)
        /\ Injective(Cached(fifo[host.layer], e))
        /\ Len(Cached(fifo[host.layer], e)) <= CpuCacheCap
    BY <2>2, CachedKeeps
  <2>4. /\ host' \in HostStates /\ host'.pc = "cpu" /\ host'.need = host.need
        /\ host'.todo \subseteq host'.need
    BY <1>1, <2>1 DEF HostStates
  <2>5. HostTypeOK'
    BY <1>1, <2>1, <2>3, <2>4 DEF HostTypeOK, TierTable, Slots, Capacity, Streaming
  <2>6. TiersConsistent'
    BY <1>1, <2>1, <2>3 DEF TiersConsistent, ConsistentTier, Slots, Capacity, Streaming
  <2>7. FittingStaysResident' /\ ServedLast'
    BY <2>4 DEF FittingStaysResident, ServedLast
  <2> QED
    BY <2>5, <2>6, <2>7 DEF IInv
<1>10. ASSUME FindMissing PROVE IInv'
  <2> DEFINE missing == host.need \ Resident(c)
  <2>1. /\ host.pc = "touch" /\ host.todo = {} /\ UNCHANGED <<option, tier, fifo>>
        /\ host' = [host EXCEPT !.pc = "admit", !.todo = missing]
    BY <1>10 DEF FindMissing
  <2>2. missing \in SUBSET Experts
    BY <1>1
  <2>3. /\ host' \in HostStates /\ host'.pc = "admit" /\ host'.layer = host.layer
        /\ host'.need = host.need /\ host'.todo = missing
    BY <1>1, <2>1, <2>2 DEF HostStates
  <2>4. Kept' = Kept
    BY <2>1, <2>3 DEF Kept
  <2>5. Fits' /\ Capacity' = Capacity
    BY <1>1, <2>1, <2>3 DEF ServedLast, Fits, Capacity, Streaming
  <2>6. ServedLast'
    BY <1>1, <2>1, <2>3, <2>4, <2>5 DEF ServedLast
  <2>7. FittingStaysResident'
    BY <2>1, <2>3 DEF FittingStaysResident
  <2>8. HostTypeOK' /\ TiersConsistent'
    BY <1>1, <2>1, <2>3 DEF HostTypeOK, TierTable, TiersConsistent,
       ConsistentTier, Slots, Capacity, Streaming
  <2> QED
    BY <2>6, <2>7, <2>8 DEF IInv
<1>11. ASSUME Admitted PROVE IInv'
  <2>1. /\ host.pc = "admit" /\ host.todo = {} /\ UNCHANGED <<option, tier, fifo>>
        /\ host' = [host EXCEPT !.pc = "count"]
    BY <1>11 DEF Admitted
  <2>2. /\ host' \in HostStates /\ host'.pc = "count" /\ host'.layer = host.layer
        /\ host'.need = host.need /\ host'.todo = {}
    BY <1>1, <2>1 DEF HostStates
  <2>3. host.need \subseteq Resident(c)
    BY <1>1, <2>1 DEF ServedLast, Kept
  <2>4. FittingStaysResident'
    BY <2>1, <2>2, <2>3 DEF FittingStaysResident
  <2> QED
    BY <2>1, <2>2, <2>4, ElsewhereKeeps
<1>12. ASSUME CountTokens PROVE IInv'
  <2>1. /\ host.pc = "count" /\ UNCHANGED <<option, tier, fifo>>
        /\ host' = [host EXCEPT !.pc = "dispatch", !.todo = host.need]
    BY <1>12 DEF CountTokens
  <2>2. /\ host' \in HostStates /\ host'.pc = "dispatch" /\ host'.layer = host.layer
        /\ host'.need = host.need /\ host'.todo = host.need
    BY <1>1, <2>1 DEF HostStates
  <2>3. FittingStaysResident'
    BY <1>1, <2>1, <2>2 DEF FittingStaysResident, Fits, Capacity, Streaming
  <2> QED
    BY <2>1, <2>2, <2>3, ElsewhereKeeps
<1>13. ASSUME EndLayer PROVE IInv'
  <2> DEFINE d == IF Streaming /\ host.pc = "dispatch" THEN EmptyTier(Capacity) ELSE c
  <2>1. /\ host.pc \in {"dispatch", "cpu"} /\ UNCHANGED <<option, fifo>>
        /\ tier' = IF Streaming /\ host.pc = "dispatch"
                     THEN [tier EXCEPT ![host.layer] = EmptyTier(Capacity)] ELSE tier
        /\ host' = IF host.layer < NumLayers
                     THEN [host EXCEPT !.pc = "route", !.layer = @ + 1,
                                       !.need = {}, !.todo = {}]
                     ELSE Idle
    BY <1>13 DEF EndLayer
  <2>2. tier' = [tier EXCEPT ![host.layer] = d]
    BY <1>1, <2>1
  <2>3. d \in TierTable /\ ConsistentTier(d)
    BY <1>1, <1>2, <2>1, EmptyTierConsistent
  <2>4. host' \in HostStates /\ host'.pc \in {"route", "idle"} /\ host'.todo = {}
    <3>1. 1 \in Layers /\ (host.layer < NumLayers => host.layer + 1 \in Layers)
      BY <1>1, TieredAssumption DEF Layers
    <3> QED
      BY <1>1, <2>1, <3>1 DEF HostStates, Idle
  <2> HIDE DEF d
  <2>5. HostTypeOK' /\ TiersConsistent'
    BY <2>1, <2>2, <2>3, <2>4, OneTier
  <2>6. FittingStaysResident' /\ ServedLast'
    BY <2>4 DEF FittingStaysResident, ServedLast
  <2> QED
    BY <2>5, <2>6 DEF IInv
<1>14. ASSUME ReadFails PROVE IInv'
  <2>1. /\ host' = [host EXCEPT !.pc = "failed"] /\ UNCHANGED <<option, fifo>>
        /\ \/ tier' = [tier EXCEPT ![host.layer].slot_lru = Tail(@)] /\ host.pc # "cpu"
           \/ tier' = tier
        /\ host.pc # "failed"
    BY <1>14 DEF ReadFails
  <2>2. host' \in HostStates /\ host'.pc = "failed" /\ host'.todo \subseteq host'.need
    BY <1>1, <2>1 DEF HostStates
  <2>3. tier' \in [Layers -> TierTable]
    <3>1. CASE tier' = [tier EXCEPT ![host.layer].slot_lru = Tail(@)]
      <4>1. c.slot_lru \in Seq(Slots) /\ c.slot_lru # << >>
        <5>1. c.slot_lru \in Seq(Slots) /\ ToSet(c.slot_lru) = Slots
          BY <1>2, <2>1 DEF TierTable, ConsistentTier
        <5>2. 1 \in Slots
          BY <1>1, CapacityType DEF Slots
        <5> QED
          BY <5>1, <5>2 DEF ToSet
      <4>2. Tail(c.slot_lru) \in Seq(Slots)
        BY <4>1, HeadTailProperties
      <4>3. [c EXCEPT !.slot_lru = Tail(@)] \in TierTable
        BY <1>2, <4>2 DEF TierTable
      <4> QED
        BY <1>1, <3>1, <4>3
    <3> QED
      BY <1>1, <2>1, <3>1
  <2>4. HostTypeOK'
    BY <1>1, <2>1, <2>2, <2>3 DEF HostTypeOK, TierTable, Slots, Capacity, Streaming
  <2>5. TiersConsistent' /\ FittingStaysResident' /\ ServedLast'
    BY <2>2 DEF TiersConsistent, FittingStaysResident, ServedLast
  <2> QED
    BY <2>4, <2>5 DEF IInv
<1>15. ASSUME UNCHANGED <<option, tier, fifo, host>> PROVE IInv'
  BY <1>15 DEF IInv, HostTypeOK, TierTable, TiersConsistent, ConsistentTier,
     FittingStaysResident, ServedLast, Kept, Fits, Slots, Capacity, Streaming
<1>16. ASSUME CopyWeights \/ Compute \/ UNCHANGED tieredVars PROVE IInv'
  BY <1>15, <1>16 DEF CopyWeights, Compute, tieredVars
<1> QED
  BY <1>3, <1>4, <1>5, <1>6, <1>7, <1>8, <1>9, <1>10, <1>11, <1>12, <1>13,
     <1>14, <1>16 DEF Next, Forward

(* The invariant holds at the start.                                       *)
LEMMA InitHolds == Init => IInv
<1> SUFFICES ASSUME Init PROVE IInv
  OBVIOUS
<1>1. /\ option \in [placement : {"slots", "cpu"}, capacity : 0..MaxCapacity]
      /\ tier = [l \in Layers |-> EmptyTier(Capacity)]
      /\ fifo = [l \in Layers |-> << >>]
      /\ host = Idle
  BY DEF Init
<1>2. Idle \in HostStates /\ Idle.pc = "idle" /\ Idle.todo = {}
  BY TieredAssumption DEF Idle, HostStates, Layers
<1>3. EmptyTier(Capacity) \in TierTable /\ ConsistentTier(EmptyTier(Capacity))
  BY <1>1, EmptyTierConsistent
<1>4. HostTypeOK
  BY <1>1, <1>2, <1>3 DEF HostTypeOK
<1>5. TiersConsistent
  <2>1. Injective(<< >>) /\ Len(<< >>) <= CpuCacheCap
    BY TieredAssumption DEF Injective
  <2> QED
    BY <1>1, <1>3, <2>1 DEF TiersConsistent
<1>6. FittingStaysResident /\ ServedLast
  BY <1>1, <1>2 DEF FittingStaysResident, ServedLast
<1> QED
  BY <1>4, <1>5, <1>6 DEF IInv

(***************************************************************************)
(* Theorems                                                                *)
(***************************************************************************)

(* The inductive invariant holds in every reachable state.                 *)
THEOREM Invariance == Spec => []IInv
<1>1. IInv /\ [Next]_tieredVars => IInv'
  BY NextKeeps
<1> QED
  BY InitHolds, <1>1, PTL DEF Spec

(* Until a read fails, the dicts of every layer are inverse to each other  *)
(* and its list holds every slot once (placement.py:153-156, 201-205).     *)
THEOREM TiersAlwaysConsistent == Spec => []TiersConsistent
<1>1. IInv => TiersConsistent
  BY DEF IInv
<1> QED
  BY Invariance, <1>1, PTL

(* A forward whose experts fit keeps every one of them resident until its  *)
(* last loop has run them, whatever the capacity and whatever was loaded   *)
(* before (placement.py:267-304).                                          *)
THEOREM FittingAlwaysResident == Spec => []FittingStaysResident
<1>1. IInv => FittingStaysResident
  BY DEF IInv
<1> QED
  BY Invariance, <1>1, PTL

(***************************************************************************)
(* Counting the marks of a stream                                          *)
(***************************************************************************)

(* How often mark stands behind place i of a sequence.                     *)
After(q, i, mark) == Cardinality({k \in DOMAIN q : k > i /\ q[k] = mark})

(* Such counts are numbers, at most that of all marks.                     *)
LEMMA AfterType ==
  ASSUME NEW S, NEW q \in Seq(S), NEW mark, NEW i \in Nat
  PROVE  /\ IsFiniteSet({k \in DOMAIN q : k > i /\ q[k] = mark})
         /\ After(q, i, mark) \in Nat /\ Count(q, mark) \in Nat
         /\ Count(q, mark) = After(q, 0, mark)
         /\ After(q, i, mark) <= Count(q, mark)
<1> DEFINE A == {k \in DOMAIN q : k > i /\ q[k] = mark}
           all == {k \in DOMAIN q : q[k] = mark}
<1>1. IsFiniteSet(DOMAIN q) /\ DOMAIN q = 1..Len(q)
  BY FS_Interval
<1>2. IsFiniteSet(all) /\ Cardinality(all) \in Nat
  BY <1>1, FS_Subset, FS_CardinalityType
<1>3. IsFiniteSet(A) /\ Cardinality(A) \in Nat /\ Cardinality(A) <= Cardinality(all)
  BY <1>2, FS_Subset, FS_CardinalityType
<1>4. {k \in DOMAIN q : k > 0 /\ q[k] = mark} = all
  BY <1>1
<1> QED
  BY <1>2, <1>3, <1>4 DEF After, Count

(* What is appended stands behind everything else.                         *)
LEMMA AfterAppend ==
  ASSUME NEW S, NEW q \in Seq(S), NEW x \in S, NEW mark
  PROVE  /\ x = mark =>
              /\ Count(Append(q, x), mark) = Count(q, mark) + 1
              /\ \A i \in 0..Len(q) :
                   After(Append(q, x), i, mark) = After(q, i, mark) + 1
         /\ x # mark =>
              /\ Count(Append(q, x), mark) = Count(q, mark)
              /\ \A i \in 0..Len(q) :
                   After(Append(q, x), i, mark) = After(q, i, mark)
<1> DEFINE n == Len(q)
           r == Append(q, x)
<1>1. /\ n \in Nat /\ DOMAIN q = 1..n /\ DOMAIN r = 1..(n + 1)
      /\ r \in Seq(S) /\ r[n + 1] = x /\ \A k \in 1..n : r[k] = q[k]
  BY AppendProperties, LenProperties
<1>5. \A j \in Nat : /\ IsFiniteSet({k \in DOMAIN q : k > j /\ q[k] = mark})
                     /\ After(q, j, mark) \in Nat
  BY AfterType
<1> HIDE DEF n, r
<1>2. ASSUME NEW j \in 0..n
      PROVE  /\ x = mark => After(r, j, mark) = After(q, j, mark) + 1
             /\ x # mark => After(r, j, mark) = After(q, j, mark)
  <2> DEFINE A == {k \in DOMAIN q : k > j /\ q[k] = mark}
             B == {k \in DOMAIN r : k > j /\ r[k] = mark}
  <2>1. IsFiniteSet(A) /\ n + 1 \notin A
    <3>1. j \in Nat
      BY <1>1
    <3>2. IsFiniteSet(A)
      BY <1>5, <3>1
    <3> QED
      BY <1>1, <3>2
  <2>2. CASE x = mark
    <3>1. B = A \cup {n + 1}
      BY <1>1, <2>2
    <3>2. Cardinality(B) = Cardinality(A) + 1
      BY <2>1, <3>1, FS_AddElement
    <3> QED
      BY <2>2, <3>2 DEF After
  <2>3. CASE x # mark
    <3>1. B = A
      BY <1>1, <2>3
    <3>2. After(q, j, mark) = Cardinality(A) /\ After(r, j, mark) = Cardinality(B)
      BY DEF After
    <3>3. Cardinality(A) \in Nat
      BY <2>1, FS_CardinalityType
    <3> HIDE DEF A, B
    <3> QED
      BY <2>3, <3>1, <3>2, <3>3
  <2> QED
    BY <2>2, <2>3
<1>3. Count(r, mark) = After(r, 0, mark) /\ Count(q, mark) = After(q, 0, mark)
  BY <1>1, AfterType
<1>4. 0 \in 0..n
  BY <1>1
<1> QED
  BY <1>2, <1>3, <1>4 DEF n, r

(* Taking off the first operation changes nothing behind it.               *)
LEMMA AfterTail ==
  ASSUME NEW S, NEW q \in Seq(S), q # << >>, NEW mark
  PROVE  /\ \A i \in Nat : After(Tail(q), i, mark) = After(q, i + 1, mark)
         /\ Head(q) = mark => Count(q, mark) = Count(Tail(q), mark) + 1
         /\ Head(q) # mark => Count(q, mark) = Count(Tail(q), mark)
<1> DEFINE n == Len(q)
           t == Tail(q)
<1>1. /\ n \in Nat \ {0} /\ DOMAIN q = 1..n /\ DOMAIN t = 1..(n - 1)
      /\ t \in Seq(S) /\ \A k \in 1..(n - 1) : t[k] = q[k + 1]
      /\ Head(q) = q[1]
  OBVIOUS
<1> HIDE DEF n, t
<1>2. ASSUME NEW i \in Nat
      PROVE  After(t, i, mark) = After(q, i + 1, mark)
  <2> DEFINE A == {k \in DOMAIN t : k > i /\ t[k] = mark}
             B == {k \in DOMAIN q : k > i + 1 /\ q[k] = mark}
             f == [k \in A |-> k + 1]
  <2>1. IsFiniteSet(A)
    BY <1>1, AfterType
  <2>2. \A k \in A : k + 1 \in B /\ k \in Nat
    BY <1>1
  <2>3. \A k \in B : k - 1 \in A /\ (k - 1) + 1 = k
    BY <1>1
  <2> HIDE DEF A, B
  <2>4. f \in Bijection(A, B)
    <3>1. f \in Injection(A, B)
      BY <2>2 DEF Injection, IsInjective
    <3>2. f \in Surjection(A, B)
      BY <2>2, <2>3 DEF Surjection
    <3> QED
      BY <3>1, <3>2 DEF Bijection
  <2>5. Cardinality(A) = Cardinality(B)
    BY <2>1, <2>4, FS_Bijection DEF ExistsBijection
  <2> QED
    BY <2>5 DEF After, A, B
<1>3. Count(t, mark) = After(t, 0, mark) /\ Count(q, mark) = After(q, 0, mark)
  BY <1>1, AfterType
<1>4. /\ q[1] = mark => After(q, 0, mark) = After(q, 1, mark) + 1
      /\ q[1] # mark => After(q, 0, mark) = After(q, 1, mark)
  <2> DEFINE A == {k \in DOMAIN q : k > 1 /\ q[k] = mark}
             B == {k \in DOMAIN q : k > 0 /\ q[k] = mark}
  <2>1. IsFiniteSet(A) /\ 1 \notin A /\ Cardinality(A) \in Nat
    <3>1. IsFiniteSet(A)
      BY AfterType
    <3> QED
      BY <3>1, FS_CardinalityType
  <2>2. CASE q[1] = mark
    <3>1. B = A \cup {1}
      BY <1>1, <2>2
    <3>2. Cardinality(B) = Cardinality(A) + 1
      BY <2>1, <3>1, FS_AddElement
    <3> QED
      BY <2>2, <3>2 DEF After
  <2>3. CASE q[1] # mark
    <3>1. B = A
      BY <1>1, <2>3
    <3>2. After(q, 0, mark) = Cardinality(B) /\ After(q, 1, mark) = Cardinality(A)
      BY DEF After
    <3> HIDE DEF A, B
    <3> QED
      BY <2>1, <2>3, <3>1, <3>2
  <2> QED
    BY <2>2, <2>3
<1>5. After(t, 0, mark) = After(q, 1, mark)
  BY <1>2
<1>6. After(q, 1, mark) \in Nat
  BY AfterType
<1> QED
  BY <1>1, <1>2, <1>3, <1>4, <1>5, <1>6 DEF t

(***************************************************************************)
(* The two streams                                                         *)
(***************************************************************************)

(* The computation r reads what the copy o brings.                         *)
Awaits(r, o) ==
  /\ r.op = "run" /\ o.op = "copy"
  /\ r.layer = o.layer /\ r.slot = o.slot /\ r.expert = o.expert

(* No more transfers are awaited than will be announced, and between a     *)
(* computation of c and its copy in d there is an event it waits for: the  *)
(* copy has more events behind it than the computation has waits.          *)
InStep(d, c) ==
  /\ Count(d, Event) <= Count(c, Wait)
  /\ \A i \in DOMAIN c, j \in DOMAIN d :
       Awaits(c[i], d[j]) => After(c, i, Wait) < After(d, j, Event)

(* A copy for which no computation has been enqueued yet.                  *)
LEMMA InStepCopy ==
  ASSUME NEW S, NEW T, NEW d \in Seq(S), NEW c \in Seq(T), InStep(d, c),
         NEW o \in S, o.op = "copy", \A i \in DOMAIN c : ~ Awaits(c[i], o)
  PROVE  InStep(Append(d, o), c)
<1> DEFINE r == Append(d, o)
           n == Len(d)
<1>1. /\ n \in Nat /\ DOMAIN d = 1..n /\ DOMAIN r = 1..(n + 1)
      /\ r[n + 1] = o /\ \A k \in 1..n : r[k] = d[k]
  BY AppendProperties, LenProperties
<1>2. o # Event
  BY DEF Event
<1>3. /\ \A i \in 0..n : After(r, i, Event) = After(d, i, Event)
      /\ Count(r, Event) = Count(d, Event)
  BY <1>2, AfterAppend
<1>4. Count(d, Event) \in Nat /\ \A i \in 0..n : After(d, i, Event) \in Nat
  <2>1. \A i \in Nat : After(d, i, Event) \in Nat /\ Count(d, Event) \in Nat
    BY AfterType
  <2> QED
    BY <1>1, <2>1
<1> HIDE DEF n, r
<1>5. \A j \in 1..n : After(r, j, Event) = After(d, j, Event)
  BY <1>1, <1>3, <1>4
<1>6. Count(r, Event) = Count(d, Event)
  BY <1>3, <1>4
<1>7. ASSUME NEW i \in DOMAIN c, NEW j \in 1..(n + 1), Awaits(c[i], r[j])
      PROVE  After(c, i, Wait) < After(r, j, Event)
  <2>1. j # n + 1
    BY <1>1, <1>7
  <2>2. j \in 1..n /\ r[j] = d[j]
    BY <1>1, <1>7, <2>1
  <2> QED
    BY <1>1, <1>5, <1>7, <2>2 DEF InStep
<1> QED
  BY <1>1, <1>6, <1>7 DEF InStep, r

(* An event and the wait for it.                                           *)
LEMMA InStepEvent ==
  ASSUME NEW S, NEW T, NEW d \in Seq(S), NEW c \in Seq(T), InStep(d, c),
         Event \in S, Wait \in T
  PROVE  InStep(Append(d, Event), Append(c, Wait))
<1> DEFINE r == Append(d, Event)
           b == Append(c, Wait)
           n == Len(d)
           m == Len(c)
<1>1. /\ n \in Nat /\ DOMAIN d = 1..n /\ DOMAIN r = 1..(n + 1)
      /\ r[n + 1] = Event /\ \A k \in 1..n : r[k] = d[k]
      /\ m \in Nat /\ DOMAIN c = 1..m /\ DOMAIN b = 1..(m + 1)
      /\ b[m + 1] = Wait /\ \A k \in 1..m : b[k] = c[k]
  BY AppendProperties, LenProperties
<1>2. /\ \A i \in 0..n : After(r, i, Event) = After(d, i, Event) + 1
      /\ \A i \in 0..m : After(b, i, Wait) = After(c, i, Wait) + 1
  BY AfterAppend
<1>3. /\ Count(r, Event) = Count(d, Event) + 1
      /\ Count(b, Wait) = Count(c, Wait) + 1
  BY AfterAppend
<1>4. /\ Count(d, Event) \in Nat /\ Count(c, Wait) \in Nat
      /\ \A i \in Nat : After(d, i, Event) \in Nat /\ After(c, i, Wait) \in Nat
  BY AfterType
<1>5. Event.op = "event" /\ Wait.op = "wait"
  BY DEF Event, Wait
<1> HIDE DEF n, m, r, b
<1>6. ASSUME NEW i \in 1..(m + 1), NEW j \in 1..(n + 1), Awaits(b[i], r[j])
      PROVE  After(b, i, Wait) < After(r, j, Event)
  <2>1. i # m + 1 /\ j # n + 1
    BY <1>1, <1>5, <1>6 DEF Awaits
  <2>2. /\ j \in 1..n /\ r[j] = d[j] /\ j \in 0..n /\ j \in Nat
        /\ i \in 1..m /\ b[i] = c[i] /\ i \in 0..m /\ i \in Nat
    BY <1>1, <1>6, <2>1
  <2>3. After(c, i, Wait) < After(d, j, Event)
    BY <1>1, <1>6, <2>2 DEF InStep
  <2> QED
    BY <1>2, <1>4, <2>2, <2>3
<1>7. Count(r, Event) <= Count(b, Wait)
  BY <1>3, <1>4 DEF InStep
<1> QED
  BY <1>1, <1>6, <1>7 DEF InStep, r, b

(* A computation enqueued when every copy has its event behind it.         *)
LEMMA InStepRun ==
  ASSUME NEW S, NEW T, NEW d \in Seq(S), NEW c \in Seq(T), InStep(d, c),
         d # << >> => d[Len(d)] = Event, NEW o \in T, o.op = "run"
  PROVE  InStep(d, Append(c, o))
<1> DEFINE b == Append(c, o)
           n == Len(d)
           m == Len(c)
<1>1. /\ n \in Nat /\ DOMAIN d = 1..n /\ (d # << >> => n # 0)
      /\ m \in Nat /\ DOMAIN c = 1..m /\ DOMAIN b = 1..(m + 1)
      /\ b[m + 1] = o /\ \A k \in 1..m : b[k] = c[k]
  BY AppendProperties, LenProperties
<1>2. o # Wait /\ Event.op = "event"
  BY DEF Wait, Event
<1>3. /\ \A i \in 0..m : After(b, i, Wait) = After(c, i, Wait)
      /\ Count(b, Wait) = Count(c, Wait)
  BY <1>2, AfterAppend
<1>4. /\ Count(c, Wait) \in Nat
      /\ \A i \in Nat : After(d, i, Event) \in Nat /\ After(c, i, Wait) \in Nat
  BY AfterType
<1> HIDE DEF b
<1>5. After(b, m + 1, Wait) = 0
  <2>1. {k \in DOMAIN b : k > m + 1 /\ b[k] = Wait} = {}
    BY <1>1
  <2> QED
    BY <2>1, FS_EmptySet DEF After
<1>6. ASSUME NEW j \in 1..n, d[j].op = "copy" PROVE 0 < After(d, j, Event)
  <2> DEFINE A == {k \in DOMAIN d : k > j /\ d[k] = Event}
  <2>1. n \in DOMAIN d /\ d[n] = Event
    BY <1>1, <1>6
  <2>2. n \in A
    BY <1>1, <1>2, <1>6, <2>1
  <2>3. IsFiniteSet(A)
    <3>1. j \in Nat
      BY <1>1
    <3> QED
      BY <3>1, AfterType
  <2> HIDE DEF A
  <2>4. Cardinality(A) \in Nat /\ Cardinality(A) # 0
    BY <2>2, <2>3, FS_EmptySet, FS_CardinalityType
  <2> QED
    BY <2>4 DEF After, A
<1> HIDE DEF n, m
<1>7. ASSUME NEW i \in 1..(m + 1), NEW j \in 1..n, Awaits(b[i], d[j])
      PROVE  After(b, i, Wait) < After(d, j, Event)
  <2>1. CASE i = m + 1
    BY <1>5, <1>6, <1>7, <2>1 DEF Awaits
  <2>2. CASE i # m + 1
    <3>1. i \in 1..m /\ b[i] = c[i] /\ i \in 0..m /\ i \in Nat
      BY <1>1, <1>7, <2>2
    <3>2. After(c, i, Wait) < After(d, j, Event)
      BY <1>1, <1>7, <3>1 DEF InStep
    <3> QED
      BY <1>3, <1>4, <3>1, <3>2
  <2> QED
    BY <2>1, <2>2
<1>8. Count(b, Wait) = Count(c, Wait)
  BY <1>3, <1>4
<1> QED
  BY <1>1, <1>7, <1>8 DEF InStep, b

(* Each stream takes off its first operation, the current one not past a   *)
(* wait whose event is still ahead.                                        *)
LEMMA InStepCopied ==
  ASSUME NEW S, NEW T, NEW d \in Seq(S), NEW c \in Seq(T), InStep(d, c), d # << >>
  PROVE  InStep(Tail(d), c)
<1> DEFINE r == Tail(d)
<1>1. /\ Len(d) \in Nat \ {0} /\ DOMAIN d = 1..Len(d)
      /\ r \in Seq(S) /\ DOMAIN r = 1..(Len(d) - 1)
      /\ \A k \in 1..(Len(d) - 1) : r[k] = d[k + 1]
  OBVIOUS
<1>2. /\ \A i \in Nat : After(r, i, Event) = After(d, i + 1, Event)
      /\ Head(d) = Event => Count(d, Event) = Count(r, Event) + 1
      /\ Head(d) # Event => Count(d, Event) = Count(r, Event)
  BY AfterTail
<1>3. Count(d, Event) \in Nat /\ Count(c, Wait) \in Nat
  BY AfterType
<1> HIDE DEF r
<1>4. Count(r, Event) \in Nat
  BY <1>1, AfterType
<1>5. Count(r, Event) <= Count(c, Wait)
  <2>1. Count(d, Event) <= Count(c, Wait)
    BY DEF InStep
  <2>2. CASE Head(d) = Event
    BY <1>2, <1>3, <1>4, <2>1, <2>2
  <2>3. CASE Head(d) # Event
    BY <1>2, <1>3, <1>4, <2>1, <2>3
  <2> QED
    BY <2>2, <2>3
<1>6. ASSUME NEW i \in DOMAIN c, NEW j \in DOMAIN r, Awaits(c[i], r[j])
      PROVE  After(c, i, Wait) < After(r, j, Event)
  <2>1. j \in Nat /\ j + 1 \in DOMAIN d /\ r[j] = d[j + 1]
    BY <1>1, <1>6
  <2>2. After(c, i, Wait) < After(d, j + 1, Event)
    BY <1>6, <2>1 DEF InStep
  <2> QED
    BY <1>2, <2>1, <2>2
<1> QED
  BY <1>5, <1>6 DEF InStep, r

(* Executing the head of the current queue; a wait only once its event has *)
(* been executed.                                                          *)
LEMMA InStepComputed ==
  ASSUME NEW S, NEW T, NEW d \in Seq(S), NEW c \in Seq(T), InStep(d, c),
         c # << >>, Head(c) = Wait => Count(d, Event) < Count(c, Wait)
  PROVE  InStep(d, Tail(c))
<1> DEFINE b == Tail(c)
<1>1. /\ Len(c) \in Nat \ {0} /\ DOMAIN c = 1..Len(c)
      /\ b \in Seq(T) /\ DOMAIN b = 1..(Len(c) - 1)
      /\ \A k \in 1..(Len(c) - 1) : b[k] = c[k + 1]
  OBVIOUS
<1>2. /\ \A i \in Nat : After(b, i, Wait) = After(c, i + 1, Wait)
      /\ Head(c) = Wait => Count(c, Wait) = Count(b, Wait) + 1
      /\ Head(c) # Wait => Count(c, Wait) = Count(b, Wait)
  BY AfterTail
<1>3. Count(d, Event) \in Nat /\ Count(c, Wait) \in Nat
  BY AfterType
<1> HIDE DEF b
<1>4. Count(b, Wait) \in Nat
  BY <1>1, AfterType
<1>5. Count(d, Event) <= Count(b, Wait)
  <2>1. Count(d, Event) <= Count(c, Wait)
    BY DEF InStep
  <2>2. CASE Head(c) = Wait
    BY <1>2, <1>3, <1>4, <2>1, <2>2
  <2>3. CASE Head(c) # Wait
    BY <1>2, <1>3, <1>4, <2>1, <2>3
  <2> QED
    BY <2>2, <2>3
<1>6. ASSUME NEW i \in DOMAIN b, NEW j \in DOMAIN d, Awaits(b[i], d[j])
      PROVE  After(b, i, Wait) < After(d, j, Event)
  <2>1. i \in Nat /\ i + 1 \in DOMAIN c /\ b[i] = c[i + 1]
    BY <1>1, <1>6
  <2>2. After(c, i + 1, Wait) < After(d, j, Event)
    BY <1>6, <2>1 DEF InStep
  <2> QED
    BY <1>2, <2>1, <2>2
<1> QED
  BY <1>5, <1>6 DEF InStep, b

(* With q to be executed and hld in the slots now, slot s of layer l will  *)
(* hold e: the last copy into it brings e, or there is none and it is there*)
Into(o, l, s) == o.op = "copy" /\ o.layer = l /\ o.slot = s
Brings(q, hld, l, s, e) ==
  /\ (\A j \in DOMAIN q : ~ Into(q[j], l, s)) => hld[l][s] = e
  /\ \A j \in DOMAIN q :
       Into(q[j], l, s) /\ (\A k \in DOMAIN q : k > j => ~ Into(q[k], l, s))
         => q[j].expert = e

(* What is enqueued for elsewhere changes nothing.                         *)
LEMMA BringsStill ==
  ASSUME NEW S, NEW q \in Seq(S), NEW o \in S, NEW hld, NEW l, NEW s, NEW e,
         Brings(q, hld, l, s, e), ~ Into(o, l, s)
  PROVE  Brings(Append(q, o), hld, l, s, e)
<1> DEFINE r == Append(q, o)
           n == Len(q)
<1>1. /\ n \in Nat /\ DOMAIN q = 1..n /\ DOMAIN r = 1..(n + 1)
      /\ r[n + 1] = o /\ \A k \in 1..n : r[k] = q[k]
  BY AppendProperties, LenProperties
<1> HIDE DEF r, n
<1>2. \A k \in 1..n : k \in 1..(n + 1)
  BY <1>1
<1>3. \A j \in 1..(n + 1) : j \in 1..n \/ (j = n + 1 /\ ~ Into(r[j], l, s))
  BY <1>1
<1> QED
  BY <1>1, <1>2, <1>3 DEF Brings, r

(* The last copy decides.                                                  *)
LEMMA BringsNow ==
  ASSUME NEW S, NEW q \in Seq(S), NEW o \in S, NEW hld, NEW l, NEW s,
         Into(o, l, s)
  PROVE  Brings(Append(q, o), hld, l, s, o.expert)
<1> DEFINE r == Append(q, o)
           n == Len(q)
<1>1. /\ n \in Nat /\ DOMAIN r = 1..(n + 1) /\ r[n + 1] = o
  BY AppendProperties, LenProperties
<1> HIDE DEF r, n
<1>2. n + 1 \in DOMAIN r /\ Into(r[n + 1], l, s)
  BY <1>1
<1>3. \A j \in DOMAIN r : j # n + 1 => n + 1 > j
  BY <1>1
<1> QED
  BY <1>1, <1>2, <1>3 DEF Brings, r

(* Executing the first copy is what was foreseen.                          *)
LEMMA BringsExecuted ==
  ASSUME NEW S, NEW q \in Seq(S), q # << >>,
         NEW X, NEW Y, NEW V, NEW hld \in [X -> [Y -> V]],
         NEW l \in X, NEW s \in Y, NEW e, Brings(q, hld, l, s, e),
         Head(q).op = "copy" => Head(q).layer \in X /\ Head(q).slot \in Y,
         NEW hld2,
         hld2 = IF Head(q).op = "copy"
                THEN [hld EXCEPT ![Head(q).layer][Head(q).slot] = Head(q).expert]
                ELSE hld
  PROVE  Brings(Tail(q), hld2, l, s, e)
<1> DEFINE t == Tail(q)
           n == Len(q)
           o == q[1]
<1>1. /\ n \in Nat \ {0} /\ DOMAIN q = 1..n /\ DOMAIN t = 1..(n - 1)
      /\ \A k \in 1..(n - 1) : t[k] = q[k + 1]
      /\ Head(q) = o
  OBVIOUS
<1> HIDE DEF t, n, o
<1>2. /\ Into(o, l, s) => hld2[l][s] = o.expert
      /\ ~ Into(o, l, s) => hld2[l][s] = hld[l][s]
  BY <1>1 DEF Into
<1>3. \A k \in 1..(n - 1) : k + 1 \in 1..n /\ k \in Nat
  BY <1>1
<1>4. \A k \in 1..n : k # 1 => k - 1 \in 1..(n - 1) /\ (k - 1) + 1 = k
  BY <1>1
<1>5. 1 \in 1..n /\ q[1] = o
  BY <1>1 DEF o
<1>6. ASSUME \A j \in 1..(n - 1) : ~ Into(t[j], l, s)
      PROVE  hld2[l][s] = e
  <2>1. \A k \in 1..n : k # 1 => ~ Into(q[k], l, s)
    BY <1>1, <1>4, <1>6
  <2>2. CASE Into(o, l, s)
    <3>1. \A k \in 1..n : k > 1 => ~ Into(q[k], l, s)
      BY <2>1
    <3>2. o.expert = e
      BY <1>1, <1>5, <2>2, <3>1 DEF Brings
    <3> QED
      BY <1>2, <2>2, <3>2
  <2>3. CASE ~ Into(o, l, s)
    <3>1. \A k \in 1..n : ~ Into(q[k], l, s)
      BY <1>5, <2>1, <2>3
    <3>2. hld[l][s] = e
      BY <1>1, <3>1 DEF Brings
    <3> QED
      BY <1>2, <2>3, <3>2
  <2> QED
    BY <2>2, <2>3
<1>7. ASSUME NEW j \in 1..(n - 1), Into(t[j], l, s),
             \A k \in 1..(n - 1) : k > j => ~ Into(t[k], l, s)
      PROVE  t[j].expert = e
  <2> DEFINE i == j + 1
  <2>1. i \in 1..n /\ t[j] = q[i] /\ i \in Nat
    BY <1>1, <1>3, <1>7
  <2>2. \A k \in 1..n : k > i => k # 1 /\ k - 1 > j
    BY <1>1, <1>7
  <2>3. \A k \in 1..n : k > i => ~ Into(q[k], l, s)
    BY <1>1, <1>4, <1>7, <2>2
  <2> HIDE DEF i
  <2> QED
    BY <1>1, <1>7, <2>1, <2>3 DEF Brings
<1> QED
  BY <1>1, <1>6, <1>7 DEF Brings, t

(***************************************************************************)
(* The invariant of the streams                                            *)
(***************************************************************************)

(* The operations of the two streams.                                      *)
CopyOps == {Event} \cup {Copy(l, s, e) : l \in Layers, s \in Slots, e \in Experts}
RunOps  == {Wait} \cup {Run(l, s, e) : l \in Layers, s \in Slots, e \in Experts}

(* The types of what is on the device.                                     *)
StreamTypeOK ==
  /\ current \in Seq(RunOps)
  /\ dma \in Seq(CopyOps)
  /\ held \in [Layers -> [Slots -> Experts \cup {None}]]

(* When the transfer stream has executed everything, every bound slot      *)
(* holds the weights of its expert.                                        *)
Foretold ==
  \A l \in Layers, s \in Slots :
    tier[l].slot_to_expert[s] # None
      => Brings(dma, held, l, s, tier[l].slot_to_expert[s])

(* What is true of the streams in every part of forward.                   *)
Streams == StreamTypeOK /\ InStep(dma, current) /\ Foretold

(* What is enqueued in which part of forward: computations in the last     *)
(* loop only, each for an expert the loop has behind it; and except while  *)
(* it loads what is missing, the host leaves no transfer unannounced.      *)
Enqueued ==
  /\ host.pc \in {"touch", "admit", "count", "dispatch"} => option.placement = "slots"
  /\ host.pc \in {"touch", "admit", "count"}
       => \A i \in DOMAIN current : current[i].op # "run"
  /\ host.pc = "dispatch"
       => \A i \in DOMAIN current : current[i].op = "run" => current[i].expert \notin host.todo
  /\ host.pc \notin {"admit", "failed"} /\ dma # << >> => dma[Len(dma)] = Event

(* The last loop of a forward that fits: the host has waited for the       *)
(* transfers and enqueues computations on what the slots are bound to.     *)
Settled ==
  host.pc = "dispatch" /\ Fits
    => /\ dma = << >>
       /\ \A i \in DOMAIN current : current[i].op = "run"
            => tier[current[i].layer].slot_to_expert[current[i].slot] = current[i].expert

(* The invariant of tables and streams together.                           *)
StreamInv == IInv /\ Streams /\ Enqueued /\ Settled

(* A step that enqueues and executes nothing and binds no slot.            *)
LEMMA QuietKeeps ==
  ASSUME Streams, UNCHANGED <<option, current, dma, held>>,
         \A l \in Layers, s \in Slots :
           tier'[l].slot_to_expert[s] \in {None, tier[l].slot_to_expert[s]}
  PROVE  Streams'
<1>1. Slots' = Slots
  BY DEF Slots, Capacity, Streaming
<1>2. CopyOps' = CopyOps /\ RunOps' = RunOps
  BY <1>1 DEF CopyOps, RunOps
<1>3. StreamTypeOK'
  BY <1>1, <1>2 DEF Streams, StreamTypeOK
<1>4. InStep(dma, current)'
  BY DEF Streams
<1>5. Foretold'
  BY <1>1 DEF Streams, Foretold
<1> QED
  BY <1>3, <1>4, <1>5 DEF Streams

(* The transfer of an expert that takes the oldest slot.                   *)
LEMMA LoadForetold ==
  ASSUME IInv, Streams, host.pc # "failed",
         NEW e \in Experts, e \notin Resident(tier[host.layer]),
         \A i \in DOMAIN current : current[i].op = "run" => current[i].expert # e,
         NEW s, s = Head(tier[host.layer].slot_lru),
         NEW q, q = Append(dma, Copy(host.layer, s, e)),
         tier' = [tier EXCEPT ![host.layer] = Take(@, e)]
  PROVE  /\ s \in Slots /\ q \in Seq(CopyOps) /\ InStep(q, current)
         /\ \A l \in Layers, t \in Slots :
              tier'[l].slot_to_expert[t] # None
                => Brings(q, held, l, t, tier'[l].slot_to_expert[t])
<1> DEFINE h == host.layer
           c == tier[h]
           o == Copy(h, s, e)
<1>1. /\ h \in Layers /\ tier \in [Layers -> TierTable] /\ HostTypeOK
      /\ c \in TierTable /\ ConsistentTier(c)
  <2>1. h \in Layers /\ tier \in [Layers -> TierTable] /\ HostTypeOK
    BY DEF IInv, HostTypeOK, HostStates
  <2> QED
    BY <2>1 DEF IInv, TiersConsistent
<1>2. s \in Slots
  BY <1>1, TakeKeeps
<1>3. /\ o \in CopyOps /\ o.op = "copy" /\ o.layer = h /\ o.slot = s /\ o.expert = e
  BY <1>1, <1>2 DEF Copy, CopyOps
<1>4. /\ dma \in Seq(CopyOps) /\ current \in Seq(RunOps) /\ InStep(dma, current)
  BY DEF Streams, StreamTypeOK
<1> HIDE DEF o
<1>5. q \in Seq(CopyOps)
  BY <1>3, <1>4 DEF o
<1>6. q = Append(dma, o)
  BY DEF o
<1>7. \A i \in DOMAIN current : ~ Awaits(current[i], o)
  BY <1>3 DEF Awaits
<1>8. InStep(q, current)
  BY <1>3, <1>4, <1>6, <1>7, InStepCopy
<1>9. /\ tier'[h].slot_to_expert = [c.slot_to_expert EXCEPT ![s] = e]
      /\ \A l \in Layers : l # h => tier'[l] = tier[l]
      /\ c.slot_to_expert \in [Slots -> Experts \cup {None}]
  BY <1>1 DEF Take, TierTable
<1>10. ASSUME NEW l \in Layers, NEW t \in Slots, tier'[l].slot_to_expert[t] # None
       PROVE  Brings(q, held, l, t, tier'[l].slot_to_expert[t])
  <2>1. CASE l = h /\ t = s
    <3>1. Into(o, l, t) /\ tier'[l].slot_to_expert[t] = o.expert
      BY <1>2, <1>3, <1>9, <2>1 DEF Into
    <3> QED
      BY <1>3, <1>4, <1>6, <3>1, BringsNow
  <2>2. CASE ~ (l = h /\ t = s)
    <3>1. tier'[l].slot_to_expert[t] = tier[l].slot_to_expert[t] /\ ~ Into(o, l, t)
      BY <1>3, <1>9, <2>2 DEF Into
    <3>2. Brings(dma, held, l, t, tier[l].slot_to_expert[t])
      BY <1>10, <3>1 DEF Streams, Foretold
    <3>3. Brings(Append(dma, o), held, l, t, tier[l].slot_to_expert[t])
      BY <1>3, <1>4, <3>1, <3>2, BringsStill
    <3> QED
      BY <1>6, <3>1, <3>3
  <2> QED
    BY <2>1, <2>2
<1> QED
  BY <1>2, <1>5, <1>8, <1>10

(* The host's steps that leave the streams alone.                          *)
LEMMA HostQuietKeeps ==
  ASSUME StreamInv, IInv', UNCHANGED <<option, current, dma, held>>,
         \A l \in Layers, s \in Slots :
           tier'[l].slot_to_expert[s] \in {None, tier[l].slot_to_expert[s]},
         host'.pc \notin {"admit", "dispatch"},
         host.pc \notin {"admit", "failed"} \/ host'.pc = "failed",
         host'.pc \in {"touch", "count"}
           => /\ option.placement = "slots"
              /\ \A i \in DOMAIN current : current[i].op # "run"
  PROVE  StreamInv'
<1>1. Streams'
  BY QuietKeeps DEF StreamInv
<1>2. Enqueued' /\ Settled'
  BY DEF StreamInv, Enqueued, Settled
<1> QED
  BY <1>1, <1>2 DEF StreamInv

(* A missing expert is loaded before anything runs.                        *)
LEMMA AdmitInStep ==
  ASSUME StreamInv, IInv', NEW e \in Experts, Admit(e)
  PROVE  StreamInv'
<1> DEFINE s == Head(tier[host.layer].slot_lru)
<1>1. /\ host \in HostStates /\ host.todo \in SUBSET Experts
      /\ IInv /\ Streams /\ Enqueued
  BY DEF StreamInv, IInv, HostTypeOK, HostStates
<1>2. /\ host.pc = "admit" /\ host.todo # {} /\ e = First(host.todo)
      /\ tier' = [tier EXCEPT ![host.layer] = Take(@, e)]
      /\ dma' = Append(dma, Copy(host.layer, s, e))
      /\ host' = [host EXCEPT !.todo = @ \ {e}]
      /\ UNCHANGED <<option, fifo, current, held>>
  BY DEF Admit
<1>3. host'.pc = "admit"
  BY <1>1, <1>2 DEF HostStates
<1>4. e \notin Resident(tier[host.layer])
  <2>1. e \in host.todo
    BY <1>1, <1>2, FirstMember DEF Experts
  <2>2. host.todo \cap Resident(tier[host.layer]) = {}
    BY <1>1, <1>2 DEF IInv, ServedLast
  <2> QED
    BY <2>1, <2>2
<1>5. /\ option.placement = "slots"
      /\ \A i \in DOMAIN current : current[i].op # "run"
  BY <1>1, <1>2 DEF Enqueued
<1> HIDE DEF s
<1>6. /\ dma' \in Seq(CopyOps) /\ InStep(dma', current)
      /\ \A l \in Layers, t \in Slots :
           tier'[l].slot_to_expert[t] # None
             => Brings(dma', held, l, t, tier'[l].slot_to_expert[t])
  BY <1>1, <1>2, <1>4, <1>5, LoadForetold DEF s
<1>7. Slots' = Slots /\ CopyOps' = CopyOps /\ RunOps' = RunOps
  BY <1>2 DEF Slots, Capacity, Streaming, CopyOps, RunOps
<1>8. Streams'
  <2>1. StreamTypeOK'
    BY <1>1, <1>2, <1>6, <1>7 DEF Streams, StreamTypeOK
  <2>2. InStep(dma, current)'
    BY <1>2, <1>6
  <2>3. Foretold'
    BY <1>2, <1>6, <1>7 DEF Foretold
  <2> QED
    BY <2>1, <2>2, <2>3 DEF Streams
<1>9. Enqueued' /\ Settled'
  BY <1>2, <1>3, <1>5 DEF Enqueued, Settled
<1> QED
  BY <1>8, <1>9 DEF StreamInv

(* A sequence takes one or two more at its end.                            *)
LEMMA AppendOne ==
  ASSUME NEW S, NEW q \in Seq(S), NEW x \in S
  PROVE  q \o <<x>> = Append(q, x)
OBVIOUS

(* A sequence and two elements.                                            *)
LEMMA AppendTwo ==
  ASSUME NEW S, NEW q \in Seq(S), NEW x \in S, NEW y \in S
  PROVE  /\ q \o <<x, y>> = Append(Append(q, x), y)
         /\ q \o (<<x>> \o <<y>>) = Append(Append(q, x), y)
<1>1. q \o <<x, y>> = Append(Append(q, x), y)
  OBVIOUS
<1>2. <<x>> \in Seq(S) /\ <<y>> \in Seq(S)
  OBVIOUS
<1>3. q \o (<<x>> \o <<y>>) = (q \o <<x>>) \o <<y>>
  BY <1>2, ConcatAssociative
<1>4. q \o <<x>> = Append(q, x) /\ Append(q, x) \in Seq(S)
  BY AppendOne, AppendProperties
<1>5. Append(q, x) \o <<y>> = Append(Append(q, x), y)
  BY <1>4, AppendOne
<1> QED
  BY <1>1, <1>3, <1>4, <1>5

(* The current stream is made to wait for what has been loaded.            *)
LEMMA AdmittedInStep ==
  ASSUME StreamInv, IInv', Admitted
  PROVE  StreamInv'
<1>1. /\ host \in HostStates /\ IInv /\ Streams /\ Enqueued
      /\ current \in Seq(RunOps) /\ dma \in Seq(CopyOps) /\ InStep(dma, current)
  BY DEF StreamInv, IInv, HostTypeOK, Streams, StreamTypeOK
<1>2. Wait \in RunOps /\ Event \in CopyOps
  BY DEF RunOps, CopyOps
<1>3. /\ host.pc = "admit"
      /\ current' = current \o (<<Wait>> \o << >>)
      /\ dma' = Append(dma, Event)
      /\ host' = [host EXCEPT !.pc = "count"]
      /\ UNCHANGED <<option, tier, fifo, held>>
  BY DEF Admitted, AfterTransfers
<1>4. current' = Append(current, Wait)
  <2>1. <<Wait>> \o << >> = <<Wait>>
    OBVIOUS
  <2> QED
    BY <1>1, <1>2, <1>3, <2>1, AppendOne
<1>5. host'.pc = "count"
  BY <1>1, <1>3 DEF HostStates
<1>6. InStep(dma', current')
  <2>1. InStep(Append(dma, Event), Append(current, Wait))
    BY <1>1, <1>2, InStepEvent
  <2> QED
    BY <1>3, <1>4, <2>1
<1>7. Slots' = Slots /\ CopyOps' = CopyOps /\ RunOps' = RunOps
  BY <1>3 DEF Slots, Capacity, Streaming, CopyOps, RunOps
<1>8. dma' \in Seq(CopyOps) /\ current' \in Seq(RunOps)
  BY <1>1, <1>2, <1>3, <1>4, AppendProperties
<1>9. Foretold'
  <2>1. ASSUME NEW l \in Layers, NEW t \in Slots, tier[l].slot_to_expert[t] # None
        PROVE  Brings(dma', held, l, t, tier[l].slot_to_expert[t])
    <3>1. Brings(dma, held, l, t, tier[l].slot_to_expert[t])
      BY <1>1, <2>1 DEF Streams, Foretold
    <3>2. ~ Into(Event, l, t)
      BY DEF Into, Event
    <3>3. Brings(Append(dma, Event), held, l, t, tier[l].slot_to_expert[t])
      BY <1>1, <1>2, <3>1, <3>2, BringsStill
    <3> QED
      BY <1>3, <3>3
  <2> QED
    BY <1>3, <1>7, <2>1 DEF Foretold
<1>10. Streams'
  BY <1>1, <1>3, <1>6, <1>7, <1>8, <1>9 DEF Streams, StreamTypeOK
<1>11. Enqueued'
  <2>1. dma'[Len(dma')] = Event
    BY <1>1, <1>2, <1>3, AppendProperties, LenProperties
  <2>2. ASSUME NEW i \in DOMAIN current' PROVE current'[i].op # "run"
    <3>1. /\ Len(current) \in Nat /\ DOMAIN current = 1..Len(current)
          /\ DOMAIN current' = 1..(Len(current) + 1)
          /\ current'[Len(current) + 1] = Wait
          /\ \A k \in 1..Len(current) : current'[k] = current[k]
      BY <1>1, <1>2, <1>4, AppendProperties, LenProperties
    <3>2. i \in 1..Len(current) \/ i = Len(current) + 1
      BY <2>2, <3>1
    <3>3. Wait.op # "run"
      BY DEF Wait
    <3>4. \A k \in DOMAIN current : current[k].op # "run"
      BY <1>1, <1>3 DEF Enqueued
    <3> QED
      BY <3>1, <3>2, <3>3, <3>4
  <2> QED
    BY <1>1, <1>3, <1>5, <2>1, <2>2 DEF Enqueued
<1> QED
  BY <1>5, <1>10, <1>11 DEF StreamInv, Settled

(* The host has waited for the current stream, which had waited for every  *)
(* transfer: nothing is left on either stream.                             *)
LEMMA CountTokensInStep ==
  ASSUME StreamInv, IInv', CountTokens
  PROVE  StreamInv'
<1>1. /\ host \in HostStates /\ IInv /\ Streams /\ Enqueued
      /\ current \in Seq(RunOps) /\ dma \in Seq(CopyOps) /\ InStep(dma, current)
  BY DEF StreamInv, IInv, HostTypeOK, Streams, StreamTypeOK
<1>2. /\ host.pc = "count" /\ current = << >>
      /\ host' = [host EXCEPT !.pc = "dispatch", !.todo = host.need]
      /\ UNCHANGED <<option, tier, fifo, current, dma, held>>
  BY DEF CountTokens, Drained
<1>3. host'.pc = "dispatch"
  BY <1>1, <1>2 DEF HostStates
<1>4. dma = << >>
  <2> SUFFICES ASSUME dma # << >> PROVE FALSE
    OBVIOUS
  <2> DEFINE n == Len(dma)
             A == {i \in DOMAIN dma : dma[i] = Event}
  <2>1. n \in Nat \ {0} /\ n \in DOMAIN dma
    BY <1>1
  <2>2. dma[n] = Event
    BY <1>1, <1>2 DEF Enqueued
  <2>3. n \in A
    BY <2>1, <2>2
  <2>4. IsFiniteSet(A)
    BY <1>1, <2>1, FS_Interval, FS_Subset
  <2> HIDE DEF A, n
  <2>5. Cardinality(A) \in Nat /\ Cardinality(A) # 0
    BY <2>3, <2>4, FS_EmptySet, FS_CardinalityType
  <2>6. Cardinality({i \in DOMAIN current : current[i] = Wait}) = 0
    BY <1>2, FS_EmptySet
  <2> QED
    BY <1>1, <2>5, <2>6 DEF InStep, Count, A
<1>5. Streams'
  BY <1>1, <1>2, QuietKeeps
<1>6. Enqueued' /\ Settled'
  BY <1>1, <1>2, <1>3, <1>4 DEF Enqueued, Settled
<1> QED
  BY <1>5, <1>6 DEF StreamInv

(* What the loop has run it does not run again, one expert later.          *)
LEMMA EnqueuedRun ==
  ASSUME NEW c \in Seq(RunOps), NEW todo, NEW e \in todo,
         \A i \in DOMAIN c : c[i].op = "run" => c[i].expert \notin todo,
         NEW o \in RunOps, o.op = "run", o.expert = e
  PROVE  \A i \in DOMAIN Append(c, o) :
           Append(c, o)[i].op = "run" => Append(c, o)[i].expert \notin todo \ {e}
<1> DEFINE b == Append(c, o)
           n == Len(c)
<1>1. /\ n \in Nat /\ DOMAIN c = 1..n /\ DOMAIN b = 1..(n + 1)
      /\ b[n + 1] = o /\ \A k \in 1..n : b[k] = c[k]
  BY AppendProperties, LenProperties
<1> HIDE DEF b, n
<1>2. \A i \in DOMAIN b : i \in 1..n \/ i = n + 1
  BY <1>1
<1> QED
  BY <1>1, <1>2 DEF b

(* An expert that is resident runs; in a forward that fits nothing is      *)
(* being loaded then.                                                      *)
LEMMA RunResidentInStep ==
  ASSUME StreamInv, IInv', NEW e \in Experts, RunResident(e)
  PROVE  StreamInv'
<1> DEFINE h == host.layer
           c == tier[h]
           o == Run(h, c.expert_to_slot[e], e)
<1>1. /\ host \in HostStates /\ IInv /\ Streams /\ Enqueued /\ Settled
      /\ current \in Seq(RunOps) /\ dma \in Seq(CopyOps) /\ InStep(dma, current)
      /\ tier \in [Layers -> TierTable] /\ h \in Layers /\ c \in TierTable
      /\ host.todo \in SUBSET Experts
  BY DEF StreamInv, IInv, HostTypeOK, HostStates, Streams, StreamTypeOK
<1>2. /\ host.pc = "dispatch" /\ host.todo # {} /\ e = First(host.todo)
      /\ e \in Resident(c)
      /\ tier' = IF Fits THEN tier ELSE [tier EXCEPT ![h] = Touch(c, e)]
      /\ current' = Append(current, o)
      /\ host' = [host EXCEPT !.todo = @ \ {e}]
      /\ UNCHANGED <<option, fifo, dma, held>>
  BY DEF RunResident
<1>3. /\ host'.pc = "dispatch" /\ host'.todo = host.todo \ {e}
      /\ host'.need = host.need /\ e \in host.todo
  <2>1. e \in host.todo
    BY <1>1, <1>2, FirstMember DEF Experts
  <2> QED
    BY <1>1, <1>2, <2>1 DEF HostStates
<1>4. c.expert_to_slot[e] \in Slots /\ c.slot_to_expert[c.expert_to_slot[e]] = e
  <2>1. ConsistentTier(c)
    BY <1>1, <1>2 DEF IInv, TiersConsistent
  <2> QED
    BY <1>1, <1>2, <2>1 DEF ConsistentTier, Resident, TierTable
<1>5. /\ o \in RunOps /\ o.op = "run" /\ o.expert = e
      /\ o.layer = h /\ o.slot = c.expert_to_slot[e]
  BY <1>1, <1>4 DEF Run, RunOps
<1> HIDE DEF o
<1>6. Slots' = Slots /\ Capacity' = Capacity /\ CopyOps' = CopyOps /\ RunOps' = RunOps
  BY <1>2 DEF Slots, Capacity, Streaming, CopyOps, RunOps
<1>7. current' \in Seq(RunOps)
  BY <1>1, <1>2, <1>5, AppendProperties
<1>8. InStep(dma', current')
  <2>1. dma # << >> => dma[Len(dma)] = Event
    BY <1>1, <1>2 DEF Enqueued
  <2>2. InStep(dma, Append(current, o))
    BY <1>1, <1>5, <2>1, InStepRun
  <2> QED
    BY <1>2, <2>2
<1>9. \A l \in Layers : tier'[l].slot_to_expert = tier[l].slot_to_expert
  BY <1>1, <1>2 DEF Touch, TierTable
<1>10. Streams'
  <2>1. Foretold'
    BY <1>1, <1>2, <1>6, <1>9 DEF Streams, Foretold
  <2> QED
    BY <1>1, <1>2, <1>6, <1>7, <1>8, <2>1 DEF Streams, StreamTypeOK
<1>11. Enqueued'
  <2>1. \A i \in DOMAIN current : current[i].op = "run" => current[i].expert \notin host.todo
    BY <1>1, <1>2 DEF Enqueued
  <2>2. \A i \in DOMAIN current' : current'[i].op = "run" => current'[i].expert \notin host'.todo
    BY <1>1, <1>2, <1>3, <1>5, <2>1, EnqueuedRun
  <2> QED
    BY <1>1, <1>2, <1>3, <2>2 DEF Enqueued
<1>12. Settled'
  <2> SUFFICES ASSUME Fits'
               PROVE  /\ dma' = << >>
                      /\ \A i \in DOMAIN current' : current'[i].op = "run"
                           => tier'[current'[i].layer].slot_to_expert[current'[i].slot]
                                = current'[i].expert
    BY DEF Settled
  <2>1. Fits
    BY <1>3, <1>6 DEF Fits
  <2>2. /\ dma = << >> /\ tier' = tier
        /\ \A i \in DOMAIN current : current[i].op = "run"
             => tier[current[i].layer].slot_to_expert[current[i].slot] = current[i].expert
    BY <1>1, <1>2, <2>1 DEF Settled
  <2>3. /\ Len(current) \in Nat /\ DOMAIN current = 1..Len(current)
        /\ DOMAIN current' = 1..(Len(current) + 1)
        /\ current'[Len(current) + 1] = o
        /\ \A k \in 1..Len(current) : current'[k] = current[k]
    BY <1>1, <1>2, <1>5, AppendProperties, LenProperties
  <2>4. \A i \in DOMAIN current' : i \in DOMAIN current \/ i = Len(current) + 1
    BY <2>3
  <2>5. tier[o.layer].slot_to_expert[o.slot] = o.expert
    BY <1>4, <1>5
  <2> QED
    BY <1>2, <2>2, <2>3, <2>4, <2>5
<1> QED
  BY <1>10, <1>11, <1>12 DEF StreamInv

(* An expert that is loaded runs behind a wait for its transfer.           *)
LEMMA LoadAndRunInStep ==
  ASSUME StreamInv, IInv', NEW e \in Experts, LoadAndRun(e)
  PROVE  StreamInv'
<1> DEFINE h == host.layer
           c == tier[h]
           s == Head(c.slot_lru)
           o == Run(h, s, e)
           q == Append(dma, Copy(h, s, e))
           w == Append(current, Wait)
<1>1. /\ host \in HostStates /\ IInv /\ Streams /\ Enqueued /\ Settled
      /\ current \in Seq(RunOps) /\ dma \in Seq(CopyOps) /\ InStep(dma, current)
      /\ tier \in [Layers -> TierTable] /\ h \in Layers
      /\ host.todo \in SUBSET Experts
  BY DEF StreamInv, IInv, HostTypeOK, HostStates, Streams, StreamTypeOK
<1>2. /\ host.pc = "dispatch" /\ host.todo # {} /\ e = First(host.todo)
      /\ e \notin Resident(c)
      /\ tier' = [tier EXCEPT ![h] = Take(@, e)]
      /\ dma' = dma \o <<Copy(h, s, e), Event>>
      /\ current' = current \o (<<Wait>> \o <<o>>)
      /\ host' = [host EXCEPT !.todo = @ \ {e}]
      /\ UNCHANGED <<option, fifo, held>>
  BY DEF LoadAndRun, AfterTransfers
<1>3. /\ host'.pc = "dispatch" /\ host'.todo = host.todo \ {e}
      /\ host'.need = host.need /\ e \in host.todo
  <2>1. e \in host.todo
    <3>1. host.todo \in SUBSET Nat
      BY <1>1 DEF Experts
    <3> QED
      BY <1>2, <3>1, FirstMember
  <2>2. host \in HostStates /\ host' = [host EXCEPT !.todo = @ \ {e}]
    BY <1>1, <1>2
  <2> HIDE DEF h, c, s, o, q, w
  <2> QED
    BY <1>2, <2>1, <2>2 DEF HostStates
<1>4. \A i \in DOMAIN current : current[i].op = "run" => current[i].expert \notin host.todo
  BY <1>1, <1>2 DEF Enqueued
<1>5. \A i \in DOMAIN current : current[i].op = "run" => current[i].expert # e
  BY <1>3, <1>4
<1> HIDE DEF s, q
<1>6. /\ s \in Slots /\ q \in Seq(CopyOps) /\ InStep(q, current)
      /\ \A l \in Layers, t \in Slots :
           tier'[l].slot_to_expert[t] # None
             => Brings(q, held, l, t, tier'[l].slot_to_expert[t])
  BY <1>1, <1>2, <1>5, LoadForetold DEF s, q
<1>7. /\ Wait \in RunOps /\ Event \in CopyOps /\ Wait.op = "wait"
      /\ Copy(h, s, e) \in CopyOps
  BY <1>1, <1>6 DEF RunOps, CopyOps, Wait
<1>8. /\ o \in RunOps /\ o.op = "run" /\ o.expert = e
  BY <1>1, <1>6 DEF Run, RunOps
<1> HIDE DEF o
<1>9. dma' = Append(q, Event) /\ current' = Append(w, o)
  <2>1. dma' = Append(q, Event)
    BY <1>1, <1>2, <1>7, AppendTwo DEF q
  <2>2. current' = Append(w, o)
    BY <1>1, <1>2, <1>7, <1>8, AppendTwo
  <2> QED
    BY <2>1, <2>2
<1>10. w \in Seq(RunOps) /\ dma' \in Seq(CopyOps) /\ current' \in Seq(RunOps)
  BY <1>1, <1>6, <1>7, <1>8, <1>9, AppendProperties
<1>11. dma'[Len(dma')] = Event
  BY <1>6, <1>7, <1>9, AppendProperties, LenProperties
<1>12. InStep(dma', current')
  <2>1. InStep(Append(q, Event), w)
    BY <1>1, <1>6, <1>7, InStepEvent
  <2>2. InStep(dma', w)
    BY <1>9, <2>1
  <2> HIDE DEF w
  <2>3. InStep(dma', Append(w, o))
    BY <1>8, <1>10, <1>11, <2>2, InStepRun
  <2> QED
    BY <1>9, <2>3
<1>13. Slots' = Slots /\ Capacity' = Capacity /\ CopyOps' = CopyOps /\ RunOps' = RunOps
  BY <1>2 DEF Slots, Capacity, Streaming, CopyOps, RunOps
<1>14. Foretold'
  <2>1. ASSUME NEW l \in Layers, NEW t \in Slots, tier'[l].slot_to_expert[t] # None
        PROVE  Brings(dma', held, l, t, tier'[l].slot_to_expert[t])
    <3>1. Brings(q, held, l, t, tier'[l].slot_to_expert[t])
      BY <1>6, <2>1
    <3>2. ~ Into(Event, l, t)
      BY DEF Into, Event
    <3>3. Brings(Append(q, Event), held, l, t, tier'[l].slot_to_expert[t])
      BY <1>6, <1>7, <3>1, <3>2, BringsStill
    <3> QED
      BY <1>9, <3>3
  <2> QED
    BY <1>2, <1>13, <2>1 DEF Foretold
<1>15. Streams'
  BY <1>1, <1>2, <1>10, <1>12, <1>13, <1>14 DEF Streams, StreamTypeOK
<1>16. Enqueued'
  <2>1. \A i \in DOMAIN w : w[i].op = "run" => w[i].expert \notin host.todo
    <3>1. /\ Len(current) \in Nat /\ DOMAIN current = 1..Len(current)
          /\ DOMAIN w = 1..(Len(current) + 1)
          /\ w[Len(current) + 1] = Wait
          /\ \A k \in 1..Len(current) : w[k] = current[k]
      BY <1>1, <1>7, AppendProperties, LenProperties
    <3> HIDE DEF w
    <3>2. \A i \in DOMAIN w : i \in 1..Len(current) \/ i = Len(current) + 1
      BY <3>1
    <3> QED
      BY <1>4, <1>7, <3>1, <3>2
  <2> HIDE DEF w
  <2>2. \A i \in DOMAIN current' : current'[i].op = "run" => current'[i].expert \notin host'.todo
    BY <1>3, <1>8, <1>9, <1>10, <2>1, EnqueuedRun
  <2> QED
    BY <1>1, <1>2, <1>3, <1>11, <2>2 DEF Enqueued
<1>17. Settled'
  <2>1. ~ Fits
    <3>1. option.placement = "slots"
      BY <1>1, <1>2 DEF Enqueued
    <3>2. Fits => host.need \subseteq Resident(c)
      BY <1>1, <1>2, <3>1 DEF IInv, FittingStaysResident
    <3>3. host.todo \subseteq host.need
      BY <1>1 DEF IInv, ServedLast
    <3> QED
      BY <1>2, <1>3, <3>2, <3>3
  <2>2. ~ Fits'
    BY <1>3, <1>13, <2>1 DEF Fits
  <2> QED
    BY <2>2 DEF Settled
<1> QED
  BY <1>15, <1>16, <1>17 DEF StreamInv

(* The transfer stream executes.                                           *)
LEMMA CopyInStep ==
  ASSUME StreamInv, IInv', CopyWeights
  PROVE  StreamInv'
<1> DEFINE t == Head(dma)
           r == Tail(dma)
<1>1. /\ Streams /\ Enqueued /\ Settled
      /\ current \in Seq(RunOps) /\ dma \in Seq(CopyOps) /\ InStep(dma, current)
      /\ held \in [Layers -> [Slots -> Experts \cup {None}]]
      /\ tier \in [Layers -> TierTable]
  BY DEF StreamInv, Streams, StreamTypeOK, IInv, HostTypeOK
<1>2. /\ dma # << >> /\ dma' = r
      /\ held' = IF t.op = "copy" THEN [held EXCEPT ![t.layer][t.slot] = t.expert] ELSE held
      /\ UNCHANGED <<option, tier, fifo, host, current>>
  BY DEF CopyWeights
<1>3. /\ t \in CopyOps /\ r \in Seq(CopyOps)
      /\ Len(dma) \in Nat \ {0} /\ Len(r) = Len(dma) - 1
      /\ \A k \in 1..(Len(dma) - 1) : r[k] = dma[k + 1]
  BY <1>1, <1>2
<1> HIDE DEF t, r
<1>4. t.op = "copy" => t.layer \in Layers /\ t.slot \in Slots /\ t.expert \in Experts
  BY <1>3 DEF CopyOps, Copy, Event
<1>5. InStep(dma', current')
  <2>1. InStep(r, current)
    BY <1>1, <1>2, InStepCopied DEF r
  <2> QED
    BY <1>2, <2>1
<1>6. Slots' = Slots /\ Capacity' = Capacity /\ CopyOps' = CopyOps /\ RunOps' = RunOps
  BY <1>2 DEF Slots, Capacity, Streaming, CopyOps, RunOps
<1>7. held' \in [Layers -> [Slots -> Experts \cup {None}]]
  BY <1>1, <1>2, <1>4
<1>8. Foretold'
  <2>1. ASSUME NEW l \in Layers, NEW s \in Slots, tier[l].slot_to_expert[s] # None
        PROVE  Brings(dma', held', l, s, tier[l].slot_to_expert[s])
    <3>1. Brings(dma, held, l, s, tier[l].slot_to_expert[s])
      BY <1>1, <2>1 DEF Streams, Foretold
    <3>2. Brings(Tail(dma), held', l, s, tier[l].slot_to_expert[s])
      <4>1. Head(dma).op = "copy" => Head(dma).layer \in Layers /\ Head(dma).slot \in Slots
        BY <1>4 DEF t
      <4>2. held' = IF Head(dma).op = "copy"
                    THEN [held EXCEPT ![Head(dma).layer][Head(dma).slot] = Head(dma).expert]
                    ELSE held
        BY <1>2 DEF t
      <4>3. /\ dma \in Seq(CopyOps) /\ dma # << >>
            /\ held \in [Layers -> [Slots -> Experts \cup {None}]]
        BY <1>1, <1>2
      <4> HIDE DEF r, t
      <4> QED
        BY ONLY <4>3, <3>1, <4>1, <4>2, BringsExecuted, Zenon
    <3>3. r = Tail(dma)
      BY DEF r
    <3> QED
      BY <1>2, <3>2, <3>3
  <2> QED
    BY <1>2, <1>6, <2>1 DEF Foretold
<1>9. Streams'
  BY <1>1, <1>2, <1>3, <1>5, <1>6, <1>7, <1>8 DEF Streams, StreamTypeOK
<1>10. Enqueued'
  <2>1. (dma # << >> => dma[Len(dma)] = Event) /\ r # << >> => r[Len(r)] = Event
    <3> SUFFICES ASSUME dma # << >> => dma[Len(dma)] = Event, r # << >>
                 PROVE  r[Len(r)] = Event
      OBVIOUS
    <3>1. Len(r) \in 1..(Len(dma) - 1) /\ Len(r) + 1 = Len(dma)
      BY <1>3
    <3> QED
      BY <1>2, <1>3, <3>1
  <2> QED
    BY <1>1, <1>2, <2>1 DEF Enqueued
<1>11. Settled'
  <2>1. ~ (host.pc = "dispatch" /\ Fits)
    BY <1>1, <1>2 DEF Settled
  <2>2. Fits' = Fits
    BY <1>2, <1>6 DEF Fits
  <2> QED
    BY <1>2, <2>1, <2>2 DEF Settled
<1> QED
  BY <1>9, <1>10, <1>11 DEF StreamInv

(* The current stream executes.                                            *)
LEMMA ComputeInStep ==
  ASSUME StreamInv, IInv', Compute
  PROVE  StreamInv'
<1> DEFINE b == Tail(current)
<1>1. /\ Streams /\ Enqueued /\ Settled
      /\ current \in Seq(RunOps) /\ dma \in Seq(CopyOps) /\ InStep(dma, current)
  BY DEF StreamInv, Streams, StreamTypeOK
<1>2. /\ current # << >> /\ current' = b
      /\ Head(current) = Wait => Count(dma, Event) < Count(current, Wait)
      /\ UNCHANGED <<option, tier, fifo, host, dma, held>>
  BY DEF Compute
<1>3. b \in Seq(RunOps) /\ \A k \in DOMAIN b : k + 1 \in DOMAIN current /\ b[k] = current[k + 1]
  BY <1>1, <1>2
<1>4. InStep(dma', current')
  <2>1. InStep(dma, b)
    BY <1>1, <1>2, InStepComputed
  <2> QED
    BY <1>2, <2>1
<1> HIDE DEF b
<1>5. Slots' = Slots /\ Capacity' = Capacity /\ CopyOps' = CopyOps /\ RunOps' = RunOps
  BY <1>2 DEF Slots, Capacity, Streaming, CopyOps, RunOps
<1>6. Streams'
  <2>1. Foretold'
    BY <1>1, <1>2, <1>5 DEF Streams, Foretold
  <2> QED
    BY <1>1, <1>2, <1>3, <1>4, <1>5, <2>1 DEF Streams, StreamTypeOK
<1>7. Enqueued'
  BY <1>1, <1>2, <1>3 DEF Enqueued
<1>8. Settled'
  <2>1. Fits' = Fits
    BY <1>2, <1>5 DEF Fits
  <2> QED
    BY <1>1, <1>2, <1>3, <2>1 DEF Settled
<1> QED
  BY <1>6, <1>7, <1>8 DEF StreamInv

(* Every step of the host and of the streams keeps the invariant.          *)
LEMMA StreamsKeep ==
  ASSUME StreamInv, IInv', [Next]_tieredVars
  PROVE  StreamInv'
<1>1. /\ host \in HostStates /\ IInv /\ Streams /\ Enqueued /\ Settled
      /\ tier \in [Layers -> TierTable] /\ host.layer \in Layers
      /\ option.placement \in {"slots", "cpu"}
  BY DEF StreamInv, IInv, HostTypeOK, HostStates
<1>2. \A l \in Layers, s \in Slots :
        tier[l].slot_to_expert[s] \in {None, tier[l].slot_to_expert[s]}
  OBVIOUS
<1>3. ASSUME NEW n \in Nat \ {0}, Call(n) PROVE StreamInv'
  <2>1. /\ host.pc = "idle" /\ host' = [Idle EXCEPT !.pc = "route", !.rows = n]
        /\ UNCHANGED <<option, tier, current, dma, held>>
    BY <1>3 DEF Call
  <2>2. host'.pc = "route"
    BY <2>1 DEF Idle
  <2> QED
    BY <1>2, <2>1, <2>2, HostQuietKeeps
<1>4. ASSUME NEW need \in SUBSET Experts, Route(need) PROVE StreamInv'
  <2>1. /\ host.pc = "route" /\ current = << >>
        /\ UNCHANGED <<option, tier, current, dma, held>>
        /\ \/ host' = [host EXCEPT !.pc = "cpu", !.need = need, !.todo = need]
           \/ /\ option.placement = "slots"
              /\ host' = [host EXCEPT !.pc = "touch", !.need = need,
                                      !.todo = need \cap Resident(tier[host.layer])]
           \/ /\ option.placement = "slots"
              /\ host' = [host EXCEPT !.pc = "count", !.need = need, !.todo = {}]
    BY <1>1, <1>4 DEF Route, Drained
  <2>2. /\ host'.pc \in {"cpu", "touch", "count"}
        /\ host'.pc # "cpu" => option.placement = "slots"
    BY <1>1, <2>1 DEF HostStates
  <2>3. \A i \in DOMAIN current : current[i].op # "run"
    BY <2>1
  <2> QED
    BY <1>2, <2>1, <2>2, <2>3, HostQuietKeeps
<1>5. ASSUME NEW e \in Experts, TouchHit(e) PROVE StreamInv'
  <2>1. /\ host.pc = "touch" /\ UNCHANGED <<option, current, dma, held>>
        /\ tier' = [tier EXCEPT ![host.layer] = Touch(@, e)]
        /\ host' = [host EXCEPT !.todo = @ \ {e}]
    BY <1>5 DEF TouchHit
  <2>2. host'.pc = "touch"
    BY <1>1, <2>1 DEF HostStates
  <2>3. \A l \in Layers, s \in Slots :
          tier'[l].slot_to_expert[s] \in {None, tier[l].slot_to_expert[s]}
    BY <1>1, <2>1 DEF Touch, TierTable
  <2>4. /\ option.placement = "slots"
        /\ \A i \in DOMAIN current : current[i].op # "run"
    BY <1>1, <2>1 DEF Enqueued
  <2> QED
    BY <2>1, <2>2, <2>3, <2>4, HostQuietKeeps
<1>6. ASSUME NEW e \in Experts, Admit(e) PROVE StreamInv'
  BY <1>6, AdmitInStep
<1>7. ASSUME NEW e \in Experts, RunResident(e) PROVE StreamInv'
  BY <1>7, RunResidentInStep
<1>8. ASSUME NEW e \in Experts, LoadAndRun(e) PROVE StreamInv'
  BY <1>8, LoadAndRunInStep
<1>9. ASSUME NEW e \in Experts, RunOnCpu(e) PROVE StreamInv'
  <2>1. /\ host.pc = "cpu" /\ UNCHANGED <<option, tier, current, dma, held>>
        /\ host' = [host EXCEPT !.todo = @ \ {e}]
    BY <1>9 DEF RunOnCpu
  <2>2. host'.pc = "cpu"
    BY <1>1, <2>1 DEF HostStates
  <2> QED
    BY <1>2, <2>1, <2>2, HostQuietKeeps
<1>10. ASSUME FindMissing PROVE StreamInv'
  <2>1. /\ host.pc = "touch" /\ UNCHANGED <<option, tier, current, dma, held>>
        /\ host' = [host EXCEPT !.pc = "admit",
                                !.todo = host.need \ Resident(tier[host.layer])]
    BY <1>10 DEF FindMissing
  <2>2. host'.pc = "admit"
    BY <1>1, <2>1 DEF HostStates
  <2>3. Streams'
    BY <1>1, <1>2, <2>1, QuietKeeps
  <2>4. Enqueued' /\ Settled'
    BY <1>1, <2>1, <2>2 DEF Enqueued, Settled
  <2> QED
    BY <2>3, <2>4 DEF StreamInv
<1>11. ASSUME Admitted PROVE StreamInv'
  BY <1>11, AdmittedInStep
<1>12. ASSUME CountTokens PROVE StreamInv'
  BY <1>12, CountTokensInStep
<1>13. ASSUME EndLayer PROVE StreamInv'
  <2>1. /\ host.pc \in {"dispatch", "cpu"}
        /\ UNCHANGED <<option, current, dma, held>>
        /\ \/ tier' = tier
           \/ tier' = [tier EXCEPT ![host.layer] = EmptyTier(Capacity)]
        /\ \/ host' = [host EXCEPT !.pc = "route", !.layer = @ + 1,
                                   !.need = {}, !.todo = {}]
           \/ host' = Idle
    BY <1>13 DEF EndLayer
  <2>2. host'.pc \in {"route", "idle"}
    <3>1. Idle.pc = "idle"
      BY DEF Idle
    <3>2. CASE host' = [host EXCEPT !.pc = "route", !.layer = @ + 1,
                                    !.need = {}, !.todo = {}]
      BY <1>1, <3>2 DEF HostStates
    <3> QED
      BY <2>1, <3>1, <3>2
  <2>3. \A l \in Layers, s \in Slots :
          tier'[l].slot_to_expert[s] \in {None, tier[l].slot_to_expert[s]}
    <3>1. \A s \in Slots : EmptyTier(Capacity).slot_to_expert[s] = None
      BY DEF EmptyTier, Slots
    <3> QED
      BY <1>1, <2>1, <3>1
  <2>4. host.pc \notin {"admit", "failed"}
    BY <2>1
  <2> QED
    BY <2>1, <2>2, <2>3, <2>4, HostQuietKeeps
<1>14. ASSUME ReadFails PROVE StreamInv'
  <2>1. /\ host' = [host EXCEPT !.pc = "failed"]
        /\ UNCHANGED <<option, current, dma, held>>
        /\ \/ tier' = tier
           \/ tier' = [tier EXCEPT ![host.layer].slot_lru = Tail(@)]
    BY <1>14 DEF ReadFails
  <2>2. host'.pc = "failed"
    BY <1>1, <2>1 DEF HostStates
  <2>3. \A l \in Layers, s \in Slots :
          tier'[l].slot_to_expert[s] \in {None, tier[l].slot_to_expert[s]}
    BY <1>1, <2>1 DEF TierTable
  <2> QED
    BY <2>1, <2>2, <2>3, HostQuietKeeps
<1>15. ASSUME UNCHANGED tieredVars PROVE StreamInv'
  <2>1. UNCHANGED <<option, tier, host, current, dma, held>>
    BY <1>15 DEF tieredVars
  <2>2. Streams'
    BY <1>1, <1>2, <2>1, QuietKeeps
  <2>3. Enqueued' /\ Settled'
    BY <1>1, <2>1 DEF Enqueued, Settled, Fits, Capacity, Streaming
  <2> QED
    BY <2>2, <2>3 DEF StreamInv
<1>16. ASSUME CopyWeights PROVE StreamInv'
  BY <1>16, CopyInStep
<1>17. ASSUME Compute PROVE StreamInv'
  BY <1>17, ComputeInStep
<1> QED
  BY <1>3, <1>4, <1>5, <1>6, <1>7, <1>8, <1>9, <1>10, <1>11, <1>12, <1>13,
     <1>14, <1>15, <1>16, <1>17 DEF Next, Forward

(* Nothing is bound or enqueued at the start.                              *)
LEMMA InitStreams == Init => StreamInv
<1> SUFFICES ASSUME Init PROVE StreamInv
  OBVIOUS
<1>1. /\ tier = [l \in Layers |-> EmptyTier(Capacity)]
      /\ host = Idle /\ current = << >> /\ dma = << >>
      /\ held = [l \in Layers |-> [s \in Slots |-> None]]
  BY DEF Init
<1>2. IInv /\ Idle.pc = "idle"
  BY InitHolds DEF Idle
<1>3. StreamTypeOK
  BY <1>1 DEF StreamTypeOK
<1>4. InStep(dma, current)
  <2>1. Count(dma, Event) = 0 /\ Count(current, Wait) = 0
    <3>1. {i \in DOMAIN << >> : << >>[i] = Event} = {}
      OBVIOUS
    <3>2. {i \in DOMAIN << >> : << >>[i] = Wait} = {}
      OBVIOUS
    <3> QED
      BY <1>1, <3>1, <3>2, FS_EmptySet DEF Count
  <2> QED
    BY <1>1, <2>1 DEF InStep
<1>5. Foretold
  <2>1. \A l \in Layers, s \in Slots : tier[l].slot_to_expert[s] = None
    BY <1>1 DEF EmptyTier, Slots
  <2> QED
    BY <2>1 DEF Foretold
<1>6. Enqueued /\ Settled
  BY <1>1, <1>2 DEF Enqueued, Settled
<1> QED
  BY <1>2, <1>3, <1>4, <1>5, <1>6 DEF StreamInv, Streams

(* The invariant of the streams holds in every reachable state of the      *)
(* layers.                                                                 *)
THEOREM StreamInvariance == Spec => []StreamInv
<1>1. IInv /\ StreamInv /\ [Next]_tieredVars => StreamInv'
  BY NextKeeps, StreamsKeep
<1> QED
  BY Invariance, InitStreams, <1>1, PTL DEF Spec

(* Every variable has its type, the operations on the streams included.    *)
THEOREM TieredTypeCorrect == Spec => []TypeOK
<1>1. StreamInv => TypeOK
  <2> SUFFICES ASSUME StreamInv PROVE TypeOK
    OBVIOUS
  <2>1. CopyOps \subseteq Operations(Slots) /\ RunOps \subseteq Operations(Slots)
    BY DEF CopyOps, RunOps, Operations, Copy, Run
  <2>2. \A S, T : S \subseteq T => Seq(S) \subseteq Seq(T)
    OBVIOUS
  <2>3. current \in Seq(Operations(Slots)) /\ dma \in Seq(Operations(Slots))
    BY <2>1, <2>2 DEF StreamInv, Streams, StreamTypeOK
  <2> QED
    BY <2>3 DEF StreamInv, Streams, StreamTypeOK, IInv, HostTypeOK, TypeOK
<1> QED
  BY StreamInvariance, <1>1, PTL

(* Whatever the capacity and however the streams interleave, no            *)
(* computation starts while the transfer of its expert into its slot is    *)
(* still ahead: the wait that precedes it consumes an event behind the     *)
(* transfer (placement.py:160-162, 304).                                   *)
THEOREM WeightsAlwaysArrived == Spec => []WeightsArrived
<1>1. StreamInv => WeightsArrived
  <2> SUFFICES ASSUME StreamInv, current # << >>, Head(current).op = "run",
                      NEW j \in DOMAIN dma,
                      [dma[j] EXCEPT !.op = "run"] = Head(current)
               PROVE  FALSE
    BY DEF WeightsArrived
  <2>1. /\ current \in Seq(RunOps) /\ dma \in Seq(CopyOps) /\ InStep(dma, current)
    BY DEF StreamInv, Streams, StreamTypeOK
  <2>2. 1 \in DOMAIN current /\ current[1] = Head(current) /\ current[1] \in RunOps
    BY <2>1
  <2>3. j \in Nat /\ dma[j] \in CopyOps
    BY <2>1
  <2>4. PICK l \in Layers, s \in Slots, e \in Experts : current[1] = Run(l, s, e)
    BY <2>2 DEF RunOps, Wait
  <2>5. dma[j] # Event
    <3> SUFFICES ASSUME dma[j] = Event PROVE FALSE
      OBVIOUS
    <3>1. [Event EXCEPT !.op = "run"] = Run(l, s, e)
      BY <2>2, <2>4
    <3>2. DOMAIN [Event EXCEPT !.op = "run"] = {"op"}
      BY DEF Event
    <3>3. "layer" \in DOMAIN Run(l, s, e)
      BY DEF Run
    <3> QED
      BY <3>1, <3>2, <3>3
  <2>6. PICK k \in Layers, t \in Slots, x \in Experts : dma[j] = Copy(k, t, x)
    BY <2>3, <2>5 DEF CopyOps
  <2>7. Awaits(current[1], dma[j])
    <3>1. [Copy(k, t, x) EXCEPT !.op = "run"] = Run(k, t, x)
      BY DEF Copy, Run
    <3>2. Run(l, s, e) = Run(k, t, x)
      BY <2>2, <2>4, <2>6, <3>1
    <3>3. k = l /\ t = s /\ x = e
      BY <3>2 DEF Run
    <3> QED
      BY <2>4, <2>6, <3>3 DEF Awaits, Run, Copy
  <2>8. After(current, 1, Wait) < After(dma, j, Event)
    BY <2>2, <2>7, <2>1 DEF InStep
  <2>9. After(current, 1, Wait) = Count(current, Wait)
    <3>1. Head(current) # Wait
      BY DEF Wait
    <3>2. Tail(current) \in Seq(RunOps)
      BY <2>1
    <3>3. Count(Tail(current), Wait) = After(Tail(current), 0, Wait)
      BY <3>2, AfterType
    <3>4. /\ Count(current, Wait) = Count(Tail(current), Wait)
          /\ After(Tail(current), 0, Wait) = After(current, 0 + 1, Wait)
      BY <2>1, <3>1, AfterTail
    <3> QED
      BY <3>3, <3>4
  <2>10. /\ After(dma, j, Event) \in Nat /\ Count(dma, Event) \in Nat
         /\ After(dma, j, Event) <= Count(dma, Event)
         /\ Count(current, Wait) \in Nat
    <3>1. \A i \in Nat : Count(current, Wait) \in Nat
      BY <2>1, AfterType
    <3> QED
      BY <2>1, <2>3, <3>1, AfterType
  <2>11. Count(dma, Event) <= Count(current, Wait)
    BY <2>1 DEF InStep
  <2> QED
    BY <2>8, <2>9, <2>10, <2>11
<1> QED
  BY StreamInvariance, <1>1, PTL

(* In the last loop of a forward whose experts fit, every computation      *)
(* enqueued finds the weights of its own expert in its slot, although      *)
(* nothing keeps a transfer behind a computation: nothing is being         *)
(* transferred any more (placement.py:280-306).                            *)
THEOREM FittingAlwaysRunsOwn == Spec => []FittingRunsOwnWeights
<1>1. StreamInv => FittingRunsOwnWeights
  <2> SUFFICES ASSUME StreamInv, host.pc = "dispatch", Fits,
                      NEW i \in DOMAIN current, current[i].op = "run"
               PROVE  held[current[i].layer][current[i].slot] = current[i].expert
    BY DEF FittingRunsOwnWeights
  <2>1. /\ dma = << >>
        /\ tier[current[i].layer].slot_to_expert[current[i].slot] = current[i].expert
    BY DEF StreamInv, Settled
  <2>2. current[i] \in RunOps
    BY DEF StreamInv, Streams, StreamTypeOK
  <2>3. PICK l \in Layers, s \in Slots, e \in Experts : current[i] = Run(l, s, e)
    BY <2>2 DEF RunOps, Wait
  <2>4. current[i].layer = l /\ current[i].slot = s /\ current[i].expert = e
    BY <2>3 DEF Run
  <2>5. tier[l].slot_to_expert[s] = e /\ e # None
    BY <2>1, <2>4 DEF Experts, None
  <2>6. Brings(dma, held, l, s, e)
    BY <2>5 DEF StreamInv, Streams, Foretold
  <2>7. held[l][s] = e
    BY <2>1, <2>6 DEF Brings
  <2> QED
    BY <2>4, <2>7
<1> QED
  BY StreamInvariance, <1>1, PTL

(***************************************************************************)
(* Serving: what serve_huge_moe makes of the layers                        *)
(***************************************************************************)

(* A column of the sequence: one token of each row, or of the prompt.      *)
Column == {Prompt} \cup Columns

(* Where serve_huge_moe is, against the tokens it has: there is none until *)
(* the whole prompt has gone through the model.                            *)
ServeOrder ==
  /\ serve.pc = "prefill" => serve.start < PromptLen /\ produced = << >>
  /\ serve.pc \in {"decode", "done"} => produced # << >>
  /\ produced = << >> => generated = Prompts(PromptLen)
  /\ produced # << >> => serve.start = PromptLen

(* What the cache holds: the prompt as far as it was fed, and once there   *)
(* are tokens all of them, but for the last one until it has been fed.     *)
CacheHolds ==
  serve.cached =>
    /\ produced = << >> => past = Prompts(serve.start)
    /\ serve.pc = "decode"
         => past = Prompts(PromptLen) \o SubSeq(produced, 1, Len(produced) - 1)
    /\ serve.pc = "running" /\ produced # << >>
         => past = Prompts(PromptLen) \o produced

(* The tokens of row r that end it; the one of the prefill is not checked. *)
Ends(q, r) == {i \in 2..Len(q) : q[i][r] = Eos}

(* finished marks the rows that have ended, and the counts fit.            *)
RowsEnd ==
  \A r \in Rows :
    /\ produced = << >> => ~ serve.finished[r] /\ serve.counts[r] = 1
    /\ produced # << >> =>
         /\ serve.finished[r] <=> Ends(produced, r) # {}
         /\ Ends(produced, r) = {} => serve.counts[r] = Len(produced)
         /\ Ends(produced, r) # {} => serve.counts[r] = First(Ends(produced, r))

(* The sequences are of columns.                                           *)
ServeTyped ==
  /\ serve \in ServeStates
  /\ generated \in Seq(Column)
  /\ past \in Seq(Column)
  /\ produced \in Seq(Columns)

(* The inductive invariant of the serving loop.                            *)
ServeInv == ServeTyped /\ ServeOrder /\ CacheHolds /\ RowsEnd

(***************************************************************************)
(* Sequences of columns                                                    *)
(***************************************************************************)

(* A prompt is a sequence of columns of its length.                        *)
LEMMA PromptsType ==
  ASSUME NEW n \in Nat
  PROVE  Prompts(n) \in Seq(Column) /\ Len(Prompts(n)) = n
<1>1. \A i \in 1..n : Prompt \in Column
  BY DEF Column
<1> QED
  BY <1>1, IsASeq, LenProperties DEF Prompts

(* A chunk of the prompt, and the prompt up to its end.                    *)
LEMMA ChunkOfPrompt ==
  ASSUME NEW i \in Nat, NEW j \in Nat, NEW n \in Nat, i <= j, j <= n
  PROVE  /\ SubSeq(Prompts(n), i + 1, j) \in Seq(Column)
         /\ Len(SubSeq(Prompts(n), i + 1, j)) = j - i
         /\ Prompts(i) \o SubSeq(Prompts(n), i + 1, j) = Prompts(j)
<1> DEFINE p == Prompts(n)
           t == SubSeq(p, i + 1, j)
           a == Prompts(i)
           b == Prompts(j)
<1>1. /\ p \in Seq(Column) /\ Len(p) = n
      /\ a \in Seq(Column) /\ Len(a) = i
      /\ b \in Seq(Column) /\ Len(b) = j
  BY PromptsType
<1>2. /\ \A k \in 1..n : p[k] = Prompt
      /\ \A k \in 1..i : a[k] = Prompt
      /\ \A k \in 1..j : b[k] = Prompt
  BY DEF Prompts
<1> HIDE DEF p, a, b
<1>3. /\ t \in Seq(Column) /\ Len(t) = j - i
      /\ \A k \in 1..(j - i) : t[k] = Prompt
  <2>1. t \in Seq(Column) /\ Len(t) = j - i /\ \A k \in 1..(j - i) : t[k] = p[i + k]
    BY <1>1
  <2>2. \A k \in 1..(j - i) : i + k \in 1..n
    OBVIOUS
  <2> QED
    BY <1>2, <2>1, <2>2
<1> HIDE DEF t
<1>4. a \o t = b
  <2>1. /\ a \o t \in Seq(Column) /\ Len(a \o t) = j
        /\ \A k \in 1..j : (a \o t)[k] = IF k <= i THEN a[k] ELSE t[k - i]
    BY <1>1, <1>3, ConcatProperties
  <2>2. \A k \in 1..j : (a \o t)[k] = b[k]
    <3> TAKE k \in 1..j
    <3>1. CASE k <= i
      BY <1>2, <2>1, <3>1
    <3>2. CASE ~ (k <= i)
      <4>1. k - i \in 1..(j - i)
        BY <3>2
      <4> QED
        BY <1>2, <1>3, <2>1, <3>2, <4>1
    <3> QED
      BY <3>1, <3>2
  <2> QED
    BY <1>1, <2>1, <2>2, SeqEqual
<1> QED
  BY <1>3, <1>4 DEF p, t, a, b

(***************************************************************************)
(* The steps of the serving loop                                           *)
(***************************************************************************)

(* A chunk is not empty and ends within the prompt.                        *)
LEMMA ChunkAdvances ==
  ASSUME NEW s \in Nat, s < PromptLen
  PROVE  ChunkEnd(s) \in Nat /\ s < ChunkEnd(s) /\ ChunkEnd(s) <= PromptLen
BY ServeAssumption DEF ChunkEnd

(* The model is given at least one token position.                         *)
LEMMA FeedIsCall ==
  ASSUME NEW columns \in Seq(Column), columns # << >>, FeedModel(columns)
  PROVE  \E n \in Nat \ {0} : Call(n)
<1>1. Cardinality(Rows) \in Nat /\ Cardinality(Rows) # 0
  BY ServeAssumption, FS_CardinalityType, FS_EmptySet
<1>2. Len(columns) \in Nat /\ Len(columns) # 0
  OBVIOUS
<1>3. \A a, b \in Nat : a # 0 /\ b # 0 => a * b \in Nat \ {0}
  OBVIOUS
<1>4. Cardinality(Rows) * Len(columns) \in Nat \ {0}
  BY <1>1, <1>2, <1>3
<1> QED
  BY <1>4 DEF FeedModel

(* Feeding the next chunk of the prompt.                                   *)
LEMMA PrefillKeeps ==
  ASSUME ServeInv, Prefill
  PROVE  ServeInv' /\ \E n \in Nat \ {0} : Call(n)
<1> DEFINE end == ChunkEnd(serve.start)
           columns == SubSeq(generated, serve.start + 1, end)
<1>1. /\ serve \in ServeStates /\ generated \in Seq(Column)
      /\ past \in Seq(Column) /\ produced \in Seq(Columns)
      /\ ServeOrder /\ CacheHolds /\ RowsEnd
  BY DEF ServeInv, ServeTyped
<1>2. /\ serve.pc = "prefill" /\ FeedModel(columns)
      /\ serve' = [serve EXCEPT !.pc = "running", !.start = end]
  BY DEF Prefill
<1>3. /\ past' = IF serve.cached THEN past \o columns ELSE past
      /\ UNCHANGED <<generated, produced>>
  BY <1>2 DEF FeedModel
<1>4. /\ serve.start \in 0..PromptLen /\ serve.start < PromptLen
      /\ produced = << >> /\ generated = Prompts(PromptLen)
  BY <1>1, <1>2 DEF ServeOrder, ServeStates
<1>5. /\ end \in Nat /\ serve.start < end /\ end <= PromptLen
      /\ serve.start \in Nat /\ end \in 0..PromptLen /\ PromptLen \in Nat
  <2>1. PromptLen \in Nat /\ serve.start \in Nat
    BY <1>4, ServeAssumption
  <2>2. end \in Nat /\ serve.start < end /\ end <= PromptLen
    BY <1>4, <2>1, ChunkAdvances
  <2> QED
    BY <2>1, <2>2
<1> HIDE DEF end
<1>6. /\ columns \in Seq(Column) /\ columns # << >>
      /\ Prompts(serve.start) \o columns = Prompts(end)
  <2>1. /\ columns \in Seq(Column) /\ Len(columns) = end - serve.start
        /\ Prompts(serve.start) \o columns = Prompts(end)
    <3>1. serve.start <= end
      BY <1>5
    <3>2. columns = SubSeq(Prompts(PromptLen), serve.start + 1, end)
      BY <1>4
    <3> HIDE DEF columns
    <3> QED
      BY <1>5, <3>1, <3>2, ChunkOfPrompt
  <2> HIDE DEF columns
  <2> QED
    BY <1>5, <2>1
<1> HIDE DEF columns
<1>7. /\ serve' \in ServeStates /\ serve'.pc = "running" /\ serve'.start = end
      /\ serve'.cached = serve.cached /\ serve'.finished = serve.finished
      /\ serve'.counts = serve.counts
  <2>1. /\ serve \in ServeStates /\ end \in 0..PromptLen
        /\ serve' = [serve EXCEPT !.pc = "running", !.start = end]
    BY <1>1, <1>2, <1>5
  <2> QED
    BY ONLY <2>1 DEF ServeStates
<1>8. past' \in Seq(Column)
  BY <1>1, <1>3, <1>6, ConcatProperties
<1>9. ServeTyped' /\ ServeOrder' /\ RowsEnd'
  BY <1>1, <1>3, <1>4, <1>7, <1>8 DEF ServeTyped, ServeOrder, RowsEnd, Column, Columns, Prompt
<1>10. CacheHolds'
  BY <1>1, <1>3, <1>4, <1>6, <1>7 DEF CacheHolds
<1> QED
  BY <1>2, <1>6, <1>9, <1>10, FeedIsCall DEF ServeInv

(* Feeding the last column, or the whole sequence with it.                 *)
LEMMA DecodeKeeps ==
  ASSUME ServeInv, Decode
  PROVE  ServeInv' /\ \E n \in Nat \ {0} : Call(n)
<1> DEFINE columns == IF serve.cached THEN <<NextToken>> ELSE Append(generated, NextToken)
           n == Len(produced)
<1>1. /\ serve \in ServeStates /\ generated \in Seq(Column)
      /\ past \in Seq(Column) /\ produced \in Seq(Columns)
      /\ ServeOrder /\ CacheHolds /\ RowsEnd
  BY DEF ServeInv, ServeTyped
<1>2. /\ serve.pc = "decode" /\ FeedModel(columns)
      /\ serve' = [serve EXCEPT !.pc = "running"]
  BY DEF Decode
<1>3. /\ past' = IF serve.cached THEN past \o columns ELSE past
      /\ UNCHANGED <<generated, produced>>
  BY <1>2 DEF FeedModel
<1>4. produced # << >> /\ serve.start = PromptLen
  BY <1>1, <1>2 DEF ServeOrder
<1>5. n \in Nat \ {0} /\ NextToken \in Columns /\ NextToken \in Column /\ NextToken = produced[n]
  BY <1>1, <1>4 DEF NextToken, Column
<1>6. columns \in Seq(Column) /\ columns # << >>
  <2> HIDE DEF NextToken
  <2>1. <<NextToken>> \in Seq(Column) /\ <<NextToken>> # << >>
    BY <1>5
  <2>2. Append(generated, NextToken) \in Seq(Column) /\ Append(generated, NextToken) # << >>
    BY <1>1, <1>5
  <2> QED
    BY <2>1, <2>2
<1>7. /\ serve' \in ServeStates /\ serve'.pc = "running" /\ serve'.start = serve.start
      /\ serve'.cached = serve.cached /\ serve'.finished = serve.finished
      /\ serve'.counts = serve.counts
  BY <1>1, <1>2 DEF ServeStates
<1>8. past' \in Seq(Column)
  <2> HIDE DEF columns
  <2> QED
    BY <1>1, <1>3, <1>6, ConcatProperties
<1>9. ServeTyped' /\ ServeOrder' /\ RowsEnd'
  BY <1>1, <1>3, <1>4, <1>7, <1>8 DEF ServeTyped, ServeOrder, RowsEnd, Column, Columns, Prompt
<1>10. serve.cached => past' = Prompts(PromptLen) \o produced
  <2> SUFFICES ASSUME serve.cached PROVE past' = Prompts(PromptLen) \o produced
    OBVIOUS
  <2> DEFINE p == Prompts(PromptLen)
             t == SubSeq(produced, 1, n - 1)
  <2>1. past' = (p \o t) \o <<NextToken>>
    BY <1>1, <1>2, <1>3 DEF CacheHolds
  <2>2. p \in Seq(Column)
    BY PromptsType, ServeAssumption
  <2>3. t \in Seq(Columns) /\ t \o <<NextToken>> = produced
    BY <1>1, <1>4, <1>5
  <2>4. t \in Seq(Column) /\ <<NextToken>> \in Seq(Column)
    <3>1. Columns \subseteq Column
      BY DEF Column
    <3>2. Seq(Columns) \subseteq Seq(Column)
      BY <3>1
    <3> HIDE DEF t, NextToken
    <3> QED
      BY <1>5, <2>3, <3>2
  <2> HIDE DEF p, t, NextToken
  <2>5. (p \o t) \o <<NextToken>> = p \o (t \o <<NextToken>>)
    BY <2>2, <2>4, ConcatAssociative
  <2> QED
    BY <2>1, <2>3, <2>5 DEF p
<1>11. CacheHolds'
  BY <1>3, <1>4, <1>7, <1>10 DEF CacheHolds
<1> QED
  BY <1>2, <1>6, <1>9, <1>11, FeedIsCall DEF ServeInv

(* The model returns from a chunk that was not the last.                   *)
LEMMA ChunkDoneKeeps ==
  ASSUME ServeInv, ChunkDone
  PROVE  ServeInv'
<1>1. /\ serve \in ServeStates /\ serve.pc = "running" /\ produced = << >>
      /\ serve.start < PromptLen /\ serve' = [serve EXCEPT !.pc = "prefill"]
      /\ UNCHANGED <<generated, past, produced>>
  BY DEF ServeInv, ServeTyped, ChunkDone
<1>2. /\ serve' \in ServeStates /\ serve'.pc = "prefill" /\ serve'.start = serve.start
      /\ serve'.cached = serve.cached /\ serve'.finished = serve.finished
      /\ serve'.counts = serve.counts
  BY <1>1 DEF ServeStates
<1> QED
  BY <1>1, <1>2 DEF ServeInv, ServeTyped, ServeOrder, CacheHolds, RowsEnd,
     Column, Columns, Prompt

(* The first token: no row is checked for it, and generated_ids stays.     *)
LEMMA PrefillDoneKeeps ==
  ASSUME ServeInv, NEW column \in Columns, PrefillDone(column)
  PROVE  ServeInv'
<1>1. /\ serve \in ServeStates /\ generated \in Seq(Column)
      /\ past \in Seq(Column) /\ produced \in Seq(Columns)
      /\ ServeOrder /\ CacheHolds /\ RowsEnd
  BY DEF ServeInv, ServeTyped
<1>2. /\ serve.pc = "running" /\ produced = << >> /\ serve.start = PromptLen
      /\ produced' = <<column>>
      /\ \/ serve' = [serve EXCEPT !.pc = "decode"]
         \/ serve' = [serve EXCEPT !.pc = "done"]
      /\ UNCHANGED <<generated, past>>
  BY DEF PrefillDone
<1>3. /\ serve' \in ServeStates /\ serve'.pc \in {"decode", "done"}
      /\ serve'.start = PromptLen
      /\ serve'.cached = serve.cached /\ serve'.finished = serve.finished
      /\ serve'.counts = serve.counts
  BY <1>1, <1>2 DEF ServeStates
<1>4. /\ produced' \in Seq(Columns) /\ produced' # << >> /\ Len(produced') = 1
      /\ SubSeq(produced', 1, Len(produced') - 1) = << >>
  BY <1>2
<1>5. ServeTyped' /\ ServeOrder'
  BY <1>1, <1>2, <1>3, <1>4 DEF ServeTyped, ServeOrder, Column, Columns, Prompt
<1>6. CacheHolds'
  <2>1. serve.cached => past = Prompts(PromptLen)
    BY <1>1, <1>2 DEF CacheHolds
  <2>2. Prompts(PromptLen) \o << >> = Prompts(PromptLen)
    <3>1. Prompts(PromptLen) \in Seq(Column)
      BY PromptsType, ServeAssumption
    <3> QED
      BY <3>1
  <2> QED
    BY <1>2, <1>3, <1>4, <2>1, <2>2 DEF CacheHolds
<1>7. RowsEnd'
  <2>1. \A r \in Rows : Ends(produced', r) = {}
    BY <1>4 DEF Ends
  <2>2. \A r \in Rows : ~ serve.finished[r] /\ serve.counts[r] = 1
    BY <1>1, <1>2 DEF RowsEnd
  <2> QED
    BY <1>3, <1>4, <2>1, <2>2 DEF RowsEnd
<1> QED
  BY <1>5, <1>6, <1>7 DEF ServeInv

(* One more column ends the rows it is Eos for.                            *)
LEMMA EndsAppend ==
  ASSUME NEW q \in Seq(Columns), q # << >>, NEW column \in Columns, NEW r \in Rows
  PROVE  /\ column[r] = Eos
              => Ends(Append(q, column), r) = Ends(q, r) \cup {Len(q) + 1}
         /\ column[r] # Eos => Ends(Append(q, column), r) = Ends(q, r)
         /\ \A i \in Ends(q, r) : i \in Nat /\ i < Len(q) + 1
<1> DEFINE n == Len(q)
           t == Append(q, column)
<1>1. /\ n \in Nat \ {0} /\ Len(t) = n + 1 /\ t[n + 1] = column
      /\ \A k \in 1..n : t[k] = q[k]
  BY AppendProperties, LenProperties
<1> HIDE DEF n, t
<1>2. /\ \A i \in 2..(n + 1) : i \in 2..n \/ i = n + 1
      /\ \A i \in 2..n : i \in 2..(n + 1) /\ i \in 1..n /\ i \in Nat /\ i < n + 1
      /\ n + 1 \in 2..(n + 1)
  BY <1>1
<1> QED
  BY <1>1, <1>2 DEF Ends, n, t

(* The first of a set does not change when a later number joins it.        *)
LEMMA FirstStays ==
  ASSUME NEW S \in SUBSET Nat, S # {}, NEW n \in Nat, \A i \in S : i < n
  PROVE  First(S \cup {n}) = First(S)
<1> DEFINE T == S \cup {n}
           a == First(S)
           b == First(T)
<1>1. a \in S /\ \A x \in S : a <= x
  BY LeastNatural DEF First
<1>2. T \in SUBSET Nat /\ T # {}
  OBVIOUS
<1> HIDE DEF T
<1>3. b \in T /\ \A x \in T : b <= x
  BY <1>2, LeastNatural DEF First
<1> HIDE DEF a, b
<1>4. a \in T
  BY <1>1 DEF T
<1>5. b <= a /\ b # n
  BY <1>1, <1>3, <1>4
<1>6. b \in S /\ a \in Nat /\ b \in Nat
  BY <1>1, <1>3, <1>5 DEF T
<1>7. a <= b
  BY <1>1, <1>6
<1>8. a = b
  BY <1>5, <1>6, <1>7
<1> QED
  BY <1>8 DEF a, b, T

(* The first of one step.                                                  *)
LEMMA FirstOne ==
  ASSUME NEW n \in Nat
  PROVE  First({n}) = n
BY FirstMember

(* A row is counted on as long as it has not ended.                        *)
LEMMA CountedType ==
  ASSUME NEW f \in [Rows -> BOOLEAN], NEW c \in [Rows -> Nat]
  PROVE  /\ Counted(c, f) \in [Rows -> Nat]
         /\ \A r \in Rows : /\ f[r] => Counted(c, f)[r] = c[r]
                            /\ ~ f[r] => Counted(c, f)[r] = c[r] + 1
<1>1. ASSUME NEW r \in Rows
      PROVE  (IF f[r] THEN c[r] ELSE c[r] + 1) \in Nat
  <2>1. c[r] \in Nat /\ c[r] + 1 \in Nat
    OBVIOUS
  <2>2. CASE f[r]
    BY <2>1, <2>2, Zenon
  <2>3. CASE ~ f[r]
    BY <2>1, <2>3, Zenon
  <2> QED
    BY <2>2, <2>3
<1> QED
  BY <1>1, Zenon DEF Counted

(* One more token of every row; a row that had ended is not counted.       *)
LEMMA DecodeDoneKeeps ==
  ASSUME ServeInv, NEW column \in Columns, DecodeDone(column)
  PROVE  ServeInv'
<1> DEFINE finished == [r \in Rows |-> serve.finished[r] \/ column[r] = Eos]
           counts == Counted(serve.counts, serve.finished)
           n == Len(produced)
<1>1. /\ serve \in ServeStates /\ generated \in Seq(Column)
      /\ past \in Seq(Column) /\ produced \in Seq(Columns)
      /\ ServeOrder /\ CacheHolds /\ RowsEnd
  BY DEF ServeInv, ServeTyped
<1>2. /\ serve.pc = "running" /\ produced # << >>
      /\ produced' = Append(produced, column)
      /\ generated' = Append(generated, column)
      /\ UNCHANGED past
  BY DEF DecodeDone
<1>3. PICK pc \in {"decode", "done"} :
        serve' = [serve EXCEPT !.pc = pc, !.step = @ + 1,
                               !.finished = finished, !.counts = counts]
  BY DEF DecodeDone, AfterStep
<1>4. /\ serve.finished \in [Rows -> BOOLEAN] /\ serve.counts \in [Rows -> Nat]
      /\ serve.step \in Nat
  BY <1>1 DEF ServeStates
<1>5. /\ finished \in [Rows -> BOOLEAN] /\ counts \in [Rows -> Nat]
      /\ \A r \in Rows : /\ finished[r] <=> (serve.finished[r] \/ column[r] = Eos)
                         /\ serve.finished[r] => counts[r] = serve.counts[r]
                         /\ ~ serve.finished[r] => counts[r] = serve.counts[r] + 1
  <2>1. /\ finished \in [Rows -> BOOLEAN]
        /\ \A r \in Rows : finished[r] <=> (serve.finished[r] \/ column[r] = Eos)
    BY Zenon
  <2>2. /\ counts \in [Rows -> Nat]
        /\ \A r \in Rows : /\ serve.finished[r] => counts[r] = serve.counts[r]
                           /\ ~ serve.finished[r] => counts[r] = serve.counts[r] + 1
    BY <1>4, CountedType
  <2> HIDE DEF finished, counts
  <2> QED
    BY <2>1, <2>2, Zenon
<1> HIDE DEF finished, counts
<1>6. /\ serve' \in ServeStates /\ serve'.pc \in {"decode", "done"}
      /\ serve'.start = serve.start /\ serve'.cached = serve.cached
      /\ serve'.finished = finished /\ serve'.counts = counts
  <2>1. finished \in [Rows -> BOOLEAN] /\ counts \in [Rows -> Nat]
    BY <1>5
  <2>2. serve.step + 1 \in Nat
    BY <1>4
  <2> QED
    BY ONLY <1>1, <1>3, <2>1, <2>2 DEF ServeStates
<1>7. /\ produced' \in Seq(Columns) /\ produced' # << >>
      /\ Len(produced') = n + 1 /\ n \in Nat \ {0}
      /\ SubSeq(produced', 1, Len(produced') - 1) = produced
  BY <1>1, <1>2
<1>8. generated' \in Seq(Column)
  BY <1>1, <1>2 DEF Column
<1>9. ServeTyped'
  BY <1>1, <1>2, <1>6, <1>7, <1>8 DEF ServeTyped, Column, Columns, Prompt
<1>10. ServeOrder'
  BY <1>1, <1>2, <1>6, <1>7 DEF ServeOrder
<1>11. CacheHolds'
  BY <1>1, <1>2, <1>6, <1>7 DEF CacheHolds
<1>12. RowsEnd'
  <2> SUFFICES ASSUME NEW r \in Rows
               PROVE  /\ finished[r] <=> Ends(produced', r) # {}
                      /\ Ends(produced', r) = {} => counts[r] = n + 1
                      /\ Ends(produced', r) # {} => counts[r] = First(Ends(produced', r))
    BY <1>6, <1>7 DEF RowsEnd
  <2> DEFINE D == Ends(produced, r)
             E == Ends(produced', r)
  <2> SUFFICES /\ finished[r] <=> E # {}
               /\ E = {} => counts[r] = n + 1
               /\ E # {} => counts[r] = First(E)
    OBVIOUS
  <2>1. /\ serve.finished[r] <=> D # {}
        /\ D = {} => serve.counts[r] = n
        /\ D # {} => serve.counts[r] = First(D)
    BY <1>1, <1>2 DEF RowsEnd
  <2>2. /\ column[r] = Eos => E = D \cup {n + 1}
        /\ column[r] # Eos => E = D
        /\ D \in SUBSET Nat /\ \A i \in D : i < n + 1
    BY <1>1, <1>2, EndsAppend
  <2>3. n + 1 \in Nat
    BY <1>7
  <2> HIDE DEF D, E, n
  <2>4. CASE D = {} /\ column[r] # Eos
    BY <1>5, <2>1, <2>2, <2>4, Zenon
  <2>5. CASE D = {} /\ column[r] = Eos
    <3>1. E = {n + 1}
      BY <2>2, <2>5
    <3>2. First(E) = n + 1
      BY <2>3, <3>1, FirstOne
    <3> QED
      BY <1>5, <2>1, <2>5, <3>1, <3>2, Zenon
  <2>6. CASE D # {} /\ column[r] # Eos
    BY <1>5, <2>1, <2>2, <2>6, Zenon
  <2>7. CASE D # {} /\ column[r] = Eos
    <3>1. First(E) = First(D) /\ E # {}
      BY <2>2, <2>3, <2>7, FirstStays
    <3> QED
      BY <1>5, <2>1, <2>7, <3>1, Zenon
  <2> QED
    BY <2>4, <2>5, <2>6, <2>7
<1> QED
  BY <1>9, <1>10, <1>11, <1>12 DEF ServeInv

(* The loop starts with nothing fed and nothing produced.                  *)
LEMMA ServeStarts == ServeInit => ServeInv
<1> SUFFICES ASSUME ServeInit PROVE ServeInv
  OBVIOUS
<1>1. /\ serve.pc = "prefill" /\ serve.cached \in BOOLEAN /\ serve.start = 0
      /\ serve \in [pc : {"prefill"}, cached : BOOLEAN, start : {0},
                    step : {0}, finished : {[r \in Rows |-> FALSE]},
                    counts : {[r \in Rows |-> 1]}]
      /\ serve.finished = [r \in Rows |-> FALSE]
      /\ serve.counts = [r \in Rows |-> 1]
      /\ generated = Prompts(PromptLen) /\ past = << >> /\ produced = << >>
  BY DEF ServeInit
<1>2. PromptLen \in Nat \ {0} /\ 0 \in 0..PromptLen
  BY ServeAssumption
<1>3. serve \in ServeStates
  <2>1. [r \in Rows |-> FALSE] \in [Rows -> BOOLEAN] /\ [r \in Rows |-> 1] \in [Rows -> Nat]
    OBVIOUS
  <2>2. /\ {"prefill"} \subseteq {"prefill", "running", "decode", "done"}
        /\ {0} \subseteq 0..PromptLen /\ {0} \subseteq Nat
        /\ {[r \in Rows |-> FALSE]} \subseteq [Rows -> BOOLEAN]
        /\ {[r \in Rows |-> 1]} \subseteq [Rows -> Nat]
    BY <1>2, <2>1
  <2> QED
    BY <1>1, <2>2, Zenon DEF ServeStates
<1>4. generated \in Seq(Column) /\ past \in Seq(Column) /\ produced \in Seq(Columns)
  BY <1>1, <1>2, PromptsType
<1>5. Prompts(0) = << >>
  BY DEF Prompts
<1> QED
  BY <1>1, <1>2, <1>3, <1>4, <1>5 DEF ServeInv, ServeTyped, ServeOrder, CacheHolds, RowsEnd

(* Whatever happens, the loop keeps its invariant, and the layers take a   *)
(* step of theirs or none.                                                 *)
LEMMA ServeStepKeeps ==
  ASSUME ServeInv, [ServeNext]_hugeVars
  PROVE  ServeInv' /\ [Next]_tieredVars
<1>1. CASE Prefill
  BY <1>1, PrefillKeeps DEF Next
<1>2. CASE Decode
  BY <1>2, DecodeKeeps DEF Next
<1>3. CASE ChunkDone
  BY <1>3, ChunkDoneKeeps DEF ChunkDone
<1>4. CASE \E column \in Columns : PrefillDone(column)
  BY <1>4, PrefillDoneKeeps DEF PrefillDone
<1>5. CASE \E column \in Columns : DecodeDone(column)
  BY <1>5, DecodeDoneKeeps DEF DecodeDone
<1>6. CASE UNCHANGED serveVars /\ [Next]_tieredVars
  BY <1>6 DEF serveVars, ServeInv, ServeTyped, ServeOrder, CacheHolds, RowsEnd,
     Column, Columns, Prompt
<1>7. CASE ModelStep \/ ((ReadFails \/ CopyWeights \/ Compute) /\ UNCHANGED serveVars)
  <2>1. UNCHANGED serveVars /\ Next
    BY <1>7 DEF ModelStep, Next
  <2> QED
    BY <1>6, <2>1
<1>8. CASE UNCHANGED hugeVars
  BY <1>6, <1>8 DEF hugeVars
<1> QED
  BY <1>1, <1>2, <1>3, <1>4, <1>5, <1>7, <1>8 DEF ServeNext, ServeStep

(***************************************************************************)
(* Theorems                                                                *)
(***************************************************************************)

(* Serving uses the layers as their specification says: every call of the  *)
(* model has at least one token position and comes when the one before is  *)
(* over (serve.py:172-187, 218-226).  All that holds of TieredMoE by       *)
(* itself therefore holds while serving.                                   *)
THEOREM ServeImplementsTiers == ServeSpec => Spec
<1>1. ServeInit => Init
  BY DEF ServeInit
<1>2. ServeInv /\ [ServeNext]_hugeVars => ServeInv' /\ [Next]_tieredVars
  BY ServeStepKeeps
<1> QED
  BY ServeStarts, <1>1, <1>2, PTL DEF ServeSpec, Spec

(* For any batch, prompt, chunk and limit, every variable has its type,    *)
(* with a cache each call of the decode loop sees every column once, and   *)
(* the count of a row stands still once the row has produced its end of    *)
(* sequence (serve.py:172-187, 218-226, 242-247).                          *)
THEOREM RowsAlwaysKeepStep == ServeSpec => []RowsKeepStep
<1>1. ServeSpec => []ServeInv
  <2>1. ServeInv /\ [ServeNext]_hugeVars => ServeInv'
    BY ServeStepKeeps
  <2> QED
    BY ServeStarts, <2>1, PTL DEF ServeSpec
<1>2. ServeInv /\ TypeOK => RowsKeepStep
  <2> SUFFICES ASSUME ServeInv, TypeOK PROVE RowsKeepStep
    OBVIOUS
  <2>1. ServeTypeOK
    BY DEF ServeInv, ServeTyped, ServeTypeOK, Column
  <2>2. CacheFollows
    BY DEF ServeInv, CacheHolds, CacheFollows
  <2>3. CountsStop
    <3> SUFFICES ASSUME produced # << >>, NEW r \in Rows
                 PROVE  serve.counts[r] = IF Ends(produced, r) = {} THEN Len(produced)
                                          ELSE First(Ends(produced, r))
      BY DEF CountsStop, Ends
    <3> QED
      BY DEF ServeInv, RowsEnd
  <2> QED
    BY <2>1, <2>2, <2>3 DEF RowsKeepStep
<1>3. Spec => []TypeOK
  BY TieredTypeCorrect
<1> QED
  BY ServeImplementsTiers, <1>1, <1>2, <1>3, PTL

(* While serving, no computation starts before the weights of its expert   *)
(* have arrived, and a layer whose experts fit keeps them resident and     *)
(* runs each on its own weights (placement.py:160-162, 267-306).           *)
THEOREM ServingRunsOwnWeights ==
  ServeSpec => [](WeightsArrived /\ FittingStaysResident /\ FittingRunsOwnWeights)
BY ServeImplementsTiers, WeightsAlwaysArrived, FittingAlwaysResident,
   FittingAlwaysRunsOwn, PTL
=============================================================================
