-------------------------- MODULE ColumnDirectory --------------------------
(***************************************************************************)
(* Which columns of the experts of a layer are on the device               *)
(* (colossus/directory.py), as ColossusMoEHook uses it: to tell which      *)
(* columns of a prediction are there, and to run an expert in two parts,   *)
(* the columns that are there and the others (hook.py, sa_ffn.py).         *)
(* The predictor's scores are arbitrary: it may rank the experts in any    *)
(* order and prefer any columns of each.                                   *)
(* Bounds: at most MaxCommits commits, MaxPredictions predictions.         *)
(***************************************************************************)
EXTENDS Integers, Sequences, FiniteSets, Functions

CONSTANTS DirExperts, DirColumns,    \* columns are numbered from 1
          SlotsPerExpert,            \* capacity_per_expert
          Preset,                    \* budgets, one per planned expert
          NumColExperts, TopCols,    \* of the predictor
          MaxCommits, MaxPredictions

ASSUME DirectoryAssumption ==
  /\ IsFiniteSet(DirExperts) /\ IsFiniteSet(DirColumns) /\ DirColumns \subseteq Nat
  /\ SlotsPerExpert \in Nat /\ Preset \in Seq(Nat)

VARIABLES resident,   \* (expert, column) pairs on the device
          stamps,     \* the commit that last touched each of them
          tick,       \* commits so far
          plan,       \* the plan committed last
          predictions, counts,  \* calls of predict_for; _hits_count, _misses_count
          split       \* the last expert run: [expert, cached, missed]

dirVars == <<resident, stamps, tick, plan, predictions, counts, split>>

(* BUDGET_PRESETS["tiered_fwd"]: fifty columns of five experts and         *)
(* twenty-five of three.                                                   *)
TieredForward == [k \in 1 .. 8 |-> IF k <= 5 THEN 50 ELSE 25]

(* plan_fixed_packets: the first experts of a ranking get the budgets.     *)
PlanFixedPackets(ranking, budgets) ==
  LET n == IF Len(ranking) < Len(budgets) THEN Len(ranking) ELSE Len(budgets)
  IN  [e \in {ranking[k] : k \in 1 .. n} |-> budgets[CHOOSE k \in 1 .. n : ranking[k] = e]]

(* predict_experts and predict_columns: a ranking of all experts and, for  *)
(* the first of them, the columns with the most energy.                    *)
Rankings == {r \in [1 .. Cardinality(DirExperts) -> DirExperts] : IsInjective(r)}
Trimmed(r) ==
  LET packet == PlanFixedPackets(r, Preset)
      columns(e) == IF \E k \in 1 .. NumColExperts : r[k] = e THEN IF packet[e] < TopCols THEN packet[e] ELSE TopCols ELSE 0
  IN  {p \in [DOMAIN packet -> SUBSET DirColumns] : \A e \in DOMAIN packet : Cardinality(p[e]) = columns(e)}
Plans == UNION {Trimmed(r) : r \in Rankings}

-----------------------------------------------------------------------------
Pairs(p) == UNION {{e} \X p[e] : e \in DOMAIN p}
Hits(p) == [e \in {d \in DOMAIN p : \E c \in p[d] : <<d, c>> \in resident} |-> {c \in p[e] : <<e, c>> \in resident}]
Misses(p) == [e \in {d \in DOMAIN p : ~({d} \X p[d] \subseteq resident)} |-> {c \in p[e] : <<e, c>> \notin resident}]
(* predicted_resident_ratio, in percent. *)
ResidentRatio(p) ==
  IF Pairs(p) = {} THEN 100 ELSE (100 * Cardinality(Pairs(Hits(p)))) \div Cardinality(Pairs(p))

DirInit ==
  /\ resident = {} /\ stamps = <<>> /\ tick = 0 /\ plan = <<>>
  /\ predictions = 0 /\ counts = <<0, 0>> /\ split = <<>>

(* The columns of an expert beyond its capacity: those with the oldest     *)
(* stamps, and of the same age the lower numbers.                          *)
Older(stamp, j, k) == stamp[j] < stamp[k] \/ (stamp[j] = stamp[k] /\ j[2] < k[2])
Before(owned, stamp) == [k \in owned |-> {j \in owned : Older(stamp, j, k)}]
FaultyOldest(owned, stamp) ==
  {k \in owned : Cardinality(Before(owned, stamp)[k]) >= SlotsPerExpert}
Oldest(owned, stamp) ==
  {k \in owned : Cardinality(Before(owned, stamp)[k]) < Cardinality(owned) - SlotsPerExpert}

Commit(p) ==
  LET touched == resident \cup Pairs(p)
      stamp == [k \in touched |-> IF k \in Pairs(p) THEN tick + 1 ELSE stamps[k]]
      evicted == UNION {Oldest({k \in touched : k[1] = e}, stamp) : e \in DOMAIN p}
  IN  /\ tick < MaxCommits
      /\ resident' = touched \ evicted
      /\ stamps' = [k \in touched \ evicted |-> stamp[k]]
      /\ tick' = tick + 1
      /\ plan' = p

(* The columns of a plan are transferred. *)
CommitPlan(p) == Commit(p) /\ UNCHANGED <<predictions, counts, split>>

(* predict_for: what of a prediction is there is counted, nothing is moved. *)
PredictFor(p) ==
  /\ predictions < MaxPredictions
  /\ predictions' = predictions + 1
  /\ counts' = <<counts[1] + Cardinality(Pairs(Hits(p))), counts[2] + Cardinality(Pairs(Misses(p)))>>
  /\ UNCHANGED <<resident, stamps, tick, plan, split>>

(* execute_expert_sa: an expert of which nothing is there starts with its  *)
(* first columns; what is there is touched, and the sum of both parts is   *)
(* the expert's output.  The missed columns do not become resident.        *)
Cached(e) ==
  LET there == {c \in DirColumns : <<e, c>> \in resident}
  IN  IF there = {} THEN {c \in DirColumns : c <= SlotsPerExpert} ELSE there
FaultyMissed(e) == {c \in DirColumns : c > Cardinality(Cached(e))}
Missed(e) == DirColumns \ Cached(e)
ExecuteExpert(e) ==
  /\ Commit([d \in {e} |-> Cached(e)])
  /\ split' = [expert |-> e, cached |-> Cached(e), missed |-> Missed(e)]
  /\ UNCHANGED <<predictions, counts>>

DirNext ==
  \/ \E p \in Plans : CommitPlan(p) \/ PredictFor(p)
  \/ \E e \in DirExperts : ExecuteExpert(e)

-----------------------------------------------------------------------------
(* No expert holds more columns than it has slots, a plan that fits is     *)
(* resident once it is committed (the hiding condition of directory.py:86  *)
(* holds at 100 %), and one that does not fit fills its experts' slots.    *)
(* Every column of an expert is in just one part of its execution, however *)
(* its columns came to be there ("lossless", hook.py:337).                 *)
DirectoryHolds ==
  /\ \A e \in DirExperts : Cardinality({k \in resident : k[1] = e}) <= SlotsPerExpert
  /\ DOMAIN stamps = resident
  /\ \A e \in DOMAIN plan :
       IF Cardinality(plan[e]) <= SlotsPerExpert
       THEN {e} \X plan[e] \subseteq resident
       ELSE {k \in resident : k[1] = e} \subseteq {e} \X plan[e] /\ Cardinality({k \in resident : k[1] = e}) = SlotsPerExpert
  /\ (\A e \in DOMAIN plan : Cardinality(plan[e]) <= SlotsPerExpert) <=> ResidentRatio(plan) = 100 /\ DOMAIN Misses(plan) = {}
  /\ split # <<>> => split.cached \cup split.missed = DirColumns /\ split.cached \cap split.missed = {}
=============================================================================
