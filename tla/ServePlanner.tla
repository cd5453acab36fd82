---------------------------- MODULE ServePlanner ----------------------------
(***************************************************************************)
(* bhaskera-infer --plan: what a checkpoint weighs (colossus/inspector.py),*)
(* what the machine has (hwprobe.py) and which ways of serving the one on  *)
(* the other fit, best first (feasibility.py).  Pure arithmetic over what  *)
(* was discovered, in integers: sizes in MB, bandwidths in GB/s (MB per    *)
(* ms), times in ms, throughput in hundredths of a token per second.       *)
(***************************************************************************)
EXTENDS Integers, FiniteSets, Sequences, SequencesExt

FixedMsPerLayer == 20

AtLeast(x, n) == IF x < n THEN n ELSE x
Default(x, d) == IF x = 0 THEN d ELSE x
Absolute(x) == IF x < 0 THEN 0 - x ELSE x

-----------------------------------------------------------------------------
(* A tensor of a checkpoint: [container, shared, mb, type, role, shape].   *)
(* `container` is the name before the index of an expert, "none" outside.  *)
IsRoutedKey(t) == ~t.shared /\ t.container \in {"experts", "local_experts", "routed_experts"}

Bytes(tensors) == FoldLeft(LAMBDA n, t : n + t.mb, 0, tensors)
OfType(tensors, type) == SelectSeq(tensors, LAMBDA t : t.type = type)

(* The data type is the one most bytes have, the first of several met.     *)
TopType(tensors) ==
  LET heaviest == SelectSeq(tensors, LAMBDA t : \A u \in ToSet(tensors) :
                                       Bytes(OfType(tensors, u.type)) <= Bytes(OfType(tensors, t.type)))
  IN  IF tensors = <<>> THEN "BF16" ELSE heaviest[1].type

(* inspect_handles: one tensor after the other.  The intermediate size is  *)
(* that of the first gate or up projection, the hidden size that of the    *)
(* last embedding.                                                         *)
Inspected(seen, t) ==
  IF IsRoutedKey(t)
  THEN [seen EXCEPT !.total = @ + t.mb, !.routed = @ + t.mb, !.experts = @ + 1,
                    !.inter = IF @ = 0 /\ Len(t.shape) = 2 /\ t.role \in {"gate", "up"} THEN t.shape[1] ELSE @]
  ELSE [seen EXCEPT !.total = @ + t.mb, !.resident = @ + t.mb,
                    !.hidden = IF Len(t.shape) = 2 /\ t.role = "embedding" THEN t.shape[2] ELSE @]
InspectHandles(tensors) ==
  FoldLeft(LAMBDA seen, t : Inspected(seen, t),
           [total |-> 0, resident |-> 0, routed |-> 0, type |-> TopType(tensors), experts |-> 0, hidden |-> 0, inter |-> 0],
           tensors)

(* describe_model over a ModelProfile [experts, shared, perToken, layers]; *)
(* the layers are all decoder layers, dense ones too.                      *)
DescribeModel(tensors, profile) ==
  LET w == InspectHandles(tensors)
  IN  [weights |-> w, routed |-> profile.experts, shared |-> profile.shared, topK |-> profile.perToken,
       layers |-> profile.layers, hidden |-> w.hidden,
       tiered |-> profile.experts > 1, cpuPlacement |-> w.type \in {"BF16", "F16", "F32"},
       layersKnown |-> profile.layers > 0]

(* probe: the machine as the planner is told of it.  Without a driver      *)
(* there is no card and no transfer to measure; best-of-n is exact here.   *)
Probe(machine) ==
  [gpus |-> IF machine.cuda THEN machine.cards ELSE <<>>, cuda |-> machine.cuda,
   pcie |-> IF machine.cuda THEN machine.pcie ELSE 0, dram |-> machine.dram,
   ram |-> machine.ram, bf16 |-> machine.bf16]

-----------------------------------------------------------------------------
(* Keys and values of every layer, two bytes each. *)
KvMb(model, tokens) ==
  (4 * Default(model.hidden, 5120) * Default(model.layers, 60) * tokens) \div 1048576

ExpertMb(model) ==
  IF model.layers * model.routed = 0 THEN 0 ELSE model.weights.routed \div (model.layers * model.routed)

(* The experts of a layer one step needs: a shared prompt routes alike.    *)
UnionPerLayer(model, batch, shared) ==
  IF shared THEN Default(model.topK, 6)
  ELSE LET all == batch * Default(model.topK, 6) IN IF all < Default(model.routed, 160) THEN all ELSE Default(model.routed, 160)

Demand(model, work) ==
  UnionPerLayer(model, work.batch, work.shared) * Default(model.layers, 60) * ExpertMb(model)

Hbm(hw) == IF hw.gpus = <<>> THEN 0 ELSE (9 * hw.gpus[1]) \div 10

Vram(model, hw, work, cap) ==
  IF hw.cuda THEN model.weights.resident + cap * ExpertMb(model) + KvMb(model, work.batch * (work.prompt + work.gen)) ELSE 0

(* Fit on the device, then fit in main memory if its size is known.        *)
FitsDevice(model, hw, work, place, cap) ==
  IF hw.cuda THEN Vram(model, hw, work, cap) <= Hbm(hw) ELSE place = "cpu"
FitsRam(model, hw, work) == hw.ram > 0 => model.weights.resident + Demand(model, work) <= hw.ram

(* Milliseconds of a decode step: the demanded weights cross the bus, or   *)
(* are read by the host at eight tenths of its bandwidth.                  *)
StepMs(model, hw, work, place) ==
  LET fixed == FixedMsPerLayer * Default(model.layers, 60)
  IN  IF place = "slots" THEN Demand(model, work) \div Default(hw.pcie, 50) + fixed
      ELSE (10 * Demand(model, work)) \div (8 * Default(hw.dram, 100)) + fixed \div 2

FirstTokenMs(model, hw, work) ==
  (model.weights.resident + Demand(model, work)) \div (IF hw.cuda THEN Default(hw.pcie, 50) ELSE Default(hw.dram, 100))
    + FixedMsPerLayer * Default(model.layers, 60)

(* round(B / t_step, 2), to the nearest hundredth. *)
Throughput(work, ms) == IF ms = 0 THEN 0 ELSE (2 * 100000 * work.batch + ms) \div (2 * ms)

ServingPlan(model, hw, work, place, cap) ==
  [placement |-> place, capacity |-> cap,
   fits |-> FitsDevice(model, hw, work, place, cap) /\ FitsRam(model, hw, work),
   tps |-> Throughput(work, StepMs(model, hw, work, place)),
   firstToken |-> FirstTokenMs(model, hw, work),
   vram |-> Vram(model, hw, work, cap),
   reasons |-> (IF FitsDevice(model, hw, work, place, cap) THEN <<>> ELSE <<"device">>)
               \o (IF FitsRam(model, hw, work) THEN <<>> ELSE <<"ram">>)
               \o (IF place = "cpu" /\ ~hw.bf16 THEN <<"noBf16">> ELSE <<>>)]

Candidates(model, hw, work, fidelity) ==
  [k \in 1 .. 6 |-> ServingPlan(model, hw, work, "slots", <<0, 4, 8, 12, 24, 36>>[k])]
  \o (IF fidelity = "ulp1" THEN <<ServingPlan(model, hw, work, "cpu", 0)>> ELSE <<>>)

(* Highest throughput first, then the capacity nearest to twice top-k, and *)
(* otherwise in the order they were listed.                                *)
Better(model, c, d) ==
  \/ c.tps > d.tps
  \/ c.tps = d.tps /\ Absolute(c.capacity - 2 * Default(model.topK, 6)) < Absolute(d.capacity - 2 * Default(model.topK, 6))

Insert(model, done, c) ==
  LET k == Cardinality({i \in DOMAIN done : ~Better(model, c, done[i])})
  IN  InsertAt(done, k + 1, c)

(* The candidates that fit, best first, and those that do not.             *)
Judged(model, cands) ==
  FoldLeft(LAMBDA seen, c : IF c.fits THEN [seen EXCEPT !.fit = Insert(model, @, c)]
                                      ELSE [seen EXCEPT !.unfit = Append(@, c)],
           [fit |-> <<>>, unfit |-> <<>>], cands)

NotMoe == [feasible |-> FALSE, recommended |-> <<>>, candidates |-> <<>>, reasons |-> {"notMoe"}]
Plan(model, hw, work, fidelity) ==
  LET cands == Candidates(model, hw, work, fidelity)
      judged == Judged(model, cands)
      feasible == judged.fit # <<>>
  IN  IF model.routed = 0 THEN NotMoe
      ELSE [feasible |-> feasible,
            recommended |-> <<IF feasible THEN judged.fit[1] ELSE Last(cands)>>,
            candidates |-> judged.fit \o judged.unfit,
            reasons |-> IF feasible THEN {} ELSE {"noneFits"}]

(* render_table: the plans a reader sees, or up to three reasons.          *)
Table(result) ==
  LET most(s, n) == SubSeq(s, 1, IF Len(s) < n THEN Len(s) ELSE n)
  IN  IF ~result.feasible
      THEN [plans |-> <<>>, recommended |-> <<>>,
            reasons |-> result.reasons \cup UNION {ToSet(most(c.reasons, 1)) : c \in ToSet(most(result.candidates, 3))}]
      ELSE [plans |-> SelectSeq(most(result.candidates, 6), LAMBDA c : c.fits),
            recommended |-> SelectSeq(result.recommended, LAMBDA c : c.fits), reasons |-> {}]

-----------------------------------------------------------------------------
(* A machine with at least as much of everything: of what was measured on  *)
(* both, where main memory and bandwidths count as measured if they are    *)
(* not 0.  A card may be added if the resident part of the model fits on   *)
(* it; otherwise the planner gives up the host it could serve from before. *)
NoWorse(model, hw, other, work) ==
  /\ (hw.ram > 0) = (other.ram > 0) /\ hw.ram <= other.ram
  /\ (hw.dram > 0) = (other.dram > 0) /\ hw.dram <= other.dram
  /\ IF hw.cuda
     THEN /\ other.cuda /\ Hbm(hw) <= Hbm(other)
          /\ (hw.pcie > 0) = (other.pcie > 0) /\ hw.pcie <= other.pcie
     ELSE other.cuda => Vram(model, other, work, 0) <= Hbm(other)

(* More hardware never hurts: on a machine with at least as much memory    *)
(* and bandwidth, or with a card that takes the resident part of the       *)
(* model, every plan that fitted still fits, and what is                   *)
(* recommended is as fast; nothing that fits is faster than what is        *)
(* recommended, slots are for a device, and a refusal names its reason     *)
(* (feasibility.py:84-118, 157-171).                                       *)
MoreHardwareNeverHurts(model, hw, others, work, fidelity) ==
  LET plan == Plan(model, hw, work, fidelity)
  IN  /\ ~plan.feasible => Table(plan).reasons # {}
      /\ \A c \in ToSet(plan.candidates) : c.fits =>
           c.tps <= plan.recommended[1].tps /\ (c.placement = "slots" => hw.cuda)
      /\ \A other \in others :
           LET better == Plan(model, other, work, fidelity)
           IN  (plan.feasible /\ NoWorse(model, hw, other, work)) =>
                 /\ better.feasible
                 /\ better.recommended[1].tps >= plan.recommended[1].tps
                 /\ \A c \in ToSet(plan.candidates) : c.fits =>
                      \E d \in ToSet(better.candidates) : d.placement = c.placement /\ d.capacity = c.capacity /\ d.fits
=============================================================================
