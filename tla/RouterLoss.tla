----------------------------- MODULE RouterLoss -----------------------------
(***************************************************************************)
(* The load-balancing loss and the load metrics of the trainer             *)
(* (trainer/moe.py), computed from the router logits of a forward.         *)
(*                                                                         *)
(* A layer's output is [form, rows]: form "tensor", "pair" (logits first)  *)
(* or "other"; rows has for every token the shares softmax gives to the    *)
(* columns, integers that add up to Scale.  Means are kept as sums: the    *)
(* loss of a layer is scaled by Scale * tokens^2.                          *)
(***************************************************************************)
EXTENDS Integers, FiniteSets, Sequences, SequencesExt, FiniteSetsExt

CONSTANTS Scale,
          Asked     \* what a forward may give: [own, layers, profile]

Width(layer) == Len(layer.rows[1])
TokenCount(layer) == Len(layer.rows)

(* Every token has a share for each column, and they are all there is.     *)
IsLayer(layer) ==
  /\ layer.rows \in Seq(Seq(Nat)) /\ TokenCount(layer) > 0 /\ Width(layer) > 0
  /\ \A t \in DOMAIN layer.rows : Len(layer.rows[t]) = Width(layer) /\ SumFunction(layer.rows[t]) = Scale
ASSUME LossAssumption ==
  /\ Scale \in Nat
  /\ \A a \in Asked :
       /\ a.layers \in Seq([form : {"tensor", "pair", "other"}, rows : Seq(Seq(Nat))])
       /\ \A k \in DOMAIN a.layers : IsLayer(a.layers[k])
       /\ a.profile.experts \in Nat /\ a.profile.shared \in Nat /\ a.profile.perToken \in Nat

VARIABLE outputs  \* what was asked, and the answer, <<>> before

(* _normalize_router_logits: the layers that have logits, by their place.  *)
Normalized(out) == {k \in DOMAIN out : out[k].form \in {"tensor", "pair"}}

(* _infer_logit_kind: what the last dimension says the columns are. *)
Kind(n, p) ==
  CASE n = 1 -> "gate"
    [] n # 1 /\ n \in {p.experts, p.experts + p.shared} -> "full"
    [] n # 1 /\ n \notin {p.experts, p.experts + p.shared} ->
         IF n = p.perToken THEN "topk"
         ELSE IF n < p.experts /\ (n <= 8 \/ n <= 2 * p.perToken) THEN "topk" ELSE "full"

Chosen(p, n) == LET k == IF p.perToken = 0 THEN 1 ELSE p.perToken IN IF k < n THEN k ELSE n

(* topk: the k largest columns of a token. *)
Before(row, i) == {j \in DOMAIN row : row[j] > row[i] \/ (row[j] = row[i] /\ j < i)}
FaultyTopK(row, k) == {i \in DOMAIN row : Cardinality({j \in DOMAIN row : row[j] < row[i] \/ (row[j] = row[i] /\ j < i)}) < k}
TopK(row, k) == {i \in DOMAIN row : Cardinality(Before(row, i)) < k}

(* How many tokens each column gets, and the shares they give it.          *)
Dispatched(layer, p) ==
  [i \in 1 .. Width(layer) |->
     Cardinality({t \in DOMAIN layer.rows : i \in TopK(layer.rows[t], Chosen(p, Width(layer)))})]
Mass(layer) == [i \in 1 .. Width(layer) |-> SumFunction([t \in DOMAIN layer.rows |-> layer.rows[t][i]])]

(* One layer's part of _load_balancing_loss_from_logits.  Where only the   *)
(* chosen columns are there, every one counts as dispatched evenly.        *)
LayerLoss(layer, p) ==
  LET n == Width(layer)
  IN  IF Kind(n, p) = "full" THEN n * SumFunction([i \in 1 .. n |-> Dispatched(layer, p)[i] * Mass(layer)[i]])
                             ELSE TokenCount(layer) * SumFunction(Mass(layer))
Balanced(out, p) == {k \in Normalized(out) : Kind(Width(out[k]), p) # "gate"}

(* extract_aux_loss: a loss of the model's own comes first; "none", or the *)
(* sum over the layers and their number.                                   *)
Loss(own, out, p) ==
  CASE ~p.isMoe -> <<"none">>
    [] p.isMoe /\ own -> <<"own">>
    [] p.isMoe /\ ~own ->
         IF Balanced(out, p) = {} THEN <<"none">>
         ELSE <<SumFunction([k \in Balanced(out, p) |-> LayerLoss(out[k], p)]), Cardinality(Balanced(out, p))>>

(* compute_expert_utilization: loads per column over all layers, which     *)
(* must agree on the number of columns; no metrics otherwise.              *)
Assigned(layer, p) ==
  IF Kind(Width(layer), p) = "full" THEN Dispatched(layer, p) ELSE [i \in 1 .. Width(layer) |-> TokenCount(layer)]
Columns(out, p) == Width(out[Min(Balanced(out, p))])
Loads(out, p) == [i \in 1 .. Columns(out, p) |-> SumFunction([k \in Balanced(out, p) |-> Assigned(out[k], p)[i]])]
Utilization(out, p) ==
  IF Balanced(out, p) = {} \/ \E k \in Balanced(out, p) : Width(out[k]) # Columns(out, p) THEN <<>>
  ELSE [total |-> SumFunction(Loads(out, p)), max |-> Max(Range(Loads(out, p))), min |-> Min(Range(Loads(out, p)))]

(* The trainer asks for both after a forward. *)
LossInit == \E a \in Asked : outputs = [asked |-> a, answer |-> <<>>]
Compute ==
  /\ outputs.answer = <<>>
  /\ outputs' = [outputs EXCEPT !.answer =
       [loss |-> Loss(outputs.asked.own, outputs.asked.layers, outputs.asked.profile),
        load |-> Utilization(outputs.asked.layers, outputs.asked.profile)]]

-----------------------------------------------------------------------------
(* Every token goes where the first one goes, with the same confidences:   *)
(* the columns of each row in the order of their shares.                   *)
Ranked(row) == [k \in DOMAIN row |-> row[CHOOSE i \in DOMAIN row : Cardinality(Before(row, i)) = k - 1]]
Collapsed(layer) == [layer EXCEPT !.rows = [t \in DOMAIN @ |-> Ranked(@[t])]]

(* Sending all tokens to the same experts is never cheaper than spreading  *)
(* them, and an even router costs exactly the number of experts per token. *)
CollapseCostsMost(out, p) ==
  \A k \in Balanced(out, p) :
     LET layer == out[k]
     IN  Kind(Width(layer), p) = "full" =>
           /\ LayerLoss(layer, p) <= LayerLoss(Collapsed(layer), p)
           /\ (\A t \in DOMAIN layer.rows : \A i, j \in 1 .. Width(layer) : layer.rows[t][i] = layer.rows[t][j]) =>
                LayerLoss(layer, p) = Chosen(p, Width(layer)) * Scale * TokenCount(layer) * TokenCount(layer)

(* The loads add up to one assignment per token and chosen expert, so the  *)
(* logged shares are shares of all assignments.                            *)
LoadsAddUp(out, p) ==
  LET width == Columns(out, p)
      each == IF Kind(width, p) = "full" THEN Chosen(p, width) ELSE width
  IN  Utilization(out, p) # <<>> =>
        /\ Utilization(out, p).total = SumFunction([k \in Balanced(out, p) |-> TokenCount(out[k]) * each])
        /\ Utilization(out, p).max * width >= Utilization(out, p).total
=============================================================================
