------------------------------ MODULE Sampling ------------------------------
(***************************************************************************)
(* Which tokens sample_from_logits (inference/sampling.py) can return.  A  *)
(* distribution is a sequence of natural weights, one per token, in place  *)
(* of the softmax of the logits; a masked logit is the weight 0.           *)
(* A temperature is given by its inverse, 0 standing for the temperatures  *)
(* that are refused: dividing logits by 1/n raises probabilities to the    *)
(* n-th power.  top_p is a number of hundredths.                           *)
(***************************************************************************)
EXTENDS Integers, Sequences, SequencesExt, FiniteSetsExt

ValueError == <<>>

Mass(weights) == FoldLeft(LAMBDA sum, w : sum + w, 0, weights)

(* temperature_scale *)
TemperatureScale(weights, inverse) ==
  IF inverse = 0 THEN ValueError ELSE [t \in DOMAIN weights |-> weights[t] ^ inverse]

(* The tokens by weight, heaviest first; of equal ones the sort may put    *)
(* any first: the first token does here.                                   *)
Descending(weights) ==
  SetToSortSeq(DOMAIN weights, LAMBDA s, t : weights[s] > weights[t] \/ (weights[s] = weights[t] /\ s < t))

(* top_k_filter: everything below the k-th largest goes; ties stay.        *)
TopKFilter(weights, k) ==
  LET kept == IF k < Len(weights) THEN k ELSE Len(weights)
  IN  IF k <= 0 THEN weights
      ELSE [t \in DOMAIN weights |-> IF weights[t] < weights[Descending(weights)[kept]] THEN 0 ELSE weights[t]]

(* top_p_filter: a token goes if those before it already exceed p.         *)
FaultyBefore(weights, t) ==
  LET order == Descending(weights)
      place == CHOOSE k \in DOMAIN order : order[k] = t
  IN  FoldLeft(LAMBDA sum, s : sum + weights[s], 0, SubSeq(order, 1, place))
Before(weights, t) ==
  LET order == Descending(weights)
      place == CHOOSE k \in DOMAIN order : order[k] = t
  IN  FoldLeft(LAMBDA sum, s : sum + weights[s], 0, SubSeq(order, 1, place - 1))
TopPFilter(weights, p) ==
  IF p >= 100 THEN weights
  ELSE [t \in DOMAIN weights |-> IF 100 * Before(weights, t) > p * Mass(weights) THEN 0 ELSE weights[t]]

(* greedy_sample, with its ties; and the tokens a draw can return.         *)
GreedySample(weights) == {t \in DOMAIN weights : \A s \in DOMAIN weights : weights[s] <= weights[t]}
Filtered(weights, inverse, k, p) ==
  LET scaled == TemperatureScale(weights, inverse)
      few == IF k > 0 THEN TopKFilter(scaled, k) ELSE scaled
  IN  IF scaled = ValueError THEN ValueError ELSE IF p < 100 THEN TopPFilter(few, p) ELSE few
SampleFromLogits(weights, inverse, k, p, sample) ==
  IF ~sample THEN GreedySample(weights)
  ELSE {t \in DOMAIN Filtered(weights, inverse, k, p) : Filtered(weights, inverse, k, p)[t] > 0}

(* The filters keep the nucleus: a draw is never empty, greedy decoding's  *)
(* token can be drawn, no token is kept while a likelier one is dropped,   *)
(* the kept tokens hold p of what top-k left, and all but the least of     *)
(* them hold at most p ("the smallest set of tokens whose cumulative       *)
(* probability >= top_p", sampling.py:62; one more when they hold just p). *)
NucleusKept(weights, inverse, k, p) ==
  LET scaled == TemperatureScale(weights, inverse)
      few == TopKFilter(scaled, k)
      drawn == SampleFromLogits(weights, inverse, k, p, TRUE)
      mass(tokens) == MapThenSumSet(LAMBDA t : few[t], tokens)
      least == CHOOSE t \in drawn : \A s \in drawn : few[t] <= few[s]
  IN  (inverse # 0 /\ Mass(weights) > 0) =>
        /\ drawn # {} /\ drawn \cap GreedySample(weights) # {}
        /\ \A t \in drawn, s \in DOMAIN weights \ drawn : weights[s] <= weights[t]
        /\ 100 * mass(drawn) >= p * Mass(few)
        /\ p < 100 => 100 * mass(drawn \ {least}) <= p * Mass(few)
        /\ k > 0 => Cardinality({t \in drawn : few[t] > few[least]}) < k
=============================================================================
