----------------------------- MODULE SlotOrder -----------------------------
(***************************************************************************)
(* The list of slots every expert cache keeps in order of use: the least   *)
(* recently used slot comes first.                                         *)
(***************************************************************************)
EXTENDS Naturals, Sequences, SequencesExt

(* Definitions named Faulty... are what a plausible slip in the code would *)
(* make of the definition that follows; no specification uses them.        *)

(* slot_lru.remove(s); slot_lru.append(s): s becomes the most recent.      *)
PositionOf(q, s) == CHOOSE i \in DOMAIN q : q[i] = s
FaultyMoveToEnd(q, s) == <<s>> \o RemoveAt(q, PositionOf(q, s))
MoveToEnd(q, s) == Append(RemoveAt(q, PositionOf(q, s)), s)

Injective(q) == \A i, j \in DOMAIN q : q[i] = q[j] => i = j

=============================================================================
