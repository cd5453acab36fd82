------------------------------- MODULE LruSet -------------------------------
(***************************************************************************)
(* What a family of expert caches promises, whatever it keeps its data in: *)
(* every owner has a bounded set with an order of use.  Using an item      *)
(* makes it the owner's most recent one; when the set is full the oldest   *)
(* item that is not pinned has to go, and no other; the other owners do    *)
(* not notice.  Only a reset drops more: it leaves everybody with the same *)
(* initial segment 1..w of the items.                                      *)
(***************************************************************************)
EXTENDS Naturals, Sequences, SequencesExt

CONSTANTS Owners, Items, Size
VARIABLES order,    \* order[o]: the items of o, least recently used first
          pinned    \* the items an eviction must not take; the client's choice

vars == <<order>>

Oldest(q) ==
  CHOOSE i \in DOMAIN q : /\ q[i] \notin pinned
                          /\ \A j \in 1..(i - 1) : q[j] \in pinned

Position(q, e) == CHOOSE i \in DOMAIN q : q[i] = e

Use(q, e) ==
  IF e \in ToSet(q) THEN Append(RemoveAt(q, Position(q, e)), e)
  ELSE IF Len(q) < Size THEN Append(q, e)
  ELSE Append(RemoveAt(q, Oldest(q)), e)

HasRoom(q, e) == e \in ToSet(q) \/ Len(q) < Size \/ ~ ToSet(q) \subseteq pinned

UseItem(o, e) ==
  /\ HasRoom(order[o], e)
  /\ order' = [order EXCEPT ![o] = Use(@, e)]

Fresh(f) == \E w \in 0..Size : f = [o \in Owners |-> [i \in 1..w |-> i]]
Reset == pinned = {} /\ Fresh(order')

Init == Fresh(order) /\ pinned = {}
Next == Reset \/ \E o \in Owners, e \in Items : UseItem(o, e)
Spec == Init /\ [][Next]_vars

=============================================================================
