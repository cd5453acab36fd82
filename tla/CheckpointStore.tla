-------------------------- MODULE CheckpointStore --------------------------
(***************************************************************************)
(* What a directory of checkpoints promises to whoever looks for .complete *)
(* files: a checkpoint appears whole, in one step and as the work of the   *)
(* current run; from then on it can only be given up, and it does not come *)
(* back before it is gone.                                                 *)
(***************************************************************************)
EXTENDS Naturals

CONSTANT Names              \* the names checkpoints can have

VARIABLES store,            \* store[n]: None, or Intact(r) with the run r that
                            \* wrote it, or Ruin when its removal has begun
                            \* and its .complete is still there
          run               \* the number of the current run

vars == <<store, run>>

None == [is |-> "none", by |-> 0]
Intact(r) == [is |-> "whole", by |-> r]
Ruin == [is |-> "ruin", by |-> 0]

Init == store = [n \in Names |-> None] /\ run = 1

Publish(n) == /\ store[n] = None
              /\ store' = [store EXCEPT ![n] = Intact(run)]
              /\ UNCHANGED run

GiveUp(n) == /\ store[n] # None
             /\ \E left \in {None, Ruin} : store' = [store EXCEPT ![n] = left]
             /\ UNCHANGED run

Restart == run' = run + 1 /\ UNCHANGED store

Next == Restart \/ \E n \in Names : Publish(n) \/ GiveUp(n)

Spec == Init /\ [][Next]_vars
=============================================================================
