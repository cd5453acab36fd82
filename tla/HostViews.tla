----------------------------- MODULE HostViews -----------------------------
(***************************************************************************)
(* The expert weights a DeepSeekColossusMoEWrapper keeps in host memory    *)
(* for the products it computes on the CPU: the column views of H2b        *)
(* (_h2b_views), used by the thread of the forward and by the executor's   *)
(* at once, and the whole experts of the CPU layers (_cpu_weights), used   *)
(* by the threads of the pool.  Both are a dictionary and a first-in       *)
(* first-out list that no lock protects; a step below is one operation on  *)
(* one of them.                                                            *)
(***************************************************************************)
EXTENDS Integers, FiniteSets, Sequences, SequencesExt

CONSTANTS
  Computed,   \* the experts
  Thread,     \* the threads that fetch views
  ViewCap,    \* cpu_cache_cap
  MaxFetches  \* bound: fetches

ASSUME ViewAssumption == ViewCap \in Nat \ {0} /\ IsFiniteSet(Thread)

VARIABLES views, fifo, fetch, fetches
viewVars == <<views, fifo, fetch, fetches>>

Idle == [at |-> "idle", expert |-> 0]

ViewInit == views = {} /\ fifo = << >> /\ fetch = [t \in Thread |-> Idle] /\ fetches = 0

Goto(t, at, e) == fetch' = [fetch EXCEPT ![t] = [at |-> at, expert |-> e]]
At(t, at) == fetch[t].at = at
OnlyFetch == UNCHANGED fetches

LookFor(t, e) ==
  /\ At(t, "idle") /\ fetches < MaxFetches
  /\ fetches' = fetches + 1
  /\ Goto(t, IF e \in views THEN "idle" ELSE "build", e)
  /\ UNCHANGED <<views, fifo>>

Insert(t) ==
  /\ At(t, "build")
  /\ views' = views \cup {fetch[t].expert}
  /\ Goto(t, "list", fetch[t].expert)
  /\ UNCHANGED fifo /\ OnlyFetch

List(t) ==
  /\ At(t, "list")
  /\ fifo' = Append(fifo, fetch[t].expert)
  /\ Goto(t, "check", fetch[t].expert)
  /\ UNCHANGED views /\ OnlyFetch

Check(t) ==
  /\ At(t, "check")
  /\ Goto(t, IF Len(fifo) > ViewCap THEN "take" ELSE "idle", 0)
  /\ UNCHANGED <<views, fifo>> /\ OnlyFetch

FaultyTakeFirst(t) ==
  /\ At(t, "take") /\ fifo # << >>
  /\ fifo' = Tail(fifo)
  /\ Goto(t, IF Head(fifo) \in views /\ Len(fifo) > ViewCap + 1 THEN "idle" ELSE "drop", Head(fifo))
  /\ UNCHANGED views /\ OnlyFetch
TakeFirst(t) ==
  /\ At(t, "take") /\ fifo # << >>
  /\ fifo' = Tail(fifo)
  /\ Goto(t, "drop", Head(fifo))
  /\ UNCHANGED views /\ OnlyFetch

Drop(t) ==
  /\ At(t, "drop")
  /\ views' = views \ {fetch[t].expert}
  /\ Goto(t, "idle", 0)
  /\ UNCHANGED fifo /\ OnlyFetch

ViewNext ==
  \E t \in Thread : \/ \E e \in Computed : LookFor(t, e)
                    \/ Insert(t) \/ List(t) \/ Check(t) \/ TakeFirst(t) \/ Drop(t)

-----------------------------------------------------------------------------
(* However the threads interleave, a view that is kept is on the list that *)
(* will one day evict it (or the thread that inserts or drops it is still  *)
(* at it); between forwards no more views are kept than the cap allows;    *)
(* and no thread takes from an empty list.                                 *)
ViewsBounded ==
  /\ \A e \in views : e \in ToSet(fifo)
       \/ \E t \in Thread : fetch[t].expert = e /\ fetch[t].at \in {"list", "drop"}
  /\ (\A t \in Thread : At(t, "idle")) => Cardinality(views) <= ViewCap
  /\ \A t \in Thread : At(t, "take") => fifo # << >>
=============================================================================
