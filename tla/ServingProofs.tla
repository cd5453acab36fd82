---------------------------- MODULE ServingProofs ----------------------------
(***************************************************************************)
(* Proofs about the parts of MCServing, which share no state, for any      *)
(* values of their constants: a part's own invariant is kept by the steps  *)
(* of its own and untouched by those of the others.                        *)
(***************************************************************************)
EXTENDS MCServing, SlotOrderProofs, FiniteSetTheorems, SequenceTheorems, TLAPS

(* A step of the composed system is a step of one part, for each of them.  *)
LEMMA OnePartMoves ==
  ASSUME [ServingNext]_servingVars
  PROVE  /\ [OffloadNext]_offloadVars
         /\ [RemoteNext]_remoteVars
         /\ [ViewNext]_viewVars
         /\ [SlotNext]_slotVars
         /\ [DirNext]_dirVars
         /\ [DeepNext]_deepVars
BY DEF ServingNext, servingVars, deepSeekVars

(***************************************************************************)
(* Experts on the CPU                                                      *)
(***************************************************************************)

(* What tells an expert that a failure left behind from one the running    *)
(* request has moved.                                                      *)
Saved == {<< >>} \cup {<<n>> : n \in Nat}

(* The books of the offloads.                                              *)
OffloadTypeOK ==
  /\ place \in [Module -> {"gpu", "cpu"}]
  /\ depth \in [Module -> Nat]
  /\ original \in [Module -> Saved]
  /\ wrapped \subseteq Module
  /\ phase \in {"idle", "offload", "generate"}
  /\ offloaded = [l \in DOMAIN offloaded |-> offloaded[l]]

(* While the request moves experts, it has a record for each layer; at any *)
(* other time none is left to look at.                                     *)
OffloadOrder ==
  /\ remaining \subseteq Module
  /\ phase # "offload" => remaining = {}
  /\ \A e \in remaining : e[1] \in DOMAIN offloaded

(* An expert no failure has left behind is wrapped once or not at all, its *)
(* own forward is kept while it is, and if it is off the device it is      *)
(* wrapped and recorded, so that the request brings it back and unwraps it.*)
InOrderBut(lost) ==
  \A e \in Module \ lost :
    /\ e \in wrapped => depth[e] = 1 /\ original[e] = <<0>> /\ e \notin remaining
    /\ e \notin wrapped => depth[e] = 0 /\ original[e] = << >> /\ place[e] = "gpu"
    /\ place[e] = "cpu" => e \in Recorded
    /\ phase = "idle" => e \notin wrapped

(* The invariant of the offloads.                                          *)
OffloadInv == OffloadTypeOK /\ OffloadOrder /\ InOrderBut(abandoned)

(* All experts are on the device at the start.                             *)
LEMMA OffloadStarts == OffloadInit => OffloadInv
BY DEF OffloadInit, OffloadInv, OffloadTypeOK, OffloadOrder, InOrderBut, Saved

(* Every step keeps the invariant; a request that raises leaves behind     *)
(* what is wrapped then.                                                   *)
LEMMA OffloadKeeps ==
  ASSUME OffloadInv, [OffloadNext]_offloadVars
  PROVE  OffloadInv'
<1> USE DEF OffloadInv, OffloadTypeOK, OffloadOrder
<1>1. ASSUME NEW map \in HotMaps, ProfileAndOffload(map) PROVE OffloadInv'
  BY <1>1 DEF ProfileAndOffload, InOrderBut, Recorded, Module
<1>2. ASSUME NEW e \in Module, OffloadExpert(e) PROVE OffloadInv'
  <2>1. CASE e[2] \in profile[e[1]]
    BY <1>2, <2>1 DEF OffloadExpert, InOrderBut, Recorded
  <2>2. CASE e[2] \notin profile[e[1]]
    <3>1. /\ place' = [place EXCEPT ![e] = "cpu"]
          /\ offloaded' = [offloaded EXCEPT ![e[1]] = @ \cup {e[2]}]
          /\ original' = [original EXCEPT ![e] = <<depth[e]>>]
          /\ depth' = [depth EXCEPT ![e] = @ + 1]
          /\ wrapped' = wrapped \cup {e} /\ remaining' = remaining \ {e}
          /\ e \in remaining /\ phase = "offload" /\ UNCHANGED <<phase, abandoned>>
      BY <1>2, <2>2 DEF OffloadExpert, InstallWrapper
    <3>2. OffloadTypeOK'
      <4>1. depth[e] \in Nat /\ <<depth[e]>> \in Saved
        BY DEF Saved
      <4>2. depth' \in [Module -> Nat] /\ original' \in [Module -> Saved]
        BY <3>1, <4>1
      <4>3. place' \in [Module -> {"gpu", "cpu"}] /\ wrapped' \subseteq Module
        BY <3>1
      <4>4. offloaded' = [l \in DOMAIN offloaded' |-> offloaded'[l]]
        BY <3>1
      <4> QED
        BY <3>1, <4>2, <4>3, <4>4
    <3>3. OffloadOrder'
      BY <3>1
    <3>4. e[1] \in DOMAIN offloaded /\ DOMAIN offloaded' = DOMAIN offloaded
      BY <3>1
    <3>5. Recorded \cup {e} \subseteq Recorded'
      <4>1. \A d \in Recorded : d[1] \in DOMAIN offloaded /\ d[2] \in offloaded[d[1]]
        BY DEF Recorded
      <4>2. offloaded'[e[1]] = offloaded[e[1]] \cup {e[2]}
        BY <3>1, <3>4
      <4>3. \A l \in DOMAIN offloaded : l # e[1] => offloaded'[l] = offloaded[l]
        BY <3>1
      <4> QED
        BY <3>4, <4>1, <4>2, <4>3 DEF Recorded
    <3>6. InOrderBut(abandoned)'
      <4> SUFFICES ASSUME NEW d \in Module \ abandoned
          PROVE  /\ d \in wrapped' => depth'[d] = 1 /\ original'[d] = <<0>> /\ d \notin remaining'
                 /\ d \notin wrapped' => depth'[d] = 0 /\ original'[d] = << >> /\ place'[d] = "gpu"
                 /\ place'[d] = "cpu" => d \in Recorded'
                 /\ phase' = "idle" => d \notin wrapped'
        BY <3>1 DEF InOrderBut
      <4>1. CASE d = e
        BY <3>1, <3>5, <4>1 DEF InOrderBut
      <4>2. CASE d # e
        BY <3>1, <3>5, <4>2 DEF InOrderBut
      <4> QED
        BY <4>1, <4>2
    <3> QED
      BY <3>2, <3>3, <3>6
  <2> QED
    BY <2>1, <2>2
<1>3. ASSUME RequestRaises, phase = "generate" PROVE OffloadInv'
  BY <1>3 DEF RequestRaises, InOrderBut, Recorded, Wrapped, OffDevice
<1>4. ASSUME NEW e \in Module, RunExpert(e) PROVE OffloadInv'
  <2>1. CASE place[e] = "gpu" \/ depth[e] > 0
    BY <1>4, <2>1 DEF RunExpert, InOrderBut, Recorded
  <2> QED
    BY <1>3, <1>4, <2>1 DEF RunExpert
<1>5. ASSUME OffloadEnds PROVE OffloadInv'
  BY <1>5 DEF OffloadEnds, InOrderBut, Recorded
<1>6. ASSUME RestoreAllExperts PROVE OffloadInv'
  <2>1. /\ depth' = [e \in Module |-> IF e \in Unwrapped THEN original[e][1] ELSE depth[e]]
        /\ original' = [e \in Module |-> IF e \in Unwrapped THEN << >> ELSE original[e]]
        /\ wrapped' = {} /\ offloaded' = << >> /\ remaining = {} /\ remaining' = {}
        /\ place' = [e \in Module |-> IF e \in Recorded THEN "gpu" ELSE place[e]]
        /\ phase' = "idle" /\ abandoned' = abandoned
    BY <1>6 DEF RestoreAllExperts, UninstallWrappers
  <2>2. \A e \in Unwrapped : original[e][1] \in Nat
    BY DEF Unwrapped, Saved
  <2>3. OffloadTypeOK'
    BY <2>1, <2>2 DEF Saved
  <2>4. InOrderBut(abandoned)'
    BY <2>1 DEF InOrderBut, Unwrapped
  <2> QED
    BY <2>1, <2>3, <2>4
<1>7. ASSUME UNCHANGED offloadVars PROVE OffloadInv'
  BY <1>7 DEF offloadVars, InOrderBut, Recorded
<1> QED
  BY <1>1, <1>2, <1>3, <1>4, <1>5, <1>6, <1>7
     DEF OffloadNext, GenerateRaises, RequestsDone

(* Whatever is predicted, routed to and fetched: an expert is off the      *)
(* device or wrapped between requests only if a request has raised.        *)
THEOREM OnlyFailuresStrand == ServingSpec => []StrandedOnlyByFailures
<1>1. ServingInit => OffloadInv
  BY OffloadStarts DEF ServingInit
<1>2. OffloadInv /\ [ServingNext]_servingVars => OffloadInv'
  BY OnePartMoves, OffloadKeeps
<1>3. OffloadInv => StrandedOnlyByFailures
  BY DEF OffloadInv, OffloadTypeOK, InOrderBut, StrandedOnlyByFailures, OffDevice, Wrapped
<1> QED
  BY <1>1, <1>2, <1>3, PTL DEF ServingSpec

(***************************************************************************)
(* Views in host memory                                                    *)
(***************************************************************************)

(* What an element added at the end or taken from the front changes.       *)
LEMMA AddedToSet ==
  ASSUME NEW S, NEW q \in Seq(S), NEW x \in S
  PROVE  ToSet(Append(q, x)) = ToSet(q) \cup {x}
<1> DEFINE r == Append(q, x)
<1>1. /\ DOMAIN q = 1..Len(q) /\ Len(q) \in Nat
      /\ DOMAIN r = 1..(Len(q) + 1)
      /\ \A i \in 1..Len(q) : r[i] = q[i]
      /\ r[Len(q) + 1] = x
  BY LenProperties, AppendProperties
<1> HIDE DEF r
<1>2. ToSet(q) \cup {x} \subseteq ToSet(r)
  <2>1. Len(q) + 1 \in DOMAIN r /\ \A i \in DOMAIN q : i \in DOMAIN r /\ q[i] = r[i]
    BY <1>1
  <2> QED
    BY <1>1, <2>1 DEF ToSet
<1>3. ToSet(r) \subseteq ToSet(q) \cup {x}
  <2> SUFFICES ASSUME NEW i \in 1..(Len(q) + 1) PROVE r[i] \in ToSet(q) \cup {x}
    BY <1>1 DEF ToSet
  <2>1. i \in 1..Len(q) \/ i = Len(q) + 1
    BY <1>1
  <2> QED
    BY <1>1, <2>1 DEF ToSet
<1> QED
  BY <1>2, <1>3 DEF r

(* A set without one of its elements.                                      *)
LEMMA TakenFromSet ==
  ASSUME NEW S, NEW q \in Seq(S), q # << >>
  PROVE  ToSet(q) = ToSet(Tail(q)) \cup {Head(q)}
<1>1. /\ Len(q) \in Nat \ {0} /\ DOMAIN q = 1..Len(q) /\ Head(q) = q[1]
      /\ Len(Tail(q)) = Len(q) - 1 /\ DOMAIN Tail(q) = 1..(Len(q) - 1)
      /\ \A i \in 1..(Len(q) - 1) : Tail(q)[i] = q[i + 1]
  BY LenProperties, EmptySeq, HeadTailProperties
<1>2. \A i \in 1..Len(q) : i = 1 \/ (i - 1 \in 1..(Len(q) - 1) /\ q[i] = Tail(q)[i - 1])
  BY <1>1
<1>3. \A i \in 1..(Len(q) - 1) : i + 1 \in 1..Len(q)
  BY <1>1
<1>4. ToSet(q) \subseteq ToSet(Tail(q)) \cup {Head(q)}
  <2> SUFFICES ASSUME NEW i \in 1..Len(q) PROVE q[i] \in ToSet(Tail(q)) \cup {Head(q)}
    BY <1>1 DEF ToSet
  <2> QED
    BY <1>1, <1>2 DEF ToSet
<1>5. ToSet(Tail(q)) \cup {Head(q)} \subseteq ToSet(q)
  <2>1. 1 \in DOMAIN q
    BY <1>1
  <2> QED
    BY <1>1, <1>3, <2>1 DEF ToSet
<1> QED
  BY <1>4, <1>5

(* A sequence has no more elements than entries.                           *)
LEMMA SetOfSequence ==
  ASSUME NEW S, NEW q \in Seq(S)
  PROVE  IsFiniteSet(ToSet(q)) /\ Cardinality(ToSet(q)) <= Len(q)
<1>1. Len(q) \in Nat /\ q \in [1..Len(q) -> S]
  BY LenProperties
<1>2. q \in Surjection(1..Len(q), ToSet(q))
  BY <1>1 DEF Surjection, ToSet
<1>3. IsFiniteSet(1..Len(q)) /\ Cardinality(1..Len(q)) = Len(q)
  BY <1>1, FS_Interval
<1> QED
  BY <1>2, <1>3, FS_Surjection

(* The list is one of experts, and a thread at work has one.               *)
ViewTypeOK ==
  /\ fifo \in Seq(Computed)
  /\ fetch \in [Thread -> [at : {"idle", "build", "list", "check", "take", "drop"},
                           expert : Computed \cup {0}]]
  /\ \A t \in Thread : fetch[t].at \in {"build", "list", "drop"} => fetch[t].expert \in Computed

(* The threads that have listed a view and are still to look whether the   *)
(* list is too long, or to shorten it.                                     *)
Owing == {t \in Thread : fetch[t].at \in {"check", "take"}}

(* Each of them has an entry on the list that it may take off, and without *)
(* theirs the list is no longer than the cap.                              *)
EveryoneTakesOne ==
  Cardinality(Owing) <= Len(fifo) /\ Len(fifo) <= ViewCap + Cardinality(Owing)

(* A view is on the list, or about to be, or about to go.                  *)
ViewsListed ==
  \A e \in views : e \in ToSet(fifo)
    \/ \E t \in Thread : fetch[t].expert = e /\ fetch[t].at \in {"list", "drop"}

(* The invariant of the views.                                             *)
ViewInv == ViewTypeOK /\ EveryoneTakesOne /\ ViewsListed

(* There are no views at the start.                                        *)
LEMMA ViewStarts == ViewInit => ViewInv
<1> SUFFICES ASSUME ViewInit PROVE ViewInv
  OBVIOUS
<1>1. Owing = {} /\ Cardinality(Owing) = 0
  BY FS_EmptySet DEF ViewInit, Idle, Owing
<1>2. ViewTypeOK
  BY DEF ViewInit, Idle, ViewTypeOK
<1>3. Len(fifo) = 0
  BY DEF ViewInit
<1> QED
  BY <1>1, <1>2, <1>3, ViewAssumption DEF ViewInv, EveryoneTakesOne, ViewsListed, ViewInit

(* One thread is or is not among those that owe.                           *)
LEMMA OwingCounts ==
  ASSUME NEW t \in Thread
  PROVE  /\ IsFiniteSet(Owing) /\ Cardinality(Owing) \in Nat
         /\ Cardinality(Owing \cup {t}) = Cardinality(Owing) + IF t \in Owing THEN 0 ELSE 1
         /\ Cardinality(Owing \ {t}) = Cardinality(Owing) - IF t \in Owing THEN 1 ELSE 0
         /\ Cardinality(Owing \ {t}) \in Nat
<1>1. IsFiniteSet(Owing)
  BY ViewAssumption, FS_Subset DEF Owing
<1> QED
  BY <1>1, FS_CardinalityType, FS_AddElement, FS_RemoveElement

(* However the threads interleave, every step keeps the invariant.         *)
LEMMA ViewKeeps ==
  ASSUME ViewInv, [ViewNext]_viewVars
  PROVE  ViewInv'
<1> SUFFICES ASSUME NEW t \in Thread,
                    (\E e \in Computed : LookFor(t, e)) \/ Insert(t) \/ List(t)
                      \/ Check(t) \/ TakeFirst(t) \/ Drop(t)
             PROVE  ViewInv'
  <2>1. CASE UNCHANGED viewVars
    BY <2>1 DEF viewVars, ViewInv, ViewTypeOK, EveryoneTakesOne, ViewsListed, Owing
  <2> QED
    BY <2>1 DEF ViewNext
<1>0. /\ fetch \in [Thread -> [at : {"idle", "build", "list", "check", "take", "drop"},
                               expert : Computed \cup {0}]]
      /\ fifo \in Seq(Computed) /\ Len(fifo) \in Nat
      /\ \A u \in Thread : fetch[u].at \in {"build", "list", "drop"} => fetch[u].expert \in Computed
      /\ Cardinality(Owing) <= Len(fifo) /\ Len(fifo) <= ViewCap + Cardinality(Owing)
      /\ ViewsListed /\ ViewCap \in Nat
  BY ViewAssumption, LenProperties DEF ViewInv, ViewTypeOK, EveryoneTakesOne
<1>1. ASSUME NEW e \in Computed, LookFor(t, e) PROVE ViewInv'
  <2>1. Owing' = Owing
    BY <1>0, <1>1 DEF LookFor, Goto, At, Owing
  <2> QED
    BY <1>0, <1>1, <2>1
       DEF ViewInv, ViewTypeOK, EveryoneTakesOne, ViewsListed, LookFor, Goto, At
<1>2. ASSUME Insert(t) PROVE ViewInv'
  <2>1. Owing' = Owing
    BY <1>0, <1>2 DEF Insert, Goto, At, Owing
  <2> QED
    BY <1>0, <1>2, <2>1
       DEF ViewInv, ViewTypeOK, EveryoneTakesOne, ViewsListed, Insert, Goto, At
<1>3. ASSUME List(t) PROVE ViewInv'
  <2> DEFINE e == fetch[t].expert
  <2>1. /\ fetch[t].at = "list" /\ e \in Computed
        /\ fifo' = Append(fifo, e) /\ views' = views
        /\ fetch' = [fetch EXCEPT ![t] = [at |-> "check", expert |-> e]]
    BY <1>0, <1>3 DEF List, Goto, At
  <2> HIDE DEF e
  <2>2. Owing' = Owing \cup {t} /\ t \notin Owing
    BY <1>0, <2>1 DEF Owing
  <2>3. Len(fifo') = Len(fifo) + 1 /\ fifo' \in Seq(Computed)
    BY <1>0, <2>1, AppendProperties
  <2>4. EveryoneTakesOne'
    BY <1>0, <2>2, <2>3, OwingCounts DEF EveryoneTakesOne
  <2>5. ToSet(fifo') = ToSet(fifo) \cup {e}
    BY <1>0, <2>1, AddedToSet
  <2>6. ViewsListed'
    BY <1>0, <2>1, <2>5 DEF ViewsListed, e
  <2>7. ViewTypeOK'
    BY <1>0, <2>1, <2>3 DEF ViewTypeOK
  <2> QED
    BY <2>4, <2>6, <2>7 DEF ViewInv
<1>4. ASSUME Check(t) PROVE ViewInv'
  <2>1. /\ fetch[t].at = "check" /\ UNCHANGED <<fifo, views>>
        /\ fetch' = [fetch EXCEPT ![t] =
                       [at |-> IF Len(fifo) > ViewCap THEN "take" ELSE "idle", expert |-> 0]]
    BY <1>4 DEF Check, Goto, At
  <2>2. Owing' = (IF Len(fifo) > ViewCap THEN Owing ELSE Owing \ {t}) /\ t \in Owing
    BY <1>0, <2>1 DEF Owing
  <2>3. EveryoneTakesOne'
    <3>1. CASE Len(fifo) > ViewCap
      BY <1>0, <2>1, <2>2, <3>1 DEF EveryoneTakesOne
    <3>2. CASE ~ (Len(fifo) > ViewCap)
      <4>1. Owing' = Owing \ {t} /\ Len(fifo) <= ViewCap
        BY <1>0, <2>2, <3>2
      <4> QED
        BY <1>0, <2>1, <2>2, <4>1, OwingCounts DEF EveryoneTakesOne
    <3> QED
      BY <3>1, <3>2
  <2>4. ViewsListed' /\ ViewTypeOK'
    BY <1>0, <2>1 DEF ViewsListed, ViewTypeOK
  <2> QED
    BY <2>3, <2>4 DEF ViewInv
<1>5. ASSUME TakeFirst(t) PROVE ViewInv'
  <2>1. /\ fetch[t].at = "take" /\ fifo # << >> /\ views' = views /\ fifo' = Tail(fifo)
        /\ fetch' = [fetch EXCEPT ![t] = [at |-> "drop", expert |-> Head(fifo)]]
    BY <1>5 DEF TakeFirst, Goto, At
  <2>2. Head(fifo) \in Computed /\ fifo' \in Seq(Computed) /\ Len(fifo') = Len(fifo) - 1
    BY <1>0, <2>1, HeadTailProperties
  <2>3. Owing' = Owing \ {t} /\ t \in Owing
    BY <1>0, <2>1 DEF Owing
  <2>4. EveryoneTakesOne'
    BY <1>0, <2>2, <2>3, OwingCounts DEF EveryoneTakesOne
  <2>5. ToSet(fifo) = ToSet(fifo') \cup {Head(fifo)}
    BY <1>0, <2>1, TakenFromSet
  <2>6. ViewsListed'
    BY <1>0, <2>1, <2>2, <2>5 DEF ViewsListed
  <2>7. ViewTypeOK'
    BY <1>0, <2>1, <2>2 DEF ViewTypeOK
  <2> QED
    BY <2>4, <2>6, <2>7 DEF ViewInv
<1>6. ASSUME Drop(t) PROVE ViewInv'
  <2>1. Owing' = Owing
    BY <1>0, <1>6 DEF Drop, Goto, At, Owing
  <2> QED
    BY <1>0, <1>6, <2>1
       DEF ViewInv, ViewTypeOK, EveryoneTakesOne, ViewsListed, Drop, Goto, At
<1> QED
  BY <1>1, <1>2, <1>3, <1>4, <1>5, <1>6

(* It says what the run checks of the views.                               *)
LEMMA ViewInvSuffices == ViewInv => ViewsBounded
<1> SUFFICES ASSUME ViewInv PROVE ViewsBounded
  OBVIOUS
<1>1. ASSUME \A t \in Thread : At(t, "idle") PROVE Cardinality(views) <= ViewCap
  <2>1. Owing = {} /\ Cardinality(Owing) = 0
    BY <1>1, FS_EmptySet DEF At, Owing
  <2>2. views \subseteq ToSet(fifo)
    BY <1>1 DEF ViewInv, ViewsListed, At
  <2>3. Len(fifo) <= ViewCap /\ Len(fifo) \in Nat
    BY <2>1, ViewAssumption, LenProperties DEF ViewInv, EveryoneTakesOne, ViewTypeOK
  <2>4. IsFiniteSet(ToSet(fifo)) /\ Cardinality(ToSet(fifo)) <= Len(fifo)
    BY SetOfSequence DEF ViewInv, ViewTypeOK
  <2>5. IsFiniteSet(views) /\ Cardinality(views) <= Cardinality(ToSet(fifo))
    BY <2>2, <2>4, FS_Subset
  <2> QED
    BY <2>3, <2>4, <2>5, FS_CardinalityType, ViewAssumption
<1>2. ASSUME NEW t \in Thread, At(t, "take") PROVE fifo # << >>
  <2>1. Cardinality(Owing) # 0 /\ Cardinality(Owing) \in Nat
    <3>1. t \in Owing
      BY <1>2 DEF At, Owing
    <3> QED
      BY <3>1, OwingCounts, FS_EmptySet
  <2> QED
    BY <2>1 DEF ViewInv, EveryoneTakesOne
<1> QED
  BY <1>1, <1>2 DEF ViewsBounded, ViewInv, ViewsListed

(***************************************************************************)
(* The remote tensor cache                                                 *)
(***************************************************************************)

(* What a file can be, and where a call writes it and touches it.          *)
Contents == {"none", "whole", "bad", "part"}
Writing == {"write", "writeBad", "writePart"}
Touching == {"touchHit", "touchMiss", "evict"}

(* Bytes that are not the tensor's own are kept only where nothing is      *)
(* hashed, a part of them only if it is the hub's; what a crash has left   *)
(* in part is dropped before a call comes to touch it.                     *)
RemoteInv ==
  /\ file \in [Tensor -> Contents]
  /\ call \in Writing \cup Touching => asked \in Tensor
  /\ \A k \in Tensor : file[k] = "bad" => k \notin Hashed
  /\ call \in {"writeBad", "writePart"} => asked \notin Hashed
  /\ call = "writePart" => hub
  /\ call \in Touching /\ file[asked] = "part" => hub /\ asked \notin Hashed
  /\ call \notin {"idle", "evict"} => answer = "none" /\ asked \in Tensor
  /\ WholeAnswers

(* A file of the tensor's length is no part of it.                         *)
LEMMA WholeIsNoPart ==
  ASSUME NEW k \in Tensor, Whole(k)
  PROVE  file[k] \notin {"none", "part"}
<1>1. Size[k] \notin {0, 1}
  BY RemoteAssumption
<1> QED
  BY <1>1 DEF Whole, Bytes

(* No call is under way at the start, and nothing is on the disk.          *)
LEMMA RemoteStarts == RemoteInit => RemoteInv
BY DEF RemoteInit, RemoteInv, WholeAnswers, Contents, Writing, Touching

(* Every step keeps it, a crash in the middle of a write included.         *)
LEMMA RemoteKeeps ==
  ASSUME RemoteInv, [RemoteNext]_remoteVars
  PROVE  RemoteInv'
<1> USE DEF RemoteInv, WholeAnswers, Contents, Writing, Touching, OnlyControl, Continue, Answer
<1>1. ASSUME NEW k, GetTensor(k) PROVE RemoteInv'
  BY <1>1 DEF GetTensor
<1>2. ASSUME NetworkFails PROVE RemoteInv'
  BY <1>2 DEF NetworkFails
<1>3. ASSUME ReadHeader PROVE RemoteInv'
  BY <1>3 DEF ReadHeader
<1>4. ASSUME SaveManifest PROVE RemoteInv'
  BY <1>4 DEF SaveManifest
<1>5. ASSUME LookOnDisk PROVE RemoteInv'
  BY <1>5, WholeIsNoPart DEF LookOnDisk
<1>6. ASSUME DataStart PROVE RemoteInv'
  BY <1>6 DEF DataStart
<1>7. ASSUME FetchTensor PROVE RemoteInv'
  BY <1>7 DEF FetchTensor, Verified
<1>8. ASSUME WriteFile PROVE RemoteInv'
  BY <1>8 DEF WriteFile
<1>9. ASSUME Touch PROVE RemoteInv'
  BY <1>9 DEF Touch
<1>10. ASSUME EvictOldest PROVE RemoteInv'
  BY <1>10 DEF EvictOldest
<1>11. ASSUME EvictEnds PROVE RemoteInv'
  BY <1>11 DEF EvictEnds
<1>12. ASSUME RemoteCrash PROVE RemoteInv'
  <2>1. /\ file' = file \/ file' = [file EXCEPT ![asked] = "part"]
        /\ call' = "idle" /\ answer' = "none" /\ UNCHANGED <<hub, asked>>
    BY <1>12 DEF RemoteCrash
  <2> QED
    BY <2>1
<1>13. ASSUME UNCHANGED remoteVars PROVE RemoteInv'
  BY <1>13 DEF remoteVars
<1> QED
  BY <1>1, <1>2, <1>3, <1>4, <1>5, <1>6, <1>7, <1>8, <1>9, <1>10, <1>11, <1>12, <1>13
     DEF RemoteNext, RemoteDone

(* Whatever was torn, evicted or fetched again, a call never answers with  *)
(* less than the tensor unless the hub did, and never with other bytes     *)
(* where a hash is expected.                                               *)
THEOREM AnswersAlwaysWhole == ServingSpec => []WholeAnswers
<1>1. ServingInit => RemoteInv
  BY RemoteStarts DEF ServingInit
<1>2. RemoteInv /\ [ServingNext]_servingVars => RemoteInv'
  BY OnePartMoves, RemoteKeeps
<1>3. RemoteInv => WholeAnswers
  BY DEF RemoteInv
<1> QED
  BY <1>1, <1>2, <1>3, PTL DEF ServingSpec

(* The bytes each key's file takes.                                        *)
FileBytes(f) == [k \in Tensor |-> Bytes(f[k], k)]

LEMMA BytesType ==
  ASSUME NEW content, NEW k \in Tensor
  PROVE  Bytes(content, k) \in Nat
BY RemoteAssumption DEF Bytes

(* Their total is the table's.                                             *)
LEMMA TotalTable ==
  ASSUME NEW f, NEW keys \in SUBSET Tensor
  PROVE  IsFiniteSet(keys) /\ \E h : Sums(h, FileBytes(f), keys) /\ TotalBytes(f, keys) = h[keys]
<1>1. IsFiniteSet(keys)
  BY RemoteAssumption, FS_Subset
<1> DEFINE b == FileBytes(f)
<1>2. \A k \in keys : b[k] \in Int
  BY BytesType DEF FileBytes
<1>3. TotalBytes(f, keys) = FoldFunctionOnSet(+, 0, b, keys)
  BY DEF TotalBytes, FileBytes
<1> HIDE DEF b
<1>4. \E h : Sums(h, b, keys) /\ FoldFunctionOnSet(+, 0, b, keys) = h[keys]
  BY <1>1, <1>2, SumTable
<1> QED
  BY <1>1, <1>3, <1>4 DEF b

(* Some of the files take no more than all of them.                        *)
LEMMA TotalGrows ==
  ASSUME NEW f, NEW keys \in SUBSET Tensor
  PROVE  /\ TotalBytes(f, keys) \in Int /\ TotalBytes(f, Tensor) \in Int
         /\ TotalBytes(f, keys) <= TotalBytes(f, Tensor)
<1> DEFINE b == FileBytes(f)
<1>1. PICK h : Sums(h, b, keys) /\ TotalBytes(f, keys) = h[keys]
  BY TotalTable
<1>2. PICK k : Sums(k, b, Tensor) /\ TotalBytes(f, Tensor) = k[Tensor]
  BY TotalTable
<1>3. IsFiniteSet(keys) /\ IsFiniteSet(Tensor)
  BY TotalTable
<1>4. \A x \in Tensor : b[x] \in Nat
  BY BytesType DEF FileBytes
<1> HIDE DEF b
<1>5. h[keys] = k[keys]
  BY <1>1, <1>2, <1>3, SumsAgree
<1>6. k[keys] <= k[Tensor]
  BY <1>2, <1>3, <1>4, SumsGrow
<1>7. h[keys] \in Int /\ k[Tensor] \in Int
  BY <1>1, <1>2 DEF Sums
<1> QED
  BY <1>1, <1>2, <1>5, <1>6, <1>7

(* One file written or dropped changes the total by what it takes.         *)
LEMMA TotalChanges ==
  ASSUME NEW f, NEW g, NEW key \in Tensor, \A x \in Tensor \ {key} : g[x] = f[x]
  PROVE  TotalBytes(g, Tensor) = (TotalBytes(f, Tensor) - Bytes(f[key], key)) + Bytes(g[key], key)
<1> DEFINE b == FileBytes(f)
           c == FileBytes(g)
           others == Tensor \ {key}
<1>1. PICK h : Sums(h, b, Tensor) /\ TotalBytes(f, Tensor) = h[Tensor]
  BY TotalTable
<1>2. PICK k : Sums(k, c, Tensor) /\ TotalBytes(g, Tensor) = k[Tensor]
  BY TotalTable
<1>3. \A x \in others : b[x] = c[x]
  BY DEF FileBytes
<1>4. b[key] = Bytes(f[key], key) /\ c[key] = Bytes(g[key], key)
  BY DEF FileBytes
<1>5. IsFiniteSet(others)
  BY TotalTable
<1> HIDE DEF b, c
<1>6. h[others] = k[others]
  <2>1. others \subseteq Tensor
    OBVIOUS
  <2> HIDE DEF others
  <2> QED
    BY <1>1, <1>2, <1>3, <1>5, <2>1, SumsAgree
<1>7. h[Tensor] = b[key] + h[others] /\ k[Tensor] = c[key] + k[others] /\ h[others] \in Int
  BY <1>1, <1>2 DEF Sums
<1>8. b[key] \in Int /\ c[key] \in Int
  BY <1>4, BytesType
<1> HIDE DEF others
<1>9. PICK rest \in Int, was \in Int, now \in Int :
        rest = h[others] /\ was = b[key] /\ now = c[key]
  BY <1>7, <1>8
<1>10. TotalBytes(f, Tensor) = was + rest /\ TotalBytes(g, Tensor) = now + rest
  BY <1>1, <1>2, <1>6, <1>7, <1>9
<1>11. (now + rest) = ((was + rest) - was) + now
  BY <1>9
<1> QED
  BY <1>4, <1>9, <1>10, <1>11

(* A key moved to the end of a list of keys.                               *)
LEMMA MovedType ==
  ASSUME NEW S, NEW list \in Seq(S), NEW k \in S
  PROVE  Moved(list, k) \in Seq(S)
<1>1. RemoveFirst(list, k) \in Seq(S)
  <2> DEFINE I == {i \in 1 .. Len(list) : list[i] = k}
  <2>1. CASE I = {}
    BY <2>1 DEF RemoveFirst
  <2>2. CASE I # {}
    <3>1. I \in SUBSET Nat
      BY LenProperties
    <3>2. PICK first \in I : \A j \in I : first <= j
      BY <2>2, <3>1, LeastNatural
    <3>3. SelectInSeq(list, LAMBDA v : v = k) = first
      <4>1. Min(I) = first
        BY <3>1, <3>2 DEF Min
      <4> QED
        BY <2>2, <4>1 DEF SelectInSeq
    <3>4. RemoveFirst(list, k) = RemoveAt(list, SelectInSeq(list, LAMBDA v : v = k))
      BY <2>2 DEF RemoveFirst
    <3> QED
      BY <3>3, <3>4, RemoveAtType
  <2> QED
    BY <2>1, <2>2
<1> QED
  BY <1>1, AppendProperties DEF Moved

(* Where the asked key's file is known to be missing.                      *)
Fetching == {"start", "saveStart", "fetch"} \cup Writing

(* What is counted covers what the files take, but for the file just       *)
(* written, which the touch that follows counts; the list names keys.      *)
SpaceInv ==
  /\ RemoteInv
  /\ recency \in Seq(Tensor) /\ listed \in Seq(Tensor)
  /\ used \in Int
  /\ call \in Fetching => file[asked] = "none"
  /\ call # "touchMiss" => TotalBytes(file, Tensor) <= used
  /\ call = "touchMiss" => TotalBytes(file, Tensor) <= used + Bytes(file[asked], asked)

(* At the start no file takes anything.                                    *)
LEMMA SpaceStarts == RemoteInit => SpaceInv
<1> SUFFICES ASSUME RemoteInit PROVE SpaceInv
  OBVIOUS
<1>1. RemoteInv
  BY RemoteStarts
<1> DEFINE f == FileBytes(file)
           zero == [keys \in SUBSET Tensor |-> 0]
<1>2. \A k \in Tensor : f[k] = 0
  BY DEF RemoteInit, FileBytes, Bytes
<1>3. PICK h : Sums(h, f, Tensor) /\ TotalBytes(file, Tensor) = h[Tensor]
  BY TotalTable
<1> HIDE DEF f
<1>4. Sums(zero, [k \in Tensor |-> 0], Tensor)
  BY DEF Sums
<1>5. IsFiniteSet(Tensor) /\ \A k \in Tensor : f[k] = [x \in Tensor |-> 0][k]
  BY <1>2, RemoteAssumption
<1>6. h[Tensor] = zero[Tensor]
  <2>1. PICK g, z : g = [k \in Tensor |-> 0] /\ z = zero
    OBVIOUS
  <2>2. Sums(z, g, Tensor) /\ \A k \in Tensor : f[k] = g[k]
    BY <1>4, <1>5, <2>1
  <2>3. h[Tensor] = z[Tensor]
    BY <1>3, <1>5, <2>2, SumsAgree
  <2> QED
    BY <2>1, <2>3
<1>7. TotalBytes(file, Tensor) = 0
  BY <1>3, <1>6
<1> QED
  BY <1>1, <1>7, EmptySeq DEF RemoteInit, SpaceInv, Fetching, Writing

(* Every step keeps it: a file is dropped before it is written again, a    *)
(* miss counts what it wrote, an eviction takes off what it frees, and a   *)
(* restart counts what it finds.                                           *)
LEMMA SpaceKeeps ==
  ASSUME SpaceInv, [RemoteNext]_remoteVars
  PROVE  SpaceInv'
<1>1. RemoteInv'
  BY RemoteKeeps DEF SpaceInv
<1>2. \A f : TotalBytes(f, Tensor) \in Int
  BY TotalGrows
<1>3. \A content : \A k \in Tensor : Bytes(content, k) \in Nat
  BY BytesType
<1> USE DEF OnlyControl, Continue, Answer
<1>4. ASSUME UNCHANGED <<file, listed, recency, used>>, call # "touchMiss", call' # "touchMiss",
             call' \in Fetching => call \in Fetching /\ asked' = asked
      PROVE  SpaceInv'
  BY <1>1, <1>4 DEF SpaceInv
<1>5. ASSUME NEW k, GetTensor(k) PROVE SpaceInv'
  BY <1>4, <1>5 DEF GetTensor, Fetching, Writing
<1>6. ASSUME NetworkFails PROVE SpaceInv'
  BY <1>4, <1>6 DEF NetworkFails, Fetching, Writing
<1>7. ASSUME ReadHeader PROVE SpaceInv'
  BY <1>4, <1>7 DEF ReadHeader, Fetching, Writing
<1>8. ASSUME SaveManifest PROVE SpaceInv'
  BY <1>4, <1>8 DEF SaveManifest, Fetching, Writing
<1>9. ASSUME DataStart PROVE SpaceInv'
  BY <1>4, <1>9 DEF DataStart, Fetching, Writing
<1>10. ASSUME FetchTensor PROVE SpaceInv'
  BY <1>4, <1>10 DEF FetchTensor, Fetching, Writing
<1>11. ASSUME LookOnDisk PROVE SpaceInv'
  <2>1. asked \in Tensor /\ asked' = asked /\ UNCHANGED <<listed, recency, used>>
    BY <1>11 DEF LookOnDisk, SpaceInv, RemoteInv
  <2>2. CASE Whole(asked)
    BY <1>4, <1>11, <2>2 DEF LookOnDisk, Fetching, Writing
  <2>3. CASE ~ Whole(asked)
    <3>1. call' = "start" /\ file' = [file EXCEPT ![asked] = "none"] /\ call = "look"
      BY <1>11, <2>3 DEF LookOnDisk
    <3>2. file'[asked] = "none" /\ Bytes(file'[asked], asked) = 0
      BY <2>1, <3>1 DEF SpaceInv, RemoteInv, Bytes
    <3>3. TotalBytes(file', Tensor) = (TotalBytes(file, Tensor) - Bytes(file[asked], asked)) + Bytes(file'[asked], asked)
      BY <2>1, <3>1, TotalChanges DEF SpaceInv, RemoteInv
    <3>4. TotalBytes(file', Tensor) <= TotalBytes(file, Tensor)
      <4>1. PICK was \in Int, now \in Int, bytes \in Nat :
              was = TotalBytes(file, Tensor) /\ now = TotalBytes(file', Tensor) /\ bytes = Bytes(file[asked], asked)
        BY <1>2, <1>3, <2>1
      <4>2. now = (was - bytes) + 0
        BY <3>2, <3>3, <4>1
      <4>3. now <= was
        BY <4>1, <4>2
      <4> QED
        BY <4>1, <4>3
    <3>5. TotalBytes(file', Tensor) <= used
      BY <1>2, <3>1, <3>4 DEF SpaceInv
    <3> QED
      BY <1>1, <2>1, <3>1, <3>2, <3>5 DEF SpaceInv, Fetching
  <2> QED
    BY <2>2, <2>3
<1>12. ASSUME WriteFile PROVE SpaceInv'
  <2>1. /\ asked \in Tensor /\ asked' = asked /\ UNCHANGED <<listed, recency, used>>
        /\ call \in Writing /\ call' = "touchMiss"
        /\ \A k \in Tensor \ {asked} : file'[k] = file[k]
    BY <1>12 DEF WriteFile, SpaceInv, RemoteInv, Writing
  <2>2. TotalBytes(file', Tensor) = (TotalBytes(file, Tensor) - Bytes(file[asked], asked)) + Bytes(file'[asked], asked)
    BY <2>1, TotalChanges
  <2>3. Bytes(file[asked], asked) = 0 /\ TotalBytes(file, Tensor) <= used
    BY <2>1 DEF SpaceInv, Fetching, Writing, Bytes
  <2>4. TotalBytes(file', Tensor) <= used + Bytes(file'[asked], asked)
    <3>1. PICK was \in Int, now \in Int, counted \in Int, bytes \in Nat :
            /\ was = TotalBytes(file, Tensor) /\ now = TotalBytes(file', Tensor)
            /\ counted = used /\ bytes = Bytes(file'[asked], asked)
      BY <1>2, <1>3, <2>1 DEF SpaceInv
    <3>2. now = (was - 0) + bytes /\ was <= counted
      BY <2>2, <2>3, <3>1
    <3>3. now <= counted + bytes
      BY <3>1, <3>2
    <3> QED
      BY <3>1, <3>3
  <2> QED
    BY <1>1, <2>1, <2>4 DEF SpaceInv, Fetching, Writing
<1>13. ASSUME Touch PROVE SpaceInv'
  <2>1. /\ asked \in Tensor /\ asked' = asked /\ file' = file /\ recency' = Moved(recency, asked) /\ listed' = recency'
        /\ call' \in {"idle", "evict"}
        /\ \/ call = "touchMiss" /\ used' = used + Bytes(file[asked], asked)
           \/ call = "touchHit" /\ used' = used
    BY <1>13 DEF Touch, Stored, SpaceInv, RemoteInv, Touching
  <2>2. recency' \in Seq(Tensor) /\ listed' \in Seq(Tensor)
    BY <2>1, MovedType DEF SpaceInv
  <2>3. used' \in Int /\ TotalBytes(file, Tensor) <= used'
    <3>1. PICK total \in Int, counted \in Int, bytes \in Nat :
            total = TotalBytes(file, Tensor) /\ counted = used /\ bytes = Bytes(file[asked], asked)
      BY <1>2, <1>3, <2>1 DEF SpaceInv
    <3>2. CASE call = "touchMiss"
      <4>1. total <= counted + bytes /\ used' = counted + bytes
        BY <2>1, <3>1, <3>2 DEF SpaceInv
      <4>2. counted + bytes \in Int
        BY <3>1
      <4> QED
        BY <3>1, <4>1, <4>2
    <3>3. CASE call = "touchHit"
      BY <2>1, <3>1, <3>3 DEF SpaceInv
    <3> QED
      BY <2>1, <3>2, <3>3
  <2> QED
    BY <1>1, <2>1, <2>2, <2>3 DEF SpaceInv, Fetching, Writing
<1>14. ASSUME EvictOldest PROVE SpaceInv'
  <2>1. recency # <<>> /\ recency \in Seq(Tensor)
    BY <1>14 DEF EvictOldest, SpaceInv
  <2>2. PICK oldest \in Tensor : oldest = Head(recency)
    BY <2>1, HeadTailProperties
  <2>3. /\ file' = [file EXCEPT ![oldest] = "none"] /\ used' = used - Bytes(file[oldest], oldest)
        /\ recency' = Tail(recency) /\ call = "evict" /\ call' = "evict" /\ UNCHANGED <<listed, asked>>
    BY <1>14, <2>2 DEF EvictOldest
  <2>4. recency' \in Seq(Tensor)
    BY <2>1, <2>3, HeadTailProperties
  <2>5. Bytes(file'[oldest], oldest) = 0
    BY <2>3 DEF SpaceInv, RemoteInv, Bytes
  <2>6. TotalBytes(file', Tensor) = (TotalBytes(file, Tensor) - Bytes(file[oldest], oldest)) + Bytes(file'[oldest], oldest)
    BY <2>3, TotalChanges DEF SpaceInv, RemoteInv
  <2>7. used' \in Int /\ TotalBytes(file', Tensor) <= used'
    <3>1. PICK was \in Int, now \in Int, counted \in Int, bytes \in Nat :
            /\ was = TotalBytes(file, Tensor) /\ now = TotalBytes(file', Tensor)
            /\ counted = used /\ bytes = Bytes(file[oldest], oldest)
      BY <1>2, <1>3 DEF SpaceInv
    <3>2. now = (was - bytes) + 0 /\ was <= counted /\ used' = counted - bytes
      BY <2>3, <2>5, <2>6, <3>1 DEF SpaceInv
    <3>3. now <= counted - bytes /\ counted - bytes \in Int
      BY <3>1, <3>2
    <3> QED
      BY <3>1, <3>2, <3>3
  <2> QED
    BY <1>1, <2>3, <2>4, <2>7 DEF SpaceInv, Fetching, Writing
<1>15. ASSUME EvictEnds PROVE SpaceInv'
  BY <1>1, <1>15 DEF EvictEnds, SpaceInv, Fetching, Writing
<1>16. ASSUME RemoteCrash PROVE SpaceInv'
  <2>1. listed' \in {listed, <<>>} /\ recency' = listed' /\ used' = TotalBytes(file', Tensor) /\ call' = "idle"
    BY <1>16 DEF RemoteCrash
  <2>2. listed' \in Seq(Tensor)
    BY <2>1, EmptySeq DEF SpaceInv
  <2>3. used' \in Int
    BY <1>2, <2>1
  <2> QED
    BY <1>1, <2>1, <2>2, <2>3 DEF SpaceInv, Fetching, Writing
<1>17. ASSUME UNCHANGED remoteVars PROVE SpaceInv'
  BY <1>1, <1>17 DEF remoteVars, SpaceInv
<1> QED
  BY <1>5, <1>6, <1>7, <1>8, <1>9, <1>10, <1>11, <1>12, <1>13, <1>14, <1>15, <1>16, <1>17
     DEF RemoteNext, RemoteDone

(* Where the evictions end, what the list names is within the cap.         *)
LEMMA EvictionsEnd ==
  ASSUME SpaceInv, SpaceInv', EvictEnds
  PROVE  Listed' <= Cap
<1> DEFINE keys == Range(recency')
<1>1. /\ recency' = recency /\ file' = file /\ used' = used /\ (used <= Cap \/ recency = <<>>)
      /\ call = "evict"
  BY DEF EvictEnds
<1>2. recency \in Seq(Tensor) /\ keys \in SUBSET Tensor /\ Cap \in Nat
  BY <1>1, RemoteAssumption, ElementOfSeq, LenProperties DEF Range, SpaceInv
<1>3. Listed' = TotalBytes(file, keys)
  BY <1>1 DEF Listed
<1>4. CASE used <= Cap
  <2>1. TotalBytes(file, Tensor) <= used /\ used \in Int
    BY <1>1 DEF SpaceInv
  <2> HIDE DEF keys
  <2> QED
    BY <1>2, <1>3, <1>4, <2>1, TotalGrows
<1>5. CASE recency = <<>>
  <2>1. keys = {}
    BY <1>1, <1>5 DEF Range
  <2>2. TotalBytes(file, keys) = 0
    <3>1. PICK h : Sums(h, FileBytes(file), keys) /\ TotalBytes(file, keys) = h[keys]
      BY <1>2, TotalTable
    <3> QED
      BY <2>1, <3>1 DEF Sums
  <2> QED
    BY <1>2, <1>3, <2>2
<1> QED
  BY <1>1, <1>4, <1>5

(* A miss leaves what the list names within the cap, whatever tensors and  *)
(* sizes there are, with files written and not counted, or counted and not *)
(* listed, by processes that died before.                                  *)
THEOREM MissesAlwaysLeaveCap == ServingSpec => MissLeavesCap
<1>1. ServingInit => SpaceInv
  BY SpaceStarts DEF ServingInit
<1>2. SpaceInv /\ [ServingNext]_servingVars => SpaceInv'
  BY OnePartMoves, SpaceKeeps
<1>3. SpaceInv /\ SpaceInv' => [EvictEnds => Listed' <= Cap]_remoteVars
  BY EvictionsEnd
<1> QED
  BY <1>1, <1>2, <1>3, PTL DEF ServingSpec, MissLeavesCap

(***************************************************************************)
(* The slots of a layer and the two streams                                *)
(***************************************************************************)

(* Where the host can be.                                                  *)
Hosts == {"entrance", "prefetch", "gate", "done", "touch", "missing", "loaded", "count",
          "compute", "failed"}

(* A slot has an expert or none, and an expert a slot or none.             *)
TableTypes ==
  /\ slotExpert \in [Slot -> Expert \cup {None}]
  /\ expertSlot \in [Expert -> Slot \cup {None}]
  /\ colState \in [Slot -> Expert \cup {None}]
  /\ staged \in [Expert -> Slot \cup {None}]

(* The two tables are inverses, and a staged expert is in a slot of its    *)
(* own that is bound to nobody.                                            *)
Tables ==
  /\ TableTypes
  /\ \A s \in Slot, e \in Expert : slotExpert[s] = e <=> expertSlot[e] = s
  /\ \A e \in Expert : staged[e] # None =>
       config.movement = "columns" /\ colState[staged[e]] = e /\ slotExpert[staged[e]] = None

(* Until a compressed prefetch takes the list and fails, it has every slot *)
(* once, so a load never fails for want of one.                            *)
Queued == RanDry \/ (Injective(lru) /\ ToSet(lru) = Slot /\ host # "failed")

(* The needed experts a loop has gone through that are in a slot.          *)
Kept == {e \in needed \ todo : Resident(e)}

(* Their slots, which have to stay theirs until the products are launched. *)
KeptSlots == {expertSlot[e] : e \in Kept}

(* What the loops have done so far: a loop over the missing experts has    *)
(* only missing ones ahead of it, one over the hits only hits, and the     *)
(* slots of those it has behind it come last in the list, so the slot it   *)
(* takes next is none of theirs. Once the last is loaded, a fitting        *)
(* forward finds all it needs.                                             *)
Progress ==
  /\ host = "prefetch" => config.zssr /\ Cardinality(todo) <= PrefetchTopK
  /\ host \in {"prefetch", "missing"} => \A e \in todo : ~Resident(e)
  /\ host = "touch" => \A e \in todo : Resident(e)
  /\ host \in {"touch", "missing"} => Fits /\ todo \subseteq needed /\ ComeLast(lru, KeptSlots)
  /\ host = "missing" => \A e \in needed \ todo : Resident(e)
  /\ host = "compute" => todo \subseteq needed
  /\ host = "loaded" => Fits
  /\ host \in {"loaded", "count", "compute"} /\ Fits => \A e \in needed : Resident(e)

(* The part of the invariant about the tables of the host.                 *)
BookInv ==
  /\ config \in LegalFlags /\ lru \in Seq(Slot) /\ host \in Hosts
  /\ needed \subseteq Expert /\ todo \subseteq Expert
  /\ Tables /\ Queued /\ Progress

(* The copy c writes part p of slot s.                                     *)
Reaches(c, s, p) == c.slot = s /\ p \in c.parts

(* Once the copies q have run over what h holds, part p of slot s has the  *)
(* weights of e: it has them and none of q touches it, or the last that    *)
(* does brings them.                                                       *)
Brings(h, q, s, p, e) ==
  \/ h[s][p] = e /\ \A j \in DOMAIN q : ~Reaches(q[j], s, p)
  \/ \E i \in DOMAIN q : /\ Reaches(q[i], s, p) /\ q[i].from = e
                         /\ \A j \in DOMAIN q : i < j => ~Reaches(q[j], s, p)

(* The copies a stream without the pinned triple is given.                 *)
Copies == [slot : Slot, parts : SUBSET Part, from : Expert]

(* The operations of the current stream.                                   *)
Ops(names) == [op : names, slot : Slot, expert : Expert, after : Nat, fit : BOOLEAN]

(* Whose weights the parts of the slots hold.                              *)
Weights == [Slot -> [Part -> Expert \cup {None}]]

(* Copies have been started that the current stream is yet to be told to   *)
(* wait for.                                                               *)
Waiting == host = "loaded" \/ (host = "missing" /\ todo # {})
(* Whose weights come to the slots of the resident and the staged experts. *)
Landing ==
  /\ \A e \in Expert, p \in Read : Resident(e) => Brings(held, dma, expertSlot[e], p, e)
  /\ \A e \in Expert : staged[e] # None => Brings(held, dma, staged[e], Hot, e)

(* Otherwise the copies it does not wait for go to slots bound to nobody.  *)
Waited == Waiting \/ \A j \in DOMAIN dma : j > behind => slotExpert[dma[j].slot] = None

(* A product of a fitting forward has its slot until it runs, and no copy  *)
(* into that slot comes later than those it waits for.                     *)
Served(op) ==
  /\ Fits /\ host \in {"compute", "entrance", "gate", "failed"}
  /\ expertSlot[op.expert] = op.slot
  /\ \A j \in DOMAIN dma : dma[j].slot = op.slot => j <= op.after

(* The part about the copies, where they come straight from the experts.   *)
CopyInv ==
  /\ held \in Weights /\ dma \in Seq(Copies) /\ current \in Seq(Ops({"product"})) /\ behind \in Nat
  /\ Landing /\ Waited
  /\ \A i \in DOMAIN current : current[i].fit => Served(current[i])
  /\ TRUE \notin misread

(* The operation o decodes into slot s.                                    *)
Decodes(o, s) == o.op = "decode" /\ o.slot = s

(* Once the first n operations of q have run over what h holds, slot s has *)
(* the weights of e.                                                       *)
Decoded(h, q, n, s, e) ==
  \/ (\A p \in Part : h[s][p] = e) /\ \A j \in 1 .. n : ~Decodes(q[j], s)
  \/ \E i \in 1 .. n : /\ Decodes(q[i], s) /\ q[i].expert = e
                       /\ \A j \in 1 .. n : i < j => ~Decodes(q[j], s)

(* The part about compressed experts: the current stream decodes and       *)
(* multiplies in the order of the launches, so nothing is waited for, and  *)
(* a product finds what the last decoding before it left.                  *)
DecodeInv ==
  /\ held \in Weights /\ dma = << >> /\ behind = 0 /\ current \in Seq(Ops({"decode", "product"}))
  /\ \A e \in Expert : Resident(e) => Decoded(held, current, Len(current), expertSlot[e], e)
  /\ \A i \in DOMAIN current : current[i].op = "product" =>
       Decoded(held, current, i - 1, current[i].slot, current[i].expert)
  /\ misread = {}

(* No copy shares a buffer with another, and what is moved ahead is waited *)
(* for: what DecodeExact asks of the flags.                                *)
Plain == ~config.pinned /\ ~(config.zssr /\ config.movement = "whole")

(* The invariant of the slots of a layer.                                  *)
SlotInv ==
  /\ BookInv
  /\ config.movement = "ans" => DecodeInv
  /\ Plain /\ config.movement # "ans" => CopyInv

-----------------------------------------------------------------------------

(* What the assumptions say of the slots.                                  *)
LEMMA SlotFacts ==
  /\ None \notin Slot /\ None \notin Expert /\ 0 \in Slot
  /\ IsFiniteSet(Slot) /\ Cardinality(Slot) = Capacity
<1>1. IsFiniteSet(0 .. Capacity - 1) /\ Cardinality(0 .. Capacity - 1) = Capacity
  BY SlotAssumption, FS_Interval
<1> QED
  BY <1>1, SlotAssumption DEF None, Slot

(* A loop that is not through has a next expert.                           *)
LEMMA FirstIn ==
  ASSUME NEW S \in SUBSET Expert, S # {}
  PROVE  First(S) \in S
<1>1. \E e \in S : \A x \in S : e <= x
  BY SlotAssumption, LeastNatural
<1> QED
  BY <1>1 DEF First

(* A list of all slots is not empty, and only a dry one is.                *)
LEMMA FullList ==
  ASSUME lru \in Seq(Slot), ToSet(lru) = Slot
  PROVE  lru # << >> /\ Head(lru) \in Slot
<1>1. lru # << >>
  BY SlotFacts DEF ToSet
<1> QED
  BY <1>1, HeadTailProperties

(* The list of all slots has their number for its length.                  *)
LEMMA FullLength ==
  ASSUME lru \in Seq(Slot), Injective(lru), ToSet(lru) = Slot
  PROVE  Len(lru) = Capacity
<1> DEFINE n == Len(lru)
<1>1. n \in Nat /\ DOMAIN lru = 1 .. n
  BY LenProperties
<1>2. lru \in [1 .. n -> Slot]
  BY <1>1, ElementOfSeq, LenProperties
<1>3. \A s \in Slot : \E i \in 1 .. n : lru[i] = s
  BY <1>1 DEF ToSet
<1>4. /\ lru \in Surjection(1 .. n, Slot)
      /\ lru \in Injection(1 .. n, Slot)
  BY <1>1, <1>2, <1>3 DEF Surjection, Injection, IsInjective, Injective
<1> HIDE DEF n
<1>5. IsFiniteSet(1 .. n) /\ Cardinality(1 .. n) = n
  <2>1. 1 \in Int /\ n \in Int
    BY <1>1
  <2> QED
    BY <1>1, <2>1, FS_Interval
<1> QED
  BY <1>4, <1>5, SlotFacts, FS_Surjection DEF n

(* The oldest slot takes an expert that is in none.                        *)
LEMMA BindKeeps ==
  ASSUME config' = config, Tables, NEW e \in Expert, ~ Resident(e), NEW s \in Slot,
         Bind(e, s),
         \/ config.movement = "columns" /\ Unstaged(s)
         \/ config.movement # "columns" /\ UNCHANGED <<colState, staged>>
  PROVE  /\ Tables'
         /\ slotExpert' = [slotExpert EXCEPT ![s] = e]
         /\ expertSlot' = [x \in Expert |-> IF x = e THEN s
                             ELSE IF expertSlot[x] = s THEN None ELSE expertSlot[x]]
         /\ \A x \in Expert : staged'[x] # None => staged[x] = staged'[x] /\ staged[x] # s
<1> USE SlotFacts
<1>1. slotExpert' = [slotExpert EXCEPT ![s] = e]
  BY DEF Bind
<1>2. expertSlot' = [x \in Expert |-> IF x = e THEN s
                             ELSE IF expertSlot[x] = s THEN None ELSE expertSlot[x]]
  BY DEF Bind, Tables
<1>3. TableTypes'
  <2>1. slotExpert' \in [Slot -> Expert \cup {None}]
    BY <1>1 DEF Tables, TableTypes
  <2>2. expertSlot' \in [Expert -> Slot \cup {None}]
    BY <1>2 DEF Tables, TableTypes
  <2>3. colState' \in [Slot -> Expert \cup {None}] /\ staged' \in [Expert -> Slot \cup {None}]
    BY DEF Tables, TableTypes, Unstaged
  <2> QED
    BY <2>1, <2>2, <2>3 DEF TableTypes
<1>4. ASSUME NEW t \in Slot, NEW x \in Expert
      PROVE  slotExpert'[t] = x <=> expertSlot'[x] = t
  <2>1. slotExpert[t] = x <=> expertSlot[x] = t
    BY DEF Tables
  <2>2. slotExpert'[t] = IF t = s THEN e ELSE slotExpert[t]
    BY <1>1 DEF Tables, TableTypes
  <2>3. expertSlot'[x] = IF x = e THEN s ELSE IF expertSlot[x] = s THEN None ELSE expertSlot[x]
    BY <1>2
  <2>4. expertSlot[e] = None
    BY DEF Resident
  <2> QED
    BY <2>1, <2>2, <2>3, <2>4
<1>5. ASSUME NEW x \in Expert, staged'[x] # None
      PROVE  /\ staged'[x] = staged[x] /\ staged[x] # s
             /\ config.movement = "columns" /\ colState'[staged'[x]] = x
             /\ slotExpert'[staged'[x]] = None
  <2>1. config.movement = "columns" /\ Unstaged(s)
    BY <1>5 DEF Tables
  <2>2. staged'[x] = staged[x] /\ x # colState[s]
    BY <1>5, <2>1 DEF Unstaged
  <2>3. staged[x] \in Slot /\ colState[staged[x]] = x /\ slotExpert[staged[x]] = None
    BY <1>5, <2>2 DEF Tables, TableTypes
  <2>4. staged[x] # s
    BY <2>2, <2>3
  <2>5. colState'[staged[x]] = colState[staged[x]] /\ slotExpert'[staged[x]] = slotExpert[staged[x]]
    BY <1>1, <2>1, <2>3, <2>4 DEF Unstaged, Tables, TableTypes
  <2> QED
    BY <2>1, <2>2, <2>3, <2>4, <2>5
<1> QED
  BY <1>1, <1>2, <1>3, <1>4, <1>5 DEF Tables

(* Taking the oldest slot keeps the tables and the list, and puts the slot *)
(* behind those that come last.                                            *)
LEMMA TakeKeeps ==
  ASSUME config' = config, lru \in Seq(Slot), Tables, Injective(lru), ToSet(lru) = Slot,
         NEW e \in Expert, ~ Resident(e), TakeOldest(e)
  PROVE  /\ Tables' /\ Head(lru) \in Slot
         /\ slotExpert' = [slotExpert EXCEPT ![Head(lru)] = e]
         /\ expertSlot' = [x \in Expert |-> IF x = e THEN Head(lru)
                             ELSE IF expertSlot[x] = Head(lru) THEN None ELSE expertSlot[x]]
         /\ \A x \in Expert : staged'[x] # None => staged[x] = staged'[x] /\ staged[x] # Head(lru)
         /\ lru' \in Seq(Slot) /\ Injective(lru') /\ ToSet(lru') = Slot
         /\ \A S : ComeLast(lru, S) => ComeLast(lru', S \cup {Head(lru)})
<1>1. lru # << >> /\ Head(lru) \in Slot
  BY FullList
<1>2. lru' = Append(Tail(lru), Head(lru))
  BY DEF TakeOldest
<1>3. /\ lru' \in Seq(Slot) /\ Injective(lru') /\ ToSet(lru') = Slot
      /\ \A S : ComeLast(lru, S) => ComeLast(lru', S \cup {Head(lru)})
  BY <1>1, <1>2, RotateKeeps
<1>4. /\ Bind(e, Head(lru))
      /\ \/ config.movement = "columns" /\ Unstaged(Head(lru))
         \/ config.movement # "columns" /\ UNCHANGED <<colState, staged>>
  BY DEF TakeOldest, Stream
<1> QED
  BY <1>1, <1>3, <1>4, BindKeeps

(* A staging takes the slot from the expert that is in it or staged in it, *)
(* even if there is nothing to stage then.                                 *)
Stages(e, s) ==
  /\ colState' = [colState EXCEPT ![s] = IF e \in Indexed THEN e ELSE None]
  /\ staged' = [x \in Expert |-> IF x = e /\ e \in Indexed THEN s
                                 ELSE IF x = colState[s] THEN None ELSE staged[x]]
  /\ slotExpert' = [slotExpert EXCEPT ![s] = None]
  /\ expertSlot' = [x \in Expert |-> IF x = slotExpert[s] THEN None ELSE expertSlot[x]]

(* The three outcomes of a staging.                                        *)
LEMMA StageIs ==
  ASSUME NEW e \in Expert, StageOne(e), Tables, Head(lru) \in Slot
  PROVE  /\ e \notin Calibrated => UNCHANGED <<slotExpert, expertSlot, colState, staged, dma>>
         /\ e \in Calibrated => Stages(e, Head(lru))
         /\ e \in Calibrated \ Indexed => dma' = dma
         /\ e \in Indexed => dma' = Append(dma, Copy(Head(lru), {Hot}, e))
<1>1. Indexed \subseteq Calibrated
  BY SlotAssumption
<1> QED
  BY <1>1 DEF StageOne, Stages, Unbound, Unstaged

(* Staging keeps the tables; the slot is nobody's then.                    *)
LEMMA StageKeeps ==
  ASSUME config' = config, config.movement = "columns", Tables,
         NEW e \in Expert, NEW s \in Slot, Stages(e, s)
  PROVE  /\ Tables'
         /\ expertSlot' = [x \in Expert |-> IF expertSlot[x] = s THEN None ELSE expertSlot[x]]
         /\ \A x \in Expert : (staged'[x] # None /\ ~(x = e /\ e \in Indexed))
                                 => staged[x] = staged'[x] /\ staged[x] # s
<1> USE SlotFacts
<1>1. slotExpert' = [slotExpert EXCEPT ![s] = None]
  BY DEF Stages
<1>2. expertSlot' = [x \in Expert |-> IF expertSlot[x] = s THEN None ELSE expertSlot[x]]
  BY DEF Stages, Tables
<1>3. TableTypes'
  <2>1. slotExpert' \in [Slot -> Expert \cup {None}]
    BY <1>1 DEF Tables, TableTypes
  <2>2. expertSlot' \in [Expert -> Slot \cup {None}]
    BY <1>2 DEF Tables, TableTypes
  <2>3. colState' \in [Slot -> Expert \cup {None}] /\ staged' \in [Expert -> Slot \cup {None}]
    BY DEF Tables, TableTypes, Stages
  <2> QED
    BY <2>1, <2>2, <2>3 DEF TableTypes
<1>4. ASSUME NEW t \in Slot, NEW x \in Expert
      PROVE  slotExpert'[t] = x <=> expertSlot'[x] = t
  <2>1. slotExpert[t] = x <=> expertSlot[x] = t
    BY DEF Tables
  <2>2. slotExpert'[t] = IF t = s THEN None ELSE slotExpert[t]
    BY <1>1 DEF Tables, TableTypes
  <2>3. expertSlot'[x] = IF expertSlot[x] = s THEN None ELSE expertSlot[x]
    BY <1>2
  <2> QED
    BY <2>1, <2>2, <2>3
<1>5. ASSUME NEW x \in Expert, staged'[x] # None
      PROVE  /\ ~(x = e /\ e \in Indexed) => staged'[x] = staged[x] /\ staged[x] # s
             /\ colState'[staged'[x]] = x /\ slotExpert'[staged'[x]] = None
  <2>1. CASE x = e /\ e \in Indexed
    <3>1. staged'[x] = s
      BY <2>1 DEF Stages
    <3> QED
      BY <1>1, <2>1, <3>1 DEF Stages, Tables, TableTypes
  <2>2. CASE ~(x = e /\ e \in Indexed)
    <3>1. staged'[x] = staged[x] /\ x # colState[s]
      BY <1>5, <2>2 DEF Stages
    <3>2. staged[x] \in Slot /\ colState[staged[x]] = x /\ slotExpert[staged[x]] = None
      BY <1>5, <3>1 DEF Tables, TableTypes
    <3>3. staged[x] # s
      BY <3>1, <3>2
    <3>4. colState'[staged[x]] = colState[staged[x]] /\ slotExpert'[staged[x]] = slotExpert[staged[x]]
      BY <1>1, <3>2, <3>3 DEF Stages, Tables, TableTypes
    <3> QED
      BY <2>2, <3>1, <3>2, <3>3, <3>4
  <2> QED
    BY <2>1, <2>2
<1> QED
  BY <1>2, <1>3, <1>4, <1>5 DEF Tables

(* A completed expert keeps the slot it was staged in.                     *)
LEMMA CompleteKeeps ==
  ASSUME config' = config, lru \in Seq(Slot), Tables, Injective(lru), ToSet(lru) = Slot,
         NEW e \in Expert, ~ Resident(e), staged[e] # None, Complete(e)
  PROVE  /\ Tables' /\ staged[e] \in Slot /\ colState[staged[e]] = e /\ slotExpert[staged[e]] = None
         /\ slotExpert' = [slotExpert EXCEPT ![staged[e]] = e]
         /\ expertSlot' = [expertSlot EXCEPT ![e] = staged[e]]
         /\ \A x \in Expert : staged'[x] # None => staged[x] = staged'[x] /\ staged[x] # staged[e]
         /\ lru' \in Seq(Slot) /\ Injective(lru') /\ ToSet(lru') = Slot
         /\ \A S : ComeLast(lru, S) => ComeLast(lru', S \cup {staged[e]})
<1> USE SlotFacts
<1> DEFINE s == staged[e]
<1>1. s \in Slot /\ colState[s] = e /\ slotExpert[s] = None /\ config.movement = "columns"
  BY DEF Tables, TableTypes
<1>2. lru' = MoveToEnd(lru, s)
  BY <1>1 DEF Complete
<1>3. /\ lru' \in Seq(Slot) /\ Injective(lru') /\ ToSet(lru') = Slot
      /\ \A S : ComeLast(lru, S) => ComeLast(lru', S \cup {s})
  BY <1>1, <1>2, MoveToEndKeeps
<1> HIDE DEF s
<1>4. slotExpert' = [slotExpert EXCEPT ![s] = e]
  BY DEF Complete, s
<1>5. expertSlot' = [expertSlot EXCEPT ![e] = s]
  BY DEF Complete, s
<1>6. colState' = [colState EXCEPT ![s] = None] /\ staged' = [staged EXCEPT ![e] = None]
  BY DEF Complete, s
<1>7. TableTypes'
  BY <1>1, <1>4, <1>5, <1>6 DEF Tables, TableTypes
<1>8. ASSUME NEW t \in Slot, NEW x \in Expert
      PROVE  slotExpert'[t] = x <=> expertSlot'[x] = t
  <2>1. slotExpert[t] = x <=> expertSlot[x] = t
    BY DEF Tables
  <2>2. slotExpert'[t] = IF t = s THEN e ELSE slotExpert[t]
    BY <1>4 DEF Tables, TableTypes
  <2>3. expertSlot'[x] = IF x = e THEN s ELSE expertSlot[x]
    BY <1>5 DEF Tables, TableTypes
  <2>4. expertSlot[e] = None /\ slotExpert[s] = None
    BY <1>1 DEF Resident
  <2> QED
    BY <2>1, <2>2, <2>3, <2>4
<1>9. ASSUME NEW x \in Expert, staged'[x] # None
      PROVE  /\ staged'[x] = staged[x] /\ staged[x] # s
             /\ colState'[staged'[x]] = x /\ slotExpert'[staged'[x]] = None
  <2>1. x # e /\ staged'[x] = staged[x]
    BY <1>6, <1>9 DEF Tables, TableTypes
  <2>2. staged[x] \in Slot /\ colState[staged[x]] = x /\ slotExpert[staged[x]] = None
    BY <1>9, <2>1 DEF Tables, TableTypes
  <2>3. staged[x] # s
    BY <1>1, <2>1, <2>2
  <2> QED
    BY <1>4, <1>6, <2>1, <2>2, <2>3 DEF Tables, TableTypes
<1> QED
  BY <1>1, <1>3, <1>4, <1>5, <1>7, <1>8, <1>9 DEF Tables, s

(* As long as a needed expert is missing, the oldest slot has none of the  *)
(* needed ones that are not.                                               *)
LEMMA OldestIsFree ==
  ASSUME BookInv, host = "missing", todo # {}, ToSet(lru) = Slot
  PROVE  \A x \in needed \ todo : expertSlot[x] # Head(lru)
<1> SUFFICES ASSUME NEW x \in needed \ todo, expertSlot[x] = Head(lru)
             PROVE  FALSE
  OBVIOUS
<1>1. /\ lru \in Seq(Slot) /\ needed \subseteq Expert /\ todo \subseteq needed
      /\ Cardinality(needed) <= Capacity /\ ComeLast(lru, KeptSlots)
      /\ \A e \in needed \ todo : Resident(e)
  BY DEF BookInv, Progress, Fits
<1>2. Kept = needed \ todo
  BY <1>1 DEF Kept
<1>3. lru # << >> /\ Head(lru) \in KeptSlots
  BY <1>1, <1>2, FullList DEF KeptSlots
<1>4. Slot \subseteq KeptSlots
  BY <1>1, <1>3, LastFromFirst
<1>5. \A e \in Kept : expertSlot[e] \in Slot
  BY <1>1, <1>2 DEF BookInv, Tables, TableTypes, Resident
<1> DEFINE f == [e \in Kept |-> expertSlot[e]]
<1>6. f \in Surjection(Kept, Slot)
  BY <1>4, <1>5 DEF KeptSlots, Surjection
<1>7. /\ IsFiniteSet(needed) /\ IsFiniteSet(Kept) /\ Kept \subseteq needed /\ Kept # needed
  BY <1>1, <1>2, SlotAssumption, FS_Subset
<1>8. Cardinality(Slot) <= Cardinality(Kept)
  BY <1>6, <1>7, FS_Surjection
<1>9. Cardinality(Kept) < Cardinality(needed)
  <2>1. /\ Cardinality(Kept) <= Cardinality(needed)
        /\ Cardinality(Kept) = Cardinality(needed) => Kept = needed
    BY <1>7, FS_Subset
  <2>2. Cardinality(Kept) \in Nat /\ Cardinality(needed) \in Nat
    BY <1>7, FS_CardinalityType
  <2> QED
    BY <1>7, <2>1, <2>2
<1> QED
  <2>1. Cardinality(Kept) \in Nat /\ Cardinality(needed) \in Nat
    BY <1>7, FS_CardinalityType
  <2> QED
    BY <1>1, <1>8, <1>9, <2>1, SlotFacts, SlotAssumption

(* What no step on the tables and the list changes.                        *)
SameBooks == UNCHANGED <<config, slotExpert, expertSlot, lru, colState, staged>>

(* A step that leaves the tables alone keeps what is said of them alone.   *)
LEMMA BooksStay ==
  ASSUME BookInv, SameBooks, host' # "failed"
  PROVE  /\ config' \in LegalFlags /\ lru' \in Seq(Slot) /\ Tables' /\ Queued'
         /\ \A e \in Expert : Resident(e)' <=> Resident(e)
<1>1. Tables'
  BY DEF SameBooks, BookInv, Tables, TableTypes
<1>2. Queued'
  BY DEF SameBooks, BookInv, Queued, RanDry
<1> QED
  BY <1>1, <1>2 DEF SameBooks, BookInv, Resident

(* The tables start empty, with every slot in the list.                    *)
LEMMA SlotStarts == SlotInit => BookInv
<1> SUFFICES ASSUME SlotInit PROVE BookInv
  OBVIOUS
<1> USE SlotFacts
<1>1. lru \in Seq(Slot) /\ DOMAIN lru = 1 .. Capacity
  <2>1. lru \in [1 .. Capacity -> Slot]
    BY SlotAssumption DEF SlotInit, Slot
  <2> QED
    BY <2>1, SlotAssumption, SeqDef
<1>2. Injective(lru)
  BY <1>1, SlotAssumption DEF Injective, SlotInit
<1>3. ToSet(lru) = Slot
  <2>1. \A s \in Slot : s + 1 \in 1 .. Capacity /\ lru[s + 1] = s
    BY SlotAssumption DEF SlotInit, Slot
  <2>2. \A i \in 1 .. Capacity : lru[i] \in Slot
    BY SlotAssumption DEF SlotInit, Slot
  <2> QED
    BY <1>1, <2>1, <2>2 DEF ToSet
<1>4. Tables
  BY DEF SlotInit, Tables, TableTypes
<1>5. Queued /\ Progress
  BY <1>2, <1>3 DEF SlotInit, Queued, Progress
<1> QED
  BY <1>1, <1>4, <1>5 DEF SlotInit, BookInv, Hosts

(* The entrance of the layer.                                              *)
LEMMA EntranceKeepsBooks ==
  ASSUME BookInv,
         \/ Probe \/ NoProbe \/ PrefetchFails \/ PrefetchEnds
         \/ \E e \in Expert : PrefetchOne(e) \/ StageOne(e)
  PROVE  BookInv'
<1> USE SlotFacts
<1>1. CASE Probe
  <2>1. PICK pred \in SUBSET Expert, admitted \in BOOLEAN :
          /\ Cardinality(pred) = Predicted
          /\ todo' = {e \in pred : admitted /\ ~ Resident(e) /\ e \notin prefetched}
    BY <1>1 DEF Probe
  <2>2. Cardinality(todo') <= PrefetchTopK
    <3>1. IsFiniteSet(pred) /\ todo' \subseteq pred
      BY <2>1, SlotAssumption, FS_Subset
    <3>2. Cardinality(todo') <= Cardinality(pred) /\ IsFiniteSet(todo')
      BY <3>1, FS_Subset
    <3>3. Cardinality(todo') \in Nat /\ Cardinality(Expert) \in Nat
      BY <3>2, SlotAssumption, FS_CardinalityType
    <3>4. Predicted <= PrefetchTopK /\ Predicted \in Nat
      BY <3>3, SlotAssumption DEF Predicted
    <3> QED
      BY <2>1, <3>2, <3>3, <3>4, SlotAssumption
  <2>3. SameBooks /\ host' = "prefetch" /\ config.zssr /\ needed' = needed
    BY <1>1 DEF Probe, SameBooks, books
  <2>4. \A e \in todo' : e \in Expert /\ ~ Resident(e)
    BY <2>1
  <2>5. Progress'
    BY <2>2, <2>3, <2>4, BooksStay DEF Progress, SameBooks
  <2> QED
    BY <2>3, <2>4, <2>5, BooksStay DEF BookInv, Hosts
<1>2. CASE NoProbe
  <2>1. SameBooks /\ host' = "gate" /\ UNCHANGED <<needed, todo>>
    BY <1>2 DEF NoProbe, SameBooks, books
  <2> QED
    BY <2>1, BooksStay DEF BookInv, Hosts, Progress
<1>3. CASE PrefetchFails
  <2>1. /\ lru' = << >> /\ todo' = {} /\ host' = "gate"
        /\ UNCHANGED <<config, slotExpert, expertSlot, colState, staged, needed>>
        /\ host = "prefetch" /\ RunsDry
    BY <1>3 DEF PrefetchFails
  <2>2. Tables'
    BY <2>1 DEF BookInv, Tables, TableTypes
  <2>3. RanDry'
    <3>1. CASE RanDry
      BY <2>1, <3>1 DEF RanDry
    <3>2. CASE Injective(lru) /\ ToSet(lru) = Slot
      <4>1. config.movement = "ans" /\ config.zssr /\ Cardinality(todo) <= PrefetchTopK
            /\ Cardinality(todo) > Len(lru)
        BY <2>1 DEF BookInv, Progress, RunsDry
      <4>2. Len(lru) = Capacity
        BY <3>2, FullLength DEF BookInv
      <4>3. Cardinality(todo) \in Nat
        BY SlotAssumption, FS_Subset, FS_CardinalityType DEF BookInv
      <4>4. PrefetchTopK > Capacity
        BY <4>1, <4>2, <4>3, SlotAssumption
      <4> QED
        BY <2>1, <4>1, <4>4 DEF RanDry
    <3> QED
      BY <3>1, <3>2 DEF BookInv, Queued
  <2>4. lru' \in Seq(Slot)
    BY <2>1
  <2>5. Queued' /\ Progress'
    BY <2>1, <2>3 DEF Queued, Progress
  <2> QED
    BY <2>1, <2>2, <2>4, <2>5 DEF BookInv, Hosts
<1>4. CASE PrefetchEnds
  <2>1. SameBooks /\ host' = "gate" /\ todo' = {} /\ needed' = needed
    BY <1>4 DEF PrefetchEnds, SameBooks, books
  <2> QED
    BY <2>1, BooksStay DEF BookInv, Hosts, Progress
<1>5. ASSUME NEW e \in Expert, PrefetchOne(e) PROVE BookInv'
  <2>1. /\ host = "prefetch" /\ host' = "prefetch" /\ e \in todo /\ todo' = todo \ {e}
        /\ ~ RunsDry /\ TakeOldest(e) /\ config' = config /\ needed' = needed
        /\ config.movement # "columns"
    BY <1>5 DEF PrefetchOne
  <2>2. Injective(lru) /\ ToSet(lru) = Slot
    <3>1. CASE RanDry
      <4>1. Len(lru) = 0 /\ config.movement = "ans"
        BY <3>1, EmptySeq DEF RanDry
      <4>2. Cardinality(todo) \in Nat /\ Cardinality(todo) # 0
        <5>1. IsFiniteSet(todo)
          BY SlotAssumption, FS_Subset DEF BookInv
        <5> QED
          BY <2>1, <5>1, FS_CardinalityType, FS_EmptySet
      <4> QED
        BY <2>1, <4>1, <4>2 DEF RunsDry
    <3> QED
      BY <3>1 DEF BookInv, Queued
  <2>3. ~ Resident(e) /\ \A x \in todo : ~ Resident(x)
    BY <2>1 DEF BookInv, Progress
  <2>4. /\ Tables' /\ lru' \in Seq(Slot) /\ Injective(lru') /\ ToSet(lru') = Slot
        /\ expertSlot' = [x \in Expert |-> IF x = e THEN Head(lru)
                             ELSE IF expertSlot[x] = Head(lru) THEN None ELSE expertSlot[x]]
    BY <2>1, <2>2, <2>3, TakeKeeps DEF BookInv
  <2>5. \A x \in todo' : ~ Resident(x)'
    BY <2>1, <2>3, <2>4 DEF BookInv, Resident
  <2>6. Cardinality(todo') <= PrefetchTopK
    <3>1. IsFiniteSet(todo)
      BY SlotAssumption, FS_Subset DEF BookInv
    <3>2. Cardinality(todo) \in Nat /\ Cardinality(todo') = Cardinality(todo) - 1
      BY <2>1, <3>1, FS_CardinalityType, FS_RemoveElement
    <3> QED
      BY <2>1, <3>2, SlotAssumption DEF BookInv, Progress
  <2>7. Queued'
    BY <2>1, <2>4 DEF Queued
  <2>8. Progress'
    BY <2>1, <2>5, <2>6 DEF BookInv, Progress
  <2> QED
    BY <2>1, <2>4, <2>7, <2>8 DEF BookInv
<1>6. ASSUME NEW e \in Expert, StageOne(e) PROVE BookInv'
  <2> DEFINE s == Head(lru)
  <2>1. /\ host = "prefetch" /\ host' = "prefetch" /\ e \in todo /\ todo' = todo \ {e}
        /\ config' = config /\ needed' = needed /\ config.movement = "columns"
        /\ lru' = Append(Tail(lru), s)
    BY <1>6 DEF StageOne
  <2>2. Injective(lru) /\ ToSet(lru) = Slot /\ lru \in Seq(Slot)
    BY <2>1 DEF BookInv, Queued, RanDry
  <2>3. lru # << >> /\ s \in Slot
    BY <2>2, FullList
  <2>4. lru' \in Seq(Slot) /\ Injective(lru') /\ ToSet(lru') = Slot
    BY <2>1, <2>2, <2>3, RotateKeeps
  <2>5. /\ Tables'
        /\ \A x \in Expert : ~ Resident(x) => ~ Resident(x)'
    <3>1. CASE e \in Calibrated
      <4>1. Stages(e, s)
        BY <1>6, <2>3, <3>1, StageIs DEF BookInv
      <4>2. /\ Tables'
            /\ expertSlot' = [x \in Expert |-> IF expertSlot[x] = s THEN None ELSE expertSlot[x]]
        BY <2>1, <2>3, <4>1, StageKeeps DEF BookInv
      <4> QED
        BY <4>2 DEF Resident
    <3>2. CASE e \notin Calibrated
      <4>1. UNCHANGED <<slotExpert, expertSlot, colState, staged>>
        BY <1>6, <2>3, <3>2, StageIs DEF BookInv
      <4> QED
        BY <2>1, <4>1 DEF BookInv, Tables, TableTypes, Resident
    <3> QED
      BY <3>1, <3>2
  <2> HIDE DEF s
  <2>6. Cardinality(todo') <= PrefetchTopK
    <3>1. IsFiniteSet(todo)
      BY SlotAssumption, FS_Subset DEF BookInv
    <3>2. Cardinality(todo) \in Nat /\ Cardinality(todo') = Cardinality(todo) - 1
      BY <2>1, <3>1, FS_CardinalityType, FS_RemoveElement
    <3> QED
      BY <2>1, <3>2, SlotAssumption DEF BookInv, Progress
  <2>7. Queued' /\ Progress'
    BY <2>1, <2>4, <2>5, <2>6 DEF BookInv, Queued, Progress
  <2> QED
    BY <2>1, <2>4, <2>5, <2>7 DEF BookInv
<1> QED
  BY <1>1, <1>2, <1>3, <1>4, <1>5, <1>6

(* The forward pass up to the products.                                    *)
LEMMA RoutingKeepsBooks ==
  ASSUME BookInv, Route \/ TouchHit \/ HitsTouched
  PROVE  BookInv'
<1> USE SlotFacts
<1>1. CASE Route
  <2>1. PICK n \in SUBSET Expert \ {{}}, d \in BOOLEAN : RouteTo(n, d)
    BY <1>1 DEF Route
  <2> DEFINE short == ~ d /\ Cardinality(n) <= Capacity
  <2>2. /\ needed' = n /\ todo' = {e \in n : short /\ Resident(e)}
        /\ host' = IF d THEN "done" ELSE IF short THEN "touch" ELSE "count"
    BY <2>1 DEF RouteTo
  <2>3. SameBooks /\ host' # "failed"
    BY <1>1, <2>2 DEF Route, SameBooks, books
  <2>4. \A e \in Expert : Resident(e)' <=> Resident(e)
    BY <2>3, BooksStay
  <2>5. CASE host' = "touch"
    <3>1. short /\ todo' = {e \in n : Resident(e)}
      BY <2>2, <2>5
    <3>2. KeptSlots' = {}
      BY <2>2, <2>4, <3>1 DEF KeptSlots, Kept
    <3>3. Fits' /\ todo' \subseteq needed' /\ ComeLast(lru', KeptSlots')
      BY <2>2, <3>1, <3>2 DEF Fits, ComeLast
    <3>4. \A e \in todo' : Resident(e)'
      BY <2>4, <3>1
    <3>5. Progress'
      BY <2>5, <3>3, <3>4 DEF Progress
    <3> QED
      BY <2>2, <2>3, <3>5, BooksStay DEF BookInv, Hosts
  <2>6. CASE host' # "touch"
    <3>1. host' = "done" \/ (host' = "count" /\ ~ Fits')
      BY <2>2, <2>6 DEF Fits
    <3>2. Progress'
      BY <3>1 DEF Progress
    <3> QED
      BY <2>2, <2>3, <3>1, <3>2, BooksStay DEF BookInv, Hosts
  <2> QED
    BY <2>5, <2>6
<1>2. CASE TouchHit
  <2> DEFINE e == First(todo)
             s == expertSlot[e]
  <2>1. host = "touch" /\ todo # {} /\ e \in todo /\ e \in Expert
    BY <1>2, FirstIn DEF TouchHit, BookInv
  <2>2. /\ UNCHANGED <<config, slotExpert, expertSlot, colState, staged, needed>>
        /\ IF s \in ToSet(lru)
           THEN lru' = MoveToEnd(lru, s) /\ todo' = todo \ {e} /\ UNCHANGED host
           ELSE host' = "failed" /\ UNCHANGED <<lru, todo>>
    BY <1>2 DEF TouchHit
  <2>3. s \in Slot /\ Resident(e) /\ todo \subseteq needed
    BY <2>1 DEF BookInv, Progress, Resident, Tables, TableTypes
  <2>4. Tables'
    BY <2>2 DEF BookInv, Tables, TableTypes
  <2> HIDE DEF e, s
  <2>5. CASE s \in ToSet(lru)
    <3>1. lru' = MoveToEnd(lru, s) /\ todo' = todo \ {e} /\ host' = host
      BY <2>2, <2>5
    <3>2. Injective(lru) /\ ToSet(lru) = Slot /\ lru \in Seq(Slot)
      <4>1. ~ RanDry
        BY <2>5 DEF RanDry, ToSet
      <4> QED
        BY <4>1 DEF BookInv, Queued
    <3>3. /\ lru' \in Seq(Slot) /\ Injective(lru') /\ ToSet(lru') = Slot
          /\ \A S : ComeLast(lru, S) => ComeLast(lru', S \cup {s})
      BY <2>5, <3>1, <3>2, MoveToEndKeeps
    <3>4. KeptSlots' = KeptSlots \cup {s}
      <4>1. Kept' = Kept \cup {e}
        BY <2>1, <2>2, <2>3, <3>1 DEF Kept, Resident
      <4> QED
        BY <2>2, <4>1 DEF KeptSlots, s
    <3>5. ComeLast(lru', KeptSlots')
      BY <2>1, <3>3, <3>4 DEF BookInv, Progress
    <3>6. \A x \in todo' : Resident(x)'
      BY <2>1, <2>2, <3>1 DEF BookInv, Progress, Resident
    <3>7. Progress'
      BY <2>1, <2>2, <3>1, <3>5, <3>6 DEF BookInv, Progress, Fits
    <3>8. Queued'
      BY <2>1, <3>1, <3>3 DEF Queued
    <3> QED
      BY <2>2, <2>4, <3>1, <3>3, <3>7, <3>8 DEF BookInv
  <2>6. CASE s \notin ToSet(lru)
    <3>1. host' = "failed" /\ UNCHANGED <<lru, todo>>
      BY <2>2, <2>6
    <3>2. RanDry
      BY <2>3, <2>6 DEF BookInv, Queued
    <3>3. Queued' /\ Progress'
      BY <2>2, <3>1, <3>2 DEF Queued, Progress, RanDry
    <3> QED
      BY <2>2, <2>4, <3>1, <3>3 DEF BookInv, Hosts
  <2> QED
    BY <2>5, <2>6
<1>3. CASE HitsTouched
  <2>1. /\ host = "touch" /\ todo = {} /\ host' = "missing"
        /\ todo' = {x \in needed : ~ Resident(x)} /\ needed' = needed /\ SameBooks
    BY <1>3 DEF HitsTouched, SameBooks, books
  <2>2. \A x \in Expert : Resident(x)' <=> Resident(x)
    BY <2>1, BooksStay
  <2>3. Kept' = Kept
    BY <2>1, <2>2 DEF Kept, BookInv
  <2>4. ComeLast(lru', KeptSlots')
    BY <2>1, <2>3 DEF BookInv, Progress, KeptSlots, SameBooks
  <2>5. /\ \A x \in todo' : ~ Resident(x)'
        /\ \A x \in needed' \ todo' : Resident(x)'
    BY <2>1, <2>2 DEF BookInv
  <2>6. Progress'
    BY <2>1, <2>4, <2>5 DEF BookInv, Progress, Fits
  <2> QED
    BY <2>1, <2>6, BooksStay DEF BookInv, Hosts
<1> QED
  BY <1>1, <1>2, <1>3

(* What a slot given to a missing expert changes.                          *)
LEMMA LoadedKeepsProgress ==
  ASSUME BookInv, host = "missing", NEW e \in todo, NEW s \in Slot,
         ComeLast(lru', KeptSlots \cup {s}),
         \A x \in needed \ todo : expertSlot[x] # s,
         expertSlot' = [x \in Expert |-> IF x = e THEN s
                                         ELSE IF expertSlot[x] = s THEN None ELSE expertSlot[x]],
         todo' = todo \ {e}, needed' = needed,
         host' = IF todo = {e} THEN "loaded" ELSE host
  PROVE  Progress'
<1> USE SlotFacts
<1>1. /\ Fits /\ todo \subseteq needed /\ needed \subseteq Expert
      /\ \A x \in todo : ~ Resident(x)
      /\ \A x \in needed \ todo : Resident(x)
  BY DEF BookInv, Progress
<1>2. \A x \in todo' : ~ Resident(x)'
  BY <1>1 DEF Resident
<1>3. \A x \in needed' \ todo' : Resident(x)'
  BY <1>1 DEF Resident
<1>4. KeptSlots' = KeptSlots \cup {s}
  <2>1. Kept = needed \ todo /\ Kept' = Kept \cup {e}
    BY <1>1, <1>3 DEF Kept
  <2>2. \A x \in Kept : expertSlot'[x] = expertSlot[x]
    BY <1>1, <2>1
  <2>3. expertSlot'[e] = s
    BY <1>1
  <2> QED
    BY <2>1, <2>2, <2>3 DEF KeptSlots
<1>5. CASE todo = {e}
  <2>1. todo' = {} /\ host' = "loaded"
    BY <1>5
  <2> QED
    BY <1>1, <1>3, <2>1 DEF Progress, Fits
<1>6. CASE todo # {e}
  <2>1. host' = "missing"
    BY <1>6
  <2> QED
    BY <1>1, <1>2, <1>3, <1>4, <2>1 DEF Progress, Fits
<1> QED
  BY <1>5, <1>6

(* Loading a missing expert: a staged one is completed where it is, any    *)
(* other takes the oldest slot, which is free of the kept ones because     *)
(* there are fewer of them than slots.                                     *)
LEMMA LoadKeepsBooks ==
  ASSUME BookInv, LoadMissing
  PROVE  BookInv'
<1> USE SlotFacts
<1> DEFINE e == First(todo)
<1>1. /\ host = "missing" /\ todo # {} /\ e \in todo /\ e \in Expert
      /\ config' = config /\ needed' = needed
  BY FirstIn DEF LoadMissing, BookInv
<1>2. ~ Resident(e)
  BY <1>1 DEF BookInv, Progress
<1>3. CASE ~ IsStaged(e) /\ Unavailable
  <2>1. host' = "failed" /\ UNCHANGED <<books, todo>>
    BY <1>3 DEF LoadMissing
  <2>2. RanDry
    BY <1>3, FullList DEF BookInv, Queued, Unavailable
  <2>3. Tables'
    BY <1>1, <2>1 DEF BookInv, Tables, TableTypes, books
  <2>4. Queued' /\ Progress'
    BY <1>1, <2>1, <2>2 DEF Queued, Progress, RanDry, books
  <2> QED
    BY <1>1, <2>1, <2>3, <2>4 DEF BookInv, Hosts, books
<1>4. CASE ~ (~ IsStaged(e) /\ Unavailable)
  <2>1. /\ IF IsStaged(e) THEN Complete(e) ELSE TakeOldest(e)
        /\ todo' = todo \ {e}
        /\ host' = IF todo = {e} THEN "loaded" ELSE host
    BY <1>4 DEF LoadMissing
  <2>2. Injective(lru) /\ ToSet(lru) = Slot /\ lru \in Seq(Slot)
    <3>1. ~ RanDry
      BY <1>4 DEF RanDry, IsStaged, Unavailable
    <3> QED
      BY <3>1 DEF BookInv, Queued
  <2>3. \A x \in needed \ todo : expertSlot[x] # Head(lru)
    BY <1>1, <2>2, OldestIsFree
  <2>4. ComeLast(lru, KeptSlots)
    BY <1>1 DEF BookInv, Progress
  <2> HIDE DEF e
  <2>5. /\ Tables' /\ lru' \in Seq(Slot) /\ Injective(lru') /\ ToSet(lru') = Slot
        /\ Progress'
    <3>1. CASE IsStaged(e)
      <4>1. Complete(e) /\ staged[e] # None
        BY <2>1, <3>1 DEF IsStaged
      <4>2. /\ Tables' /\ staged[e] \in Slot /\ slotExpert[staged[e]] = None
            /\ expertSlot' = [expertSlot EXCEPT ![e] = staged[e]]
            /\ lru' \in Seq(Slot) /\ Injective(lru') /\ ToSet(lru') = Slot
            /\ \A S : ComeLast(lru, S) => ComeLast(lru', S \cup {staged[e]})
        BY <1>1, <1>2, <2>2, <4>1, CompleteKeeps DEF BookInv
      <4>3. \A x \in Expert : expertSlot[x] # staged[e]
        BY <4>2 DEF BookInv, Tables
      <4>4. expertSlot' = [x \in Expert |-> IF x = e THEN staged[e]
                             ELSE IF expertSlot[x] = staged[e] THEN None ELSE expertSlot[x]]
        <5>1. expertSlot \in [Expert -> Slot \cup {None}]
          BY DEF BookInv, Tables, TableTypes
        <5> QED
          BY <1>1, <4>2, <4>3, <5>1
      <4>5. Progress'
        BY <1>1, <2>1, <2>4, <4>2, <4>3, <4>4, LoadedKeepsProgress DEF BookInv
      <4> QED
        BY <4>2, <4>5
    <3>2. CASE ~ IsStaged(e)
      <4>1. /\ Tables' /\ Head(lru) \in Slot
            /\ expertSlot' = [x \in Expert |-> IF x = e THEN Head(lru)
                             ELSE IF expertSlot[x] = Head(lru) THEN None ELSE expertSlot[x]]
            /\ lru' \in Seq(Slot) /\ Injective(lru') /\ ToSet(lru') = Slot
            /\ \A S : ComeLast(lru, S) => ComeLast(lru', S \cup {Head(lru)})
        BY <1>1, <1>2, <2>1, <2>2, <3>2, TakeKeeps DEF BookInv
      <4>2. Progress'
        BY <1>1, <2>1, <2>3, <2>4, <4>1, LoadedKeepsProgress
      <4> QED
        BY <4>1, <4>2
    <3> QED
      BY <3>1, <3>2
  <2>6. Queued'
    BY <1>1, <2>1, <2>5 DEF Queued
  <2> QED
    BY <1>1, <2>1, <2>5, <2>6 DEF BookInv, Hosts
<1> QED
  BY <1>3, <1>4

(* Counting the tokens, and the loop of the products.                      *)
LEMMA ProductsKeepBooks ==
  ASSUME BookInv,
         \/ MissingLoaded \/ NothingMissing \/ CountTokens \/ ComputeResident \/ LoadOnTheSpot
         \/ ForwardReturns \/ DmaStep \/ CurrentStep \/ UNCHANGED slotVars
  PROVE  BookInv'
<1> USE SlotFacts
<1>1. CASE MissingLoaded \/ NothingMissing
  <2>1. /\ SameBooks /\ UNCHANGED <<needed, todo>> /\ host' = "count"
        /\ host = "loaded" \/ (host = "missing" /\ todo = {})
    BY <1>1 DEF MissingLoaded, NothingMissing, SameBooks, books
  <2>2. Fits /\ \A x \in needed : Resident(x)
    BY <2>1 DEF BookInv, Progress
  <2>3. \A x \in needed' : Resident(x)'
    BY <2>1, <2>2, BooksStay DEF BookInv
  <2>4. Progress'
    BY <2>1, <2>3 DEF Progress
  <2> QED
    BY <2>1, <2>4, BooksStay DEF BookInv, Hosts
<1>2. CASE CountTokens
  <2>1. /\ SameBooks /\ needed' = needed /\ todo' = needed /\ host' = "compute" /\ host = "count"
    BY <1>2 DEF CountTokens, SameBooks, books
  <2>2. Fits' => \A x \in needed' : Resident(x)'
    BY <2>1, BooksStay DEF BookInv, Progress, Fits
  <2>3. Progress'
    BY <2>1, <2>2 DEF Progress
  <2> QED
    BY <2>1, <2>3, BooksStay DEF BookInv, Hosts
<1>3. CASE ComputeResident
  <2> DEFINE e == First(todo)
             s == expertSlot[e]
  <2>1. /\ host = "compute" /\ e \in todo /\ e \in Expert /\ Resident(e) /\ todo' = todo \ {e}
        /\ UNCHANGED <<config, slotExpert, expertSlot, colState, staged, needed>>
        /\ IF ~ Fits /\ s \notin ToSet(lru)
           THEN host' = "failed" /\ lru' = lru
           ELSE lru' = (IF Fits THEN lru ELSE MoveToEnd(lru, s)) /\ host' = host
    BY <1>3, FirstIn DEF ComputeResident, BookInv
  <2>2. s \in Slot
    BY <2>1 DEF BookInv, Resident, Tables, TableTypes
  <2>3. Tables'
    BY <2>1 DEF BookInv, Tables, TableTypes
  <2> HIDE DEF e, s
  <2>4. Progress'
    <3>1. host' = "failed" \/ host' = "compute"
      BY <2>1
    <3>2. \A x \in Expert : Resident(x)' <=> Resident(x)
      BY <2>1 DEF Resident
    <3> QED
      BY <2>1, <3>1, <3>2 DEF BookInv, Progress, Fits
  <2>5. lru' \in Seq(Slot) /\ Queued'
    <3>1. CASE RanDry
      <4>1. lru' = lru
        BY <2>1, <3>1 DEF RanDry, BookInv, ToSet
      <4> QED
        BY <2>1, <3>1, <4>1 DEF Queued, RanDry, BookInv
    <3>2. CASE Injective(lru) /\ ToSet(lru) = Slot
      <4>1. host' = host /\ lru' = IF Fits THEN lru ELSE MoveToEnd(lru, s)
        BY <2>1, <2>2, <3>2
      <4>2. lru' \in Seq(Slot) /\ Injective(lru') /\ ToSet(lru') = Slot
        BY <2>2, <3>2, <4>1, MoveToEndKeeps DEF BookInv
      <4> QED
        BY <2>1, <4>1, <4>2 DEF Queued
    <3> QED
      BY <3>1, <3>2 DEF BookInv, Queued
  <2>6. host' \in Hosts
    BY <2>1 DEF BookInv, Hosts
  <2> QED
    BY <2>1, <2>3, <2>4, <2>5, <2>6 DEF BookInv
<1>4. CASE LoadOnTheSpot
  <2> DEFINE e == First(todo)
  <2>1. /\ host = "compute" /\ e \in todo /\ e \in Expert /\ ~ Resident(e)
        /\ UNCHANGED <<config, needed, todo>>
        /\ IF Unavailable THEN host' = "failed" /\ UNCHANGED books
           ELSE TakeOldest(e) /\ host' = host
    BY <1>4, FirstIn DEF LoadOnTheSpot, BookInv
  <2> HIDE DEF e
  <2>2. ~ Fits
    BY <2>1 DEF BookInv, Progress
  <2>3. Progress'
    <3>1. host' = "failed" \/ host' = "compute"
      BY <2>1
    <3> QED
      BY <2>1, <2>2, <3>1 DEF BookInv, Progress, Fits
  <2>4. CASE Unavailable
    <3>1. RanDry
      BY <2>4, FullList DEF BookInv, Queued, Unavailable
    <3>2. Tables'
      BY <2>1, <2>4 DEF BookInv, Tables, TableTypes, books
    <3>3. Queued'
      BY <2>1, <2>4, <3>1 DEF Queued, RanDry, books
    <3> QED
      BY <2>1, <2>3, <2>4, <3>2, <3>3 DEF BookInv, Hosts, books
  <2>5. CASE ~ Unavailable
    <3>1. Injective(lru) /\ ToSet(lru) = Slot /\ lru \in Seq(Slot)
      BY <2>5 DEF BookInv, Queued, RanDry, Unavailable
    <3>2. Tables' /\ lru' \in Seq(Slot) /\ Injective(lru') /\ ToSet(lru') = Slot
      BY <2>1, <2>5, <3>1, TakeKeeps DEF BookInv
    <3>3. Queued'
      BY <2>1, <2>5, <3>2 DEF Queued
    <3> QED
      BY <2>1, <2>3, <2>5, <3>2, <3>3 DEF BookInv, Hosts
  <2> QED
    BY <2>4, <2>5
<1>5. CASE ForwardReturns
  <2>1. SameBooks /\ UNCHANGED <<needed, todo>> /\ host' = "entrance"
    BY <1>5 DEF ForwardReturns, SameBooks, books
  <2> QED
    BY <2>1, BooksStay DEF BookInv, Hosts, Progress
<1>6. CASE DmaStep \/ CurrentStep \/ UNCHANGED slotVars
  <2>1. SameBooks /\ UNCHANGED <<needed, todo, host>>
    BY <1>6 DEF DmaStep, CurrentStep, slotVars, SameBooks, books
  <2>2. Tables' /\ Queued' /\ lru' \in Seq(Slot)
    BY <2>1 DEF SameBooks, BookInv, Tables, TableTypes, Queued, RanDry
  <2>3. Progress'
    <3>1. \A x \in Expert : Resident(x)' <=> Resident(x)
      BY <2>1 DEF SameBooks, Resident
    <3>2. KeptSlots' = KeptSlots
      BY <2>1, <3>1 DEF SameBooks, KeptSlots, Kept, BookInv, Resident
    <3> QED
      BY <2>1, <3>1, <3>2 DEF SameBooks, BookInv, Progress, Fits
  <2> QED
    BY <2>1, <2>2, <2>3 DEF SameBooks, BookInv
<1> QED
  BY <1>1, <1>2, <1>3, <1>4, <1>5, <1>6

(* Every step keeps the tables.                                            *)
LEMMA BooksKept ==
  ASSUME BookInv, [SlotNext]_slotVars
  PROVE  BookInv'
BY EntranceKeepsBooks, RoutingKeepsBooks, LoadKeepsBooks, ProductsKeepBooks DEF SlotNext

(* The tables agree when the invariant holds.                              *)
LEMMA BookInvSuffices == BookInv => BooksAgree
BY DEF BookInv, BooksAgree, Tables, Queued

(***************************************************************************)
(* Copies on their way                                                     *)
(***************************************************************************)

(* A copy that goes elsewhere changes nothing of what arrives.             *)
LEMMA BringsOther ==
  ASSUME NEW q \in Seq(Copies), NEW c \in Copies, NEW h, NEW s, NEW p, NEW e,
         ~ Reaches(c, s, p), Brings(h, q, s, p, e)
  PROVE  Brings(h, Append(q, c), s, p, e)
<1> DEFINE r == Append(q, c)
<1>1. /\ Len(q) \in Nat /\ DOMAIN q = 1 .. Len(q) /\ DOMAIN r = 1 .. Len(q) + 1
      /\ \A i \in 1 .. Len(q) : r[i] = q[i]
      /\ r[Len(q) + 1] = c
  BY LenProperties, AppendProperties
<1> HIDE DEF r
<1>2. \A j \in DOMAIN r : j \in DOMAIN q \/ j = Len(q) + 1
  BY <1>1
<1>3. CASE h[s][p] = e /\ \A j \in DOMAIN q : ~ Reaches(q[j], s, p)
  BY <1>1, <1>2, <1>3 DEF Brings, r
<1>4. CASE \E i \in DOMAIN q : /\ Reaches(q[i], s, p) /\ q[i].from = e
                               /\ \A j \in DOMAIN q : i < j => ~ Reaches(q[j], s, p)
  <2>1. PICK i \in DOMAIN q : /\ Reaches(q[i], s, p) /\ q[i].from = e
                              /\ \A j \in DOMAIN q : i < j => ~ Reaches(q[j], s, p)
    BY <1>4
  <2>2. i \in DOMAIN r /\ r[i] = q[i]
    BY <1>1
  <2>3. \A j \in DOMAIN r : i < j => ~ Reaches(r[j], s, p)
    BY <1>1, <1>2, <2>1
  <2> QED
    BY <2>1, <2>2, <2>3 DEF Brings, r
<1> QED
  BY <1>3, <1>4 DEF Brings

(* A copy just queued is the last: what it brings arrives.                 *)
LEMMA BringsThis ==
  ASSUME NEW q \in Seq(Copies), NEW c \in Copies, NEW h, NEW s, NEW p, Reaches(c, s, p)
  PROVE  Brings(h, Append(q, c), s, p, c.from)
<1> DEFINE r == Append(q, c)
<1>1. /\ Len(q) \in Nat /\ DOMAIN r = 1 .. Len(q) + 1
      /\ r[Len(q) + 1] = c
  BY LenProperties, AppendProperties
<1> HIDE DEF r
<1>2. /\ Len(q) + 1 \in DOMAIN r
      /\ \A j \in DOMAIN r : ~ (Len(q) + 1 < j)
  BY <1>1
<1> QED
  BY <1>1, <1>2 DEF Brings, r

(* What executing the first copy makes of the slots.                       *)
Executed(h, c) == [h EXCEPT ![c.slot] = [p \in Part |-> IF p \in c.parts THEN c.from ELSE @[p]]]

(* Executing the first copy changes nothing of what arrives.               *)
LEMMA BringsExecuted ==
  ASSUME NEW q \in Seq(Copies), q # << >>, NEW h \in Weights, NEW s \in Slot, NEW p \in Part,
         NEW e, Brings(h, q, s, p, e)
  PROVE  /\ Executed(h, Head(q)) \in Weights
         /\ Brings(Executed(h, Head(q)), Tail(q), s, p, e)
<1> DEFINE c == Head(q)
           h2 == Executed(h, c)
           r == Tail(q)
<1>1. /\ Len(q) \in Nat /\ DOMAIN q = 1 .. Len(q) /\ 1 \in DOMAIN q /\ c = q[1] /\ c \in Copies
      /\ DOMAIN r = 1 .. Len(q) - 1
      /\ \A i \in 1 .. Len(q) - 1 : r[i] = q[i + 1]
  BY LenProperties, EmptySeq, HeadTailProperties
<1> HIDE DEF c, r
<1>2. h2 \in Weights
  BY <1>1 DEF Weights, Copies, Executed
<1>3. h2[s][p] = IF Reaches(c, s, p) THEN c.from ELSE h[s][p]
  BY <1>1 DEF Weights, Copies, Executed, Reaches
<1> HIDE DEF h2
<1>4. CASE h[s][p] = e /\ \A j \in DOMAIN q : ~ Reaches(q[j], s, p)
  <2>1. \A j \in DOMAIN r : r[j] = q[j + 1] /\ j + 1 \in DOMAIN q
    BY <1>1
  <2>2. \A j \in DOMAIN r : ~ Reaches(r[j], s, p)
    BY <1>4, <2>1
  <2>3. h2[s][p] = e
    BY <1>1, <1>3, <1>4
  <2> QED
    BY <1>2, <2>2, <2>3 DEF Brings, h2, c, r
<1>5. CASE \E i \in DOMAIN q : /\ Reaches(q[i], s, p) /\ q[i].from = e
                               /\ \A j \in DOMAIN q : i < j => ~ Reaches(q[j], s, p)
  <2>1. PICK i \in DOMAIN q : /\ Reaches(q[i], s, p) /\ q[i].from = e
                              /\ \A j \in DOMAIN q : i < j => ~ Reaches(q[j], s, p)
    BY <1>5
  <2>2. \A j \in DOMAIN r : i < j + 1 => ~ Reaches(r[j], s, p)
    BY <1>1, <2>1
  <2>3. CASE i = 1
    <3>1. \A j \in DOMAIN r : ~ Reaches(r[j], s, p)
      BY <1>1, <2>2, <2>3
    <3>2. h2[s][p] = e
      BY <1>1, <1>3, <2>1, <2>3
    <3> QED
      BY <1>2, <3>1, <3>2 DEF Brings, h2, c, r
  <2>4. CASE i # 1
    <3>1. i - 1 \in DOMAIN r /\ r[i - 1] = q[i]
      BY <1>1, <2>4
    <3>2. \A j \in DOMAIN r : i - 1 < j => ~ Reaches(r[j], s, p)
      BY <1>1, <2>2
    <3>3. Brings(h2, r, s, p, e)
      BY <2>1, <3>1, <3>2 DEF Brings
    <3> QED
      BY <1>2, <3>3 DEF h2, c, r
  <2> QED
    BY <2>3, <2>4
<1> QED
  BY <1>4, <1>5 DEF Brings

(* The parts of a slot.                                                    *)
LEMMA ReadParts == Read \subseteq Part /\ Hot \in Part /\ Part = {Hot, Cold}
BY DEF Read, Part

(* A copy into a slot whose residents and stagings it does not touch.      *)
LEMMA LandingTaken ==
  ASSUME config' = config, held' = held, dma \in Seq(Copies), Landing,
         NEW e \in Expert, NEW s \in Slot, dma' = Append(dma, Copy(s, Read, e)),
         expertSlot' = [x \in Expert |-> IF x = e THEN s
                                         ELSE IF expertSlot[x] = s THEN None ELSE expertSlot[x]],
         \A x \in Expert : staged'[x] # None => staged[x] = staged'[x] /\ staged[x] # s
  PROVE  dma' \in Seq(Copies) /\ Landing'
<1> DEFINE c == Copy(s, Read, e)
<1>1. c \in Copies /\ c.slot = s /\ c.parts = Read /\ c.from = e
  BY ReadParts DEF Copies, Copy
<1> HIDE DEF c
<1>2. dma' = Append(dma, c) /\ dma' \in Seq(Copies)
  BY <1>1, AppendProperties DEF c
<1>3. ASSUME NEW x \in Expert, NEW p \in Read', Resident(x)'
      PROVE  Brings(held', dma', expertSlot'[x], p, x)
  <2>1. p \in Read
    BY DEF Read
  <2>2. CASE x = e
    <3>1. expertSlot'[x] = s /\ Reaches(c, s, p)
      BY <1>1, <2>1, <2>2 DEF Reaches
    <3> QED
      BY <1>1, <1>2, <2>2, <3>1, BringsThis
  <2>3. CASE x # e
    <3>1. expertSlot'[x] = expertSlot[x] /\ expertSlot[x] # s /\ Resident(x)
      BY <1>3, <2>3 DEF Resident
    <3>2. ~ Reaches(c, expertSlot[x], p)
      BY <1>1, <3>1 DEF Reaches
    <3>3. Brings(held, dma, expertSlot[x], p, x)
      BY <2>1, <3>1 DEF Landing
    <3> QED
      BY <1>1, <1>2, <3>1, <3>2, <3>3, BringsOther
  <2> QED
    BY <2>2, <2>3
<1>4. ASSUME NEW x \in Expert, staged'[x] # None
      PROVE  Brings(held', dma', staged'[x], Hot, x)
  <2>1. staged[x] = staged'[x] /\ staged[x] # s
    BY <1>4
  <2>2. ~ Reaches(c, staged[x], Hot)
    BY <1>1, <2>1 DEF Reaches
  <2>3. Brings(held, dma, staged[x], Hot, x)
    BY <1>4, <2>1 DEF Landing
  <2> QED
    BY <1>1, <1>2, <2>1, <2>2, <2>3, BringsOther
<1> QED
  BY <1>2, <1>3, <1>4 DEF Landing

(* The same for the hot blocks of a staging, whose slot is taken from      *)
(* whoever had it.                                                         *)
LEMMA LandingStaged ==
  ASSUME config' = config, held' = held, dma \in Seq(Copies), Landing,
         NEW e \in Expert, NEW s \in Slot, dma' = Append(dma, Copy(s, {Hot}, e)),
         expertSlot' = [x \in Expert |-> IF expertSlot[x] = s THEN None ELSE expertSlot[x]],
         staged'[e] = s,
         \A x \in Expert : (staged'[x] # None /\ x # e) => staged[x] = staged'[x] /\ staged[x] # s
  PROVE  dma' \in Seq(Copies) /\ Landing'
<1> DEFINE c == Copy(s, {Hot}, e)
<1>1. c \in Copies /\ c.slot = s /\ c.parts = {Hot} /\ c.from = e
  BY ReadParts DEF Copies, Copy
<1> HIDE DEF c
<1>2. dma' = Append(dma, c) /\ dma' \in Seq(Copies)
  BY <1>1, AppendProperties DEF c
<1>3. ASSUME NEW x \in Expert, NEW p \in Read', Resident(x)'
      PROVE  Brings(held', dma', expertSlot'[x], p, x)
  <2>1. p \in Read
    BY DEF Read
  <2>2. expertSlot'[x] = expertSlot[x] /\ expertSlot[x] # s /\ Resident(x)
    BY <1>3 DEF Resident
  <2>3. ~ Reaches(c, expertSlot[x], p)
    BY <1>1, <2>2 DEF Reaches
  <2>4. Brings(held, dma, expertSlot[x], p, x)
    BY <2>1, <2>2 DEF Landing
  <2> QED
    BY <1>1, <1>2, <2>2, <2>3, <2>4, BringsOther
<1>4. ASSUME NEW x \in Expert, staged'[x] # None
      PROVE  Brings(held', dma', staged'[x], Hot, x)
  <2>1. CASE x = e
    <3>1. Reaches(c, s, Hot)
      BY <1>1 DEF Reaches
    <3> QED
      BY <1>1, <1>2, <2>1, <3>1, BringsThis
  <2>2. CASE x # e
    <3>1. staged[x] = staged'[x] /\ staged[x] # s
      BY <1>4, <2>2
    <3>2. ~ Reaches(c, staged[x], Hot)
      BY <1>1, <3>1 DEF Reaches
    <3>3. Brings(held, dma, staged[x], Hot, x)
      BY <1>4, <3>1 DEF Landing
    <3> QED
      BY <1>1, <1>2, <3>1, <3>2, <3>3, BringsOther
  <2> QED
    BY <2>1, <2>2
<1> QED
  BY <1>2, <1>3, <1>4 DEF Landing

(* The hot blocks are on their way already, the others follow.             *)
LEMMA LandingCompleted ==
  ASSUME config' = config, config.movement = "columns", held' = held,
         dma \in Seq(Copies), Landing,
         NEW e \in Expert, NEW s \in Slot, staged[e] = s, dma' = Append(dma, Copy(s, {Cold}, e)),
         expertSlot' = [expertSlot EXCEPT ![e] = s], expertSlot \in [Expert -> Slot \cup {None}],
         \A x \in Expert : expertSlot[x] # s,
         \A x \in Expert : staged'[x] # None => staged[x] = staged'[x] /\ staged[x] # s
  PROVE  dma' \in Seq(Copies) /\ Landing'
<1> DEFINE c == Copy(s, {Cold}, e)
<1>1. c \in Copies /\ c.slot = s /\ c.parts = {Cold} /\ c.from = e
  BY ReadParts DEF Copies, Copy
<1> HIDE DEF c
<1>2. dma' = Append(dma, c) /\ dma' \in Seq(Copies)
  BY <1>1, AppendProperties DEF c
<1>3. ASSUME NEW x \in Expert, NEW p \in Read', Resident(x)'
      PROVE  Brings(held', dma', expertSlot'[x], p, x)
  <2>1. p \in Read /\ (p = Hot \/ p = Cold) /\ Hot # Cold
    BY ReadParts DEF Read, Hot, Cold
  <2>2. CASE x = e /\ p = Cold
    <3>1. expertSlot'[x] = s /\ Reaches(c, s, p)
      BY <1>1, <2>2 DEF Reaches
    <3> QED
      BY <1>1, <1>2, <2>2, <3>1, BringsThis
  <2>3. CASE x = e /\ p = Hot
    <3>1. expertSlot'[x] = s /\ ~ Reaches(c, s, p)
      BY <1>1, <2>1, <2>3 DEF Reaches
    <3>2. Brings(held, dma, s, p, x)
      BY <2>3, SlotFacts DEF Landing
    <3> QED
      BY <1>1, <1>2, <3>1, <3>2, BringsOther
  <2>4. CASE x # e
    <3>1. expertSlot'[x] = expertSlot[x] /\ expertSlot[x] # s /\ Resident(x)
      BY <1>3, <2>4 DEF Resident
    <3>2. ~ Reaches(c, expertSlot[x], p)
      BY <1>1, <3>1 DEF Reaches
    <3>3. Brings(held, dma, expertSlot[x], p, x)
      BY <2>1, <3>1 DEF Landing
    <3> QED
      BY <1>1, <1>2, <3>1, <3>2, <3>3, BringsOther
  <2> QED
    BY <2>1, <2>2, <2>3, <2>4
<1>4. ASSUME NEW x \in Expert, staged'[x] # None
      PROVE  Brings(held', dma', staged'[x], Hot, x)
  <2>1. staged[x] = staged'[x] /\ staged[x] # s
    BY <1>4
  <2>2. ~ Reaches(c, staged[x], Hot)
    BY <1>1, <2>1 DEF Reaches
  <2>3. Brings(held, dma, staged[x], Hot, x)
    BY <1>4, <2>1 DEF Landing
  <2> QED
    BY <1>1, <1>2, <2>1, <2>2, <2>3, BringsOther
<1> QED
  BY <1>2, <1>3, <1>4 DEF Landing

(* Where the host is while products of a forward are in the stream.        *)
Serving == {"compute", "entrance", "gate", "failed"}

(* The streams and the tables stay as they are.                            *)
SameFlow == UNCHANGED <<config, slotExpert, expertSlot, staged, held, dma, current, behind, misread>>

(* A step of the host that moves nothing.                                  *)
LEMMA FlowStays ==
  ASSUME CopyInv, SameFlow, Waited',
         \/ host \notin Serving \/ current = << >>
         \/ host' \in Serving /\ needed' = needed
  PROVE  CopyInv'
<1>1. Landing'
  BY DEF CopyInv, SameFlow, Landing, Resident, Read
<1>2. ASSUME NEW i \in DOMAIN current', current'[i].fit
      PROVE  Served(current[i])'
  <2>1. i \in DOMAIN current /\ current[i].fit /\ current' = current /\ current # << >>
    BY <1>2 DEF SameFlow
  <2>2. Served(current[i])
    BY <2>1 DEF CopyInv
  <2>3. host' \in Serving /\ needed' = needed
    BY <2>1, <2>2 DEF Served, Serving
  <2> QED
    BY <2>1, <2>2, <2>3 DEF Served, Serving, SameFlow, Fits
<1> QED
  BY <1>1, <1>2 DEF CopyInv, SameFlow

(* So do the steps of the host that move nothing.                          *)
LEMMA HostKeepsFlow ==
  ASSUME BookInv, CopyInv,
         \/ Probe \/ NoProbe \/ PrefetchEnds \/ Route \/ TouchHit \/ HitsTouched
         \/ NothingMissing \/ CountTokens \/ ForwardReturns
  PROVE  CopyInv'
<1>1. SameFlow
  BY DEF Probe, NoProbe, PrefetchEnds, Route, TouchHit, HitsTouched, NothingMissing,
         CountTokens, ForwardReturns, SameFlow, books, device
<1>2. Waited'
  <2>1. ~ Waiting
    BY DEF Probe, NoProbe, PrefetchEnds, Route, TouchHit, HitsTouched, NothingMissing,
         CountTokens, ForwardReturns, Waiting
  <2> QED
    BY <1>1, <2>1 DEF CopyInv, Waited, SameFlow
<1>3. \/ host \notin Serving \/ current = << >>
      \/ host' \in Serving /\ needed' = needed
  BY DEF Probe, NoProbe, PrefetchEnds, Route, TouchHit, HitsTouched, NothingMissing,
         CountTokens, ForwardReturns, ReadBack, Serving
<1> QED
  BY <1>1, <1>2, <1>3, FlowStays

(* The stream is told to wait for what was missing.                        *)
LEMMA WaitKeepsFlow ==
  ASSUME CopyInv, MissingLoaded, config.movement # "ans"
  PROVE  CopyInv'
<1>1. /\ host = "loaded" /\ host' = "count" /\ behind' = Len(dma)
      /\ UNCHANGED <<config, slotExpert, expertSlot, staged, held, dma, current, misread, needed>>
  BY DEF MissingLoaded, books
<1>2. Len(dma) \in Nat /\ DOMAIN dma = 1 .. Len(dma)
  BY LenProperties DEF CopyInv
<1>3. Waited'
  BY <1>1, <1>2 DEF Waited
<1>4. Landing'
  BY <1>1 DEF CopyInv, Landing, Resident, Read
<1>5. \A i \in DOMAIN current : ~ current[i].fit
  BY <1>1 DEF CopyInv, Served
<1> QED
  BY <1>1, <1>2, <1>3, <1>4, <1>5 DEF CopyInv

(* Nothing is moved ahead but in blocks.                                   *)
LEMMA OnlyStaged ==
  ASSUME BookInv, Plain, config.movement # "ans", host = "prefetch"
  PROVE  config.movement = "columns"
<1>1. config.zssr /\ config \in LegalFlags
  BY DEF BookInv, Progress
<1>2. config.movement \in {"whole", "columns", "ans", "hot"} /\ (config.movement = "hot" => ~ config.zssr)
  BY <1>1, SlotAssumption DEF LegalFlags
<1> QED
  BY <1>1, <1>2 DEF Plain

(* A slot that is only given up: less is asked for.                        *)
LEMMA LandingLeft ==
  ASSUME config' = config, held' = held, dma' = dma, Landing, NEW s \in Slot,
         expertSlot' = [x \in Expert |-> IF expertSlot[x] = s THEN None ELSE expertSlot[x]],
         \A x \in Expert : staged'[x] # None => staged[x] = staged'[x]
  PROVE  Landing'
<1>1. ASSUME NEW x \in Expert, NEW p \in Read', Resident(x)'
      PROVE  Brings(held', dma', expertSlot'[x], p, x)
  <2>1. p \in Read /\ expertSlot'[x] = expertSlot[x] /\ Resident(x)
    BY <1>1 DEF Read, Resident
  <2> QED
    BY <2>1 DEF Landing
<1> QED
  BY <1>1 DEF Landing

(* Staging hot blocks into the oldest slot.                                *)
LEMMA StageKeepsFlow ==
  ASSUME BookInv, CopyInv, NEW e \in Expert, StageOne(e)
  PROVE  CopyInv'
<1> DEFINE s == Head(lru)
<1>1. /\ host = "prefetch" /\ host' = "prefetch" /\ config' = config /\ config.movement = "columns"
      /\ UNCHANGED <<held, current, behind, misread, needed>>
  BY DEF StageOne
<1>2. s \in Slot
  BY <1>1, FullList DEF BookInv, Queued, RanDry
<1>3. /\ e \notin Calibrated => UNCHANGED <<slotExpert, expertSlot, colState, staged, dma>>
      /\ e \in Calibrated => Stages(e, s)
      /\ e \in Calibrated \ Indexed => dma' = dma
      /\ e \in Indexed => dma' = Append(dma, Copy(s, {Hot}, e))
  BY <1>2, StageIs DEF BookInv
<1> HIDE DEF s
<1>4. CASE e \notin Calibrated
  <2>1. SameFlow
    BY <1>1, <1>3, <1>4 DEF SameFlow
  <2>2. Waited'
    BY <1>1, <2>1 DEF CopyInv, Waited, Waiting, SameFlow
  <2> QED
    BY <1>1, <2>1, <2>2, FlowStays DEF Serving
<1>5. \A i \in DOMAIN current : ~ current[i].fit
  BY <1>1 DEF CopyInv, Served
<1>6. \A j \in DOMAIN dma : dma[j].slot \in Slot /\ (j > behind => slotExpert[dma[j].slot] = None)
  <2>1. \A j \in DOMAIN dma : dma[j] \in Copies
    BY ElementOfSeq, LenProperties DEF CopyInv
  <2> QED
    BY <1>1, <2>1 DEF CopyInv, Waited, Waiting, Copies
<1>7. slotExpert \in [Slot -> Expert \cup {None}]
  BY DEF BookInv, Tables, TableTypes
<1>8. CASE e \in Calibrated \ Indexed
  <2>1. Stages(e, s) /\ dma' = dma /\ slotExpert' = [slotExpert EXCEPT ![s] = None]
    BY <1>3, <1>8 DEF Stages
  <2>2. /\ expertSlot' = [x \in Expert |-> IF expertSlot[x] = s THEN None ELSE expertSlot[x]]
        /\ \A x \in Expert : staged'[x] # None => staged[x] = staged'[x]
    BY <1>1, <1>2, <1>8, <2>1, StageKeeps DEF BookInv
  <2>3. Landing'
    BY <1>1, <1>2, <2>1, <2>2, LandingLeft DEF CopyInv
  <2>4. Waited'
    BY <1>1, <1>6, <1>7, <2>1 DEF Waited
  <2> QED
    BY <1>1, <1>5, <2>1, <2>3, <2>4 DEF CopyInv
<1>9. CASE e \in Indexed
  <2>1. Stages(e, s) /\ dma' = Append(dma, Copy(s, {Hot}, e))
    BY <1>3, <1>9, SlotAssumption
  <2>2. /\ expertSlot' = [x \in Expert |-> IF expertSlot[x] = s THEN None ELSE expertSlot[x]]
        /\ \A x \in Expert : (staged'[x] # None /\ x # e)
                                => staged[x] = staged'[x] /\ staged[x] # s
    BY <1>1, <1>2, <2>1, StageKeeps DEF BookInv
  <2>3. staged'[e] = s
    BY <1>9, <2>1 DEF Stages
  <2>4. dma' \in Seq(Copies) /\ Landing'
    BY <1>1, <1>2, <2>1, <2>2, <2>3, LandingStaged DEF CopyInv
  <2>5. Waited'
    <3>1. /\ Len(dma) \in Nat /\ DOMAIN dma = 1 .. Len(dma) /\ DOMAIN dma' = 1 .. Len(dma) + 1
          /\ \A j \in 1 .. Len(dma) : dma'[j] = dma[j]
          /\ dma'[Len(dma) + 1].slot = s
      <4>1. Copy(s, {Hot}, e) \in Copies /\ Copy(s, {Hot}, e).slot = s
        BY <1>2, ReadParts DEF Copies, Copy
      <4> QED
        BY <2>1, <4>1, LenProperties, AppendProperties DEF CopyInv
    <3>2. slotExpert' = [slotExpert EXCEPT ![s] = None]
      BY <2>1 DEF Stages
    <3>3. ASSUME NEW j \in 1 .. Len(dma) + 1, j > behind
          PROVE  slotExpert'[dma'[j].slot] = None
      <4>1. CASE j = Len(dma) + 1
        BY <1>2, <1>7, <3>1, <3>2, <4>1
      <4>2. CASE j # Len(dma) + 1
        <5>1. j \in 1 .. Len(dma)
          BY <3>1, <4>2
        <5> QED
          BY <1>6, <1>7, <3>1, <3>2, <3>3, <5>1
      <4> QED
        BY <4>1, <4>2
    <3> QED
      BY <1>1, <3>1, <3>3 DEF Waited
  <2> QED
    BY <1>1, <1>5, <2>4, <2>5 DEF CopyInv
<1> QED
  BY <1>4, <1>8, <1>9

(* A slot taken for an expert, whose copy is queued.                       *)
LEMMA TakenFlow ==
  ASSUME BookInv, CopyInv, Plain, config.movement # "ans", config' = config, held' = held,
         Injective(lru), ToSet(lru) = Slot,
         NEW e \in Expert, ~ Resident(e), TakeOldest(e)
  PROVE  dma' \in Seq(Copies) /\ Landing' /\ current' = current
<1>1. /\ Head(lru) \in Slot
      /\ expertSlot' = [x \in Expert |-> IF x = e THEN Head(lru)
                             ELSE IF expertSlot[x] = Head(lru) THEN None ELSE expertSlot[x]]
      /\ \A x \in Expert : staged'[x] # None => staged[x] = staged'[x] /\ staged[x] # Head(lru)
  BY TakeKeeps DEF BookInv
<1>2. dma' = Append(dma, Copy(Head(lru), Read, e)) /\ current' = current
  BY DEF TakeOldest, Stream, Plain
<1> QED
  BY <1>1, <1>2, LandingTaken DEF CopyInv

(* Loading a missing expert; nothing else of the forward is under way,     *)
(* since its routing was read back.                                        *)
LEMMA LoadKeepsFlow ==
  ASSUME BookInv, CopyInv, Plain, config.movement # "ans", LoadMissing
  PROVE  CopyInv'
<1> DEFINE e == First(todo)
<1>1. /\ host = "missing" /\ todo # {} /\ e \in todo /\ e \in Expert /\ ~ Resident(e)
      /\ config' = config /\ needed' = needed
  BY FirstIn DEF LoadMissing, BookInv, Progress
<1>2. Injective(lru) /\ ToSet(lru) = Slot /\ lru \in Seq(Slot) /\ ~ Unavailable
  BY FullList DEF BookInv, Queued, RanDry, Unavailable
<1>3. /\ IF IsStaged(e) THEN Complete(e) ELSE TakeOldest(e) /\ behind' = behind
      /\ todo' = todo \ {e} /\ UNCHANGED <<held, misread>>
      /\ host' = IF todo = {e} THEN "loaded" ELSE host
  BY <1>2 DEF LoadMissing
<1> HIDE DEF e
<1>4. Waited'
  BY <1>1, <1>3 DEF Waited, Waiting
<1>5. \A i \in DOMAIN current : ~ current[i].fit
  BY <1>1 DEF CopyInv, Served
<1>6. dma' \in Seq(Copies) /\ Landing' /\ current' = current /\ behind' \in Nat
  <2>1. CASE IsStaged(e)
    <3> DEFINE s == staged[e]
    <3>1. Complete(e) /\ s # None /\ config.movement = "columns"
      BY <1>3, <2>1 DEF IsStaged
    <3>2. /\ s \in Slot /\ colState[s] = e /\ slotExpert[s] = None
          /\ expertSlot' = [expertSlot EXCEPT ![e] = s]
          /\ \A x \in Expert : staged'[x] # None => staged[x] = staged'[x] /\ staged[x] # s
      BY <1>1, <1>2, <3>1, CompleteKeeps DEF BookInv
    <3>3. dma' = Append(dma, Copy(s, {Cold}, e)) /\ current' = current /\ behind' = Len(dma')
      BY <1>1, <3>1, <3>2, SlotFacts DEF Complete
    <3>4. /\ expertSlot \in [Expert -> Slot \cup {None}]
          /\ \A x \in Expert : expertSlot[x] # s
      BY <3>2, SlotFacts DEF BookInv, Tables, TableTypes
    <3> HIDE DEF s
    <3>5. dma' \in Seq(Copies) /\ Landing'
      BY <1>1, <1>3, <3>1, <3>2, <3>3, <3>4, LandingCompleted DEF CopyInv, s
    <3> QED
      BY <3>3, <3>5, LenProperties
  <2>2. CASE ~ IsStaged(e)
    BY <1>1, <1>2, <1>3, <2>2, TakenFlow DEF CopyInv
  <2> QED
    BY <2>1, <2>2
<1> QED
  BY <1>3, <1>4, <1>5, <1>6 DEF CopyInv

(* Loading between two products, which happens only when the forward does  *)
(* not fit: then the products in the stream are not the fitting ones.      *)
LEMMA LoadOnTheSpotKeepsFlow ==
  ASSUME BookInv, CopyInv, Plain, config.movement # "ans", LoadOnTheSpot
  PROVE  CopyInv'
<1> DEFINE e == First(todo)
<1>1. /\ host = "compute" /\ e \in todo /\ e \in Expert /\ ~ Resident(e)
      /\ UNCHANGED <<config, needed>>
  BY FirstIn DEF LoadOnTheSpot, BookInv
<1>2. Injective(lru) /\ ToSet(lru) = Slot /\ lru \in Seq(Slot) /\ ~ Unavailable
  BY FullList DEF BookInv, Queued, RanDry, Unavailable
<1>3. /\ TakeOldest(e) /\ behind' = Len(dma') /\ UNCHANGED <<held, misread, host>>
  BY <1>2 DEF LoadOnTheSpot
<1> HIDE DEF e
<1>4. ~ Fits
  BY <1>1 DEF BookInv, Progress
<1>5. \A i \in DOMAIN current : ~ current[i].fit
  BY <1>4 DEF CopyInv, Served
<1>6. dma' \in Seq(Copies) /\ Landing' /\ current' = current
  BY <1>1, <1>2, <1>3, TakenFlow
<1>7. behind' \in Nat /\ DOMAIN dma' = 1 .. behind'
  BY <1>3, <1>6, LenProperties
<1>8. Waited'
  <2>1. \A j \in DOMAIN dma' : ~ (j > behind')
    BY <1>7
  <2> QED
    BY <2>1 DEF Waited
<1> QED
  BY <1>3, <1>5, <1>6, <1>7, <1>8 DEF CopyInv

(* A product of a forward whose experts fit meets what has arrived.        *)
LEMMA ComputeKeepsFlow ==
  ASSUME BookInv, CopyInv, config.movement # "ans", ComputeResident
  PROVE  CopyInv'
<1> DEFINE e == First(todo)
           s == expertSlot[e]
<1>1. /\ host = "compute" /\ e \in Expert /\ Resident(e)
      /\ UNCHANGED <<config, slotExpert, expertSlot, staged, held, dma, behind, misread, needed>>
      /\ IF ~ Fits /\ s \notin ToSet(lru)
         THEN host' = "failed" /\ current' = current
         ELSE Launch("product", s, e, behind) /\ host' = host
  BY FirstIn DEF ComputeResident, BookInv
<1>2. s \in Slot /\ slotExpert[s] = e
  BY <1>1 DEF BookInv, Tables, TableTypes, Resident
<1> HIDE DEF e, s
<1>3. Landing'
  BY <1>1 DEF CopyInv, Landing, Resident, Read
<1>4. ~ Waiting /\ \A j \in DOMAIN dma : j > behind => slotExpert[dma[j].slot] = None
  BY <1>1 DEF CopyInv, Waited, Waiting
<1>5. Waited'
  BY <1>1, <1>4 DEF Waited
<1>6. CASE ~ Fits /\ s \notin ToSet(lru)
  <2>1. \A i \in DOMAIN current : ~ current[i].fit
    BY <1>6 DEF CopyInv, Served
  <2> QED
    BY <1>1, <1>3, <1>5, <1>6, <2>1 DEF CopyInv
<1>7. CASE ~ (~ Fits /\ s \notin ToSet(lru))
  <2> DEFINE op == [op |-> "product", slot |-> s, expert |-> e, after |-> behind, fit |-> Fits]
  <2>1. current' = Append(current, op) /\ host' = host
    BY <1>1, <1>7 DEF Launch
  <2>2. op \in Ops({"product"}) /\ op.fit = Fits /\ op.slot = s /\ op.expert = e /\ op.after = behind
    BY <1>1, <1>2 DEF Ops, CopyInv, Fits
  <2> HIDE DEF op
  <2>3. /\ current' \in Seq(Ops({"product"}))
        /\ Len(current) \in Nat /\ DOMAIN current = 1 .. Len(current)
        /\ DOMAIN current' = 1 .. Len(current) + 1
        /\ \A i \in 1 .. Len(current) : current'[i] = current[i]
        /\ current'[Len(current) + 1] = op
    BY <2>1, <2>2, LenProperties, AppendProperties DEF CopyInv
  <2>4. \A j \in DOMAIN dma : dma[j].slot = s => j <= behind
    <3>1. ASSUME NEW j \in DOMAIN dma, dma[j].slot = s PROVE j <= behind
      <4>1. ~ (j > behind)
        BY <1>1, <1>2, <1>4, <3>1, SlotFacts
      <4>2. j \in Nat /\ behind \in Nat
        BY LenProperties DEF CopyInv
      <4> QED
        BY <4>1, <4>2
    <3> QED
      BY <3>1
  <2>5. ASSUME NEW i \in DOMAIN current', current'[i].fit
        PROVE  Served(current[i])'
    <3>1. CASE i = Len(current) + 1
      <4>1. current'[i] = op /\ Fits
        BY <2>2, <2>3, <2>5, <3>1
      <4> QED
        BY <1>1, <2>1, <2>2, <2>4, <4>1 DEF Served, Fits, s
    <3>2. CASE i # Len(current) + 1
      <4>1. i \in DOMAIN current /\ current'[i] = current[i]
        BY <2>3, <3>2
      <4>2. Served(current[i])
        BY <2>5, <4>1 DEF CopyInv
      <4> QED
        BY <1>1, <2>1, <4>1, <4>2 DEF Served, Fits
    <3> QED
      BY <3>1, <3>2
  <2> QED
    BY <1>1, <1>3, <1>5, <2>3, <2>5 DEF CopyInv
<1> QED
  BY <1>6, <1>7

(* The first copy is executed.                                             *)
LEMMA DmaKeepsFlow ==
  ASSUME BookInv, CopyInv, DmaStep
  PROVE  CopyInv'
<1>1. /\ dma # << >> /\ dma' = Tail(dma)
      /\ behind' = IF behind > 0 THEN behind - 1 ELSE 0
      /\ current' = [i \in DOMAIN current |->
                       [current[i] EXCEPT !.after = IF @ > 0 THEN @ - 1 ELSE 0]]
      /\ UNCHANGED <<config, slotExpert, expertSlot, staged, misread, host, needed, todo>>
  BY DEF DmaStep, books
<1>2. /\ Len(dma) \in Nat \ {0} /\ DOMAIN dma = 1 .. Len(dma)
      /\ dma' \in Seq(Copies) /\ DOMAIN dma' = 1 .. Len(dma) - 1
      /\ \A i \in 1 .. Len(dma) - 1 : dma'[i] = dma[i + 1]
      /\ Head(dma) \in Copies
  BY <1>1, LenProperties, EmptySeq, HeadTailProperties DEF CopyInv
<1>3. held' = Executed(held, Head(dma))
  <2>1. Head(dma).from # Triple
    BY <1>2, SlotAssumption DEF Copies, Triple
  <2> QED
    BY <2>1 DEF DmaStep, Executed
<1>4. held' \in Weights
  BY <1>2, <1>3 DEF CopyInv, Executed, Weights, Copies
<1>5. Landing'
  <2>1. ASSUME NEW x \in Expert, NEW p \in Read, Resident(x)
        PROVE  Brings(held', dma', expertSlot[x], p, x)
    <3>1. expertSlot[x] \in Slot /\ p \in Part
      BY <2>1, ReadParts DEF Resident, BookInv, Tables, TableTypes
    <3>2. Brings(held, dma, expertSlot[x], p, x)
      BY <2>1 DEF CopyInv, Landing
    <3> QED
      BY <1>1, <1>3, <3>1, <3>2, BringsExecuted DEF CopyInv
  <2>2. ASSUME NEW x \in Expert, staged[x] # None
        PROVE  Brings(held', dma', staged[x], Hot, x)
    <3>1. staged[x] \in Slot /\ Hot \in Part
      BY <2>2, ReadParts DEF BookInv, Tables, TableTypes
    <3>2. Brings(held, dma, staged[x], Hot, x)
      BY <2>2 DEF CopyInv, Landing
    <3> QED
      BY <1>1, <1>3, <3>1, <3>2, BringsExecuted DEF CopyInv
  <2> QED
    BY <1>1, <2>1, <2>2 DEF Landing, Resident, Read
<1>6. Waited'
  <2>1. CASE Waiting
    BY <1>1, <2>1 DEF Waited, Waiting
  <2>2. CASE ~ Waiting
    <3>1. \A j \in DOMAIN dma : j > behind => slotExpert[dma[j].slot] = None
      BY <2>2 DEF CopyInv, Waited
    <3>2. ASSUME NEW j \in 1 .. Len(dma) - 1, j > behind'
          PROVE  slotExpert[dma[j + 1].slot] = None
      <4>1. j + 1 \in DOMAIN dma /\ j + 1 > behind
        BY <1>1, <1>2, <3>2 DEF CopyInv
      <4> QED
        BY <3>1, <4>1
    <3> QED
      BY <1>1, <1>2, <3>2 DEF Waited
  <2> QED
    BY <2>1, <2>2
<1>7. /\ current' \in Seq(Ops({"product"})) /\ DOMAIN current' = DOMAIN current
      /\ \A i \in DOMAIN current :
           /\ current[i] \in Ops({"product"})
           /\ current'[i] = [current[i] EXCEPT !.after = IF @ > 0 THEN @ - 1 ELSE 0]
  <2>1. /\ Len(current) \in Nat /\ DOMAIN current = 1 .. Len(current)
        /\ \A i \in DOMAIN current : current[i] \in Ops({"product"})
    BY ElementOfSeq, LenProperties DEF CopyInv
  <2>2. \A i \in DOMAIN current :
          [current[i] EXCEPT !.after = IF @ > 0 THEN @ - 1 ELSE 0] \in Ops({"product"})
    BY <2>1 DEF Ops
  <2>3. current' \in [1 .. Len(current) -> Ops({"product"})]
    BY <1>1, <2>1, <2>2
  <2> QED
    BY <1>1, <2>1, <2>3, SeqDef
<1>8. ASSUME NEW i \in DOMAIN current', current'[i].fit
      PROVE  Served(current[i])'
  <2>1. /\ i \in DOMAIN current /\ current[i] \in Ops({"product"})
        /\ current'[i].fit = current[i].fit /\ current'[i].slot = current[i].slot
        /\ current'[i].expert = current[i].expert
        /\ current'[i].after = IF current[i].after > 0 THEN current[i].after - 1 ELSE 0
        /\ current[i].after \in Nat
    BY <1>7 DEF Ops
  <2>2. Served(current[i])
    BY <1>8, <2>1 DEF CopyInv
  <2>3. ASSUME NEW j \in DOMAIN dma', dma'[j].slot = current[i].slot
        PROVE  j <= current'[i].after
    <3>1. j + 1 \in DOMAIN dma /\ dma[j + 1].slot = current[i].slot
      BY <1>2, <2>3
    <3>2. j + 1 <= current[i].after
      BY <2>2, <3>1 DEF Served
    <3> QED
      BY <1>2, <2>1, <3>2
  <2> QED
    BY <1>1, <2>1, <2>2, <2>3 DEF Served, Fits
<1>9. behind' \in Nat
  BY <1>1 DEF CopyInv
<1> QED
  BY <1>1, <1>2, <1>4, <1>5, <1>6, <1>7, <1>8, <1>9 DEF CopyInv

(* The first operation of the current stream is executed.                  *)
LEMMA CurrentKeepsFlow ==
  ASSUME BookInv, CopyInv, CurrentStep
  PROVE  CopyInv'
<1> DEFINE op == Head(current)
<1>1. /\ current # << >> /\ current' = Tail(current) /\ op.after = 0
      /\ UNCHANGED <<config, slotExpert, expertSlot, staged, dma, behind, host, needed, todo>>
  BY DEF CurrentStep, books
<1>2. /\ Len(current) \in Nat \ {0} /\ DOMAIN current = 1 .. Len(current)
      /\ current' \in Seq(Ops({"product"})) /\ DOMAIN current' = 1 .. Len(current) - 1
      /\ \A i \in 1 .. Len(current) - 1 : current'[i] = current[i + 1]
      /\ op = current[1] /\ op \in Ops({"product"}) /\ 1 \in DOMAIN current
  BY <1>1, LenProperties, EmptySeq, HeadTailProperties DEF CopyInv
<1> HIDE DEF op
<1>3. /\ held' = held
      /\ misread' = IF \A p \in Read : held[op.slot][p] = op.expert
                    THEN misread ELSE misread \cup {op.fit}
  <2>1. op.op # "decode"
    BY <1>2 DEF Ops
  <2> QED
    BY <2>1 DEF CurrentStep, op
<1>4. op.fit => \A p \in Read : held[op.slot][p] = op.expert
  <2> SUFFICES ASSUME op.fit, NEW p \in Read PROVE held[op.slot][p] = op.expert
    OBVIOUS
  <2>1. Served(op)
    BY <1>2 DEF CopyInv
  <2>2. expertSlot[op.expert] = op.slot /\ \A j \in DOMAIN dma : dma[j].slot = op.slot => j <= 0
    BY <1>1, <2>1 DEF Served
  <2>3. op.expert \in Expert /\ op.slot \in Slot
    BY <1>2 DEF Ops
  <2>4. Brings(held, dma, op.slot, p, op.expert)
    BY <2>2, <2>3, SlotFacts DEF CopyInv, Landing, Resident
  <2>5. \A j \in DOMAIN dma : ~ Reaches(dma[j], op.slot, p)
    <3>1. \A j \in DOMAIN dma : ~ (j <= 0)
      BY LenProperties DEF CopyInv
    <3> QED
      BY <2>2, <3>1 DEF Reaches
  <2> QED
    BY <2>4, <2>5 DEF Brings
<1>5. TRUE \notin misread'
  BY <1>2, <1>3, <1>4 DEF CopyInv, Ops
<1>6. Landing' /\ Waited'
  BY <1>1, <1>3 DEF CopyInv, Landing, Waited, Waiting, Resident, Read
<1>7. ASSUME NEW i \in DOMAIN current', current'[i].fit
      PROVE  Served(current[i])'
  <2>1. i + 1 \in DOMAIN current /\ current'[i] = current[i + 1]
    BY <1>2
  <2>2. Served(current[i + 1])
    BY <1>7, <2>1 DEF CopyInv
  <2> QED
    BY <1>1, <2>1, <2>2 DEF Served, Fits
<1> QED
  BY <1>1, <1>2, <1>3, <1>5, <1>6, <1>7 DEF CopyInv

(* Every step keeps it.                                                    *)
LEMMA FlowKept ==
  ASSUME BookInv, CopyInv, Plain, config.movement # "ans", [SlotNext]_slotVars
  PROVE  CopyInv'
<1>1. CASE \/ Probe \/ NoProbe \/ PrefetchEnds \/ Route \/ TouchHit \/ HitsTouched
           \/ NothingMissing \/ CountTokens \/ ForwardReturns
  BY <1>1, HostKeepsFlow
<1>2. CASE PrefetchFails
  BY <1>2 DEF PrefetchFails, RunsDry
<1>3. ASSUME NEW e \in Expert, PrefetchOne(e) PROVE CopyInv'
  BY <1>3, OnlyStaged DEF PrefetchOne
<1>4. ASSUME NEW e \in Expert, StageOne(e) PROVE CopyInv'
  BY <1>4, StageKeepsFlow
<1>5. CASE LoadMissing \/ LoadOnTheSpot \/ MissingLoaded
  BY <1>5, LoadKeepsFlow, LoadOnTheSpotKeepsFlow, WaitKeepsFlow
<1>6. CASE ComputeResident \/ DmaStep \/ CurrentStep
  BY <1>6, ComputeKeepsFlow, DmaKeepsFlow, CurrentKeepsFlow
<1>7. CASE UNCHANGED slotVars
  <2>1. SameFlow /\ UNCHANGED <<host, needed, todo>>
    BY <1>7 DEF slotVars, books, device, SameFlow
  <2>2. Waited'
    BY <2>1 DEF CopyInv, Waited, Waiting, SameFlow
  <2>3. Landing'
    BY <2>1 DEF CopyInv, Landing, Resident, Read, SameFlow
  <2>4. ASSUME NEW i \in DOMAIN current', current'[i].fit PROVE Served(current[i])'
    <3>1. Served(current[i])
      BY <2>1, <2>4 DEF CopyInv, SameFlow
    <3> QED
      BY <2>1, <3>1 DEF Served, Fits, SameFlow
  <2> QED
    BY <2>1, <2>2, <2>3, <2>4 DEF CopyInv, SameFlow
<1> QED
  BY <1>1, <1>2, <1>3, <1>4, <1>5, <1>6, <1>7 DEF SlotNext

(* Nothing is under way at the start.                                      *)
LEMMA FlowStarts == SlotInit => CopyInv
<1> SUFFICES ASSUME SlotInit PROVE CopyInv
  OBVIOUS
<1>1. Landing /\ Waited
  BY DEF SlotInit, Landing, Waited, Resident
<1>2. held \in Weights /\ dma \in Seq(Copies) /\ current \in Seq(Ops({"product"})) /\ behind \in Nat
  BY DEF SlotInit, Weights
<1>3. DOMAIN current = {}
  BY DEF SlotInit
<1> QED
  BY <1>1, <1>2, <1>3 DEF SlotInit, CopyInv

(***************************************************************************)
(* Decoding on the current stream                                          *)
(***************************************************************************)
AnsOps == Ops({"decode", "product"})

(* An operation at the end changes nothing of what the first n leave, and  *)
(* nothing at all when it decodes elsewhere.                               *)
LEMMA DecodedAppend ==
  ASSUME NEW q \in Seq(AnsOps), NEW op \in AnsOps, NEW n \in 0 .. Len(q), NEW h, NEW s, NEW e,
         Decoded(h, q, n, s, e)
  PROVE  /\ Decoded(h, Append(q, op), n, s, e)
         /\ n = Len(q) /\ ~ Decodes(op, s) => Decoded(h, Append(q, op), n + 1, s, e)
<1> DEFINE r == Append(q, op)
<1>1. /\ Len(q) \in Nat /\ n \in Nat /\ \A i \in 1 .. Len(q) : r[i] = q[i]
      /\ r[Len(q) + 1] = op
  BY LenProperties, AppendProperties
<1> HIDE DEF r
<1>2. \A i \in 1 .. n : r[i] = q[i] /\ i \in 1 .. n + 1
  BY <1>1
<1>3. n = Len(q) /\ ~ Decodes(op, s) =>
        \A j \in 1 .. n + 1 : j \in 1 .. n \/ ~ Decodes(r[j], s)
  <2> SUFFICES ASSUME n = Len(q), ~ Decodes(op, s), NEW j \in 1 .. n + 1, j \notin 1 .. n
               PROVE  ~ Decodes(r[j], s)
    OBVIOUS
  <2>1. j = Len(q) + 1
    BY <1>1
  <2> QED
    BY <1>1, <2>1
<1>4. CASE (\A p \in Part : h[s][p] = e) /\ \A j \in 1 .. n : ~ Decodes(q[j], s)
  <2>1. \A j \in 1 .. n : ~ Decodes(r[j], s)
    BY <1>2, <1>4
  <2> QED
    BY <1>3, <1>4, <2>1 DEF Decoded, r
<1>5. CASE \E i \in 1 .. n : /\ Decodes(q[i], s) /\ q[i].expert = e
                             /\ \A j \in 1 .. n : i < j => ~ Decodes(q[j], s)
  <2>1. PICK i \in 1 .. n : /\ Decodes(q[i], s) /\ q[i].expert = e
                            /\ \A j \in 1 .. n : i < j => ~ Decodes(q[j], s)
    BY <1>5
  <2>2. /\ Decodes(r[i], s) /\ r[i].expert = e /\ i \in 1 .. n + 1
        /\ \A j \in 1 .. n : i < j => ~ Decodes(r[j], s)
    BY <1>2, <2>1
  <2>3. n = Len(q) /\ ~ Decodes(op, s) => \A j \in 1 .. n + 1 : i < j => ~ Decodes(r[j], s)
    BY <1>3, <2>2
  <2> QED
    BY <2>2, <2>3 DEF Decoded, r
<1> QED
  BY <1>4, <1>5 DEF Decoded

(* A decoding just launched is the last.                                   *)
LEMMA DecodedThis ==
  ASSUME NEW q \in Seq(AnsOps), NEW op \in AnsOps, NEW h, NEW s, Decodes(op, s)
  PROVE  Decoded(h, Append(q, op), Len(q) + 1, s, op.expert)
<1> DEFINE r == Append(q, op)
<1>1. Len(q) \in Nat /\ r[Len(q) + 1] = op
  BY LenProperties, AppendProperties
<1> HIDE DEF r
<1>2. /\ Len(q) + 1 \in 1 .. Len(q) + 1
      /\ \A j \in 1 .. Len(q) + 1 : ~ (Len(q) + 1 < j)
  BY <1>1
<1> QED
  BY <1>1, <1>2 DEF Decoded, r

(* What executing the first operation makes of the slots.                  *)
Performed(h, op) ==
  IF op.op = "decode" THEN [h EXCEPT ![op.slot] = [p \in Part |-> op.expert]] ELSE h

(* Performing the first operation changes nothing of what the others       *)
(* leave.                                                                  *)
LEMMA DecodedPerformed ==
  ASSUME NEW q \in Seq(AnsOps), q # << >>, NEW n \in 1 .. Len(q), NEW h \in Weights,
         NEW s \in Slot, NEW e, Decoded(h, q, n, s, e)
  PROVE  Decoded(Performed(h, Head(q)), Tail(q), n - 1, s, e)
<1> DEFINE c == Head(q)
           h2 == Performed(h, c)
           r == Tail(q)
<1>1. /\ Len(q) \in Nat /\ n \in Nat /\ c = q[1] /\ c \in AnsOps
      /\ \A i \in 1 .. Len(q) - 1 : r[i] = q[i + 1]
  BY LenProperties, EmptySeq, HeadTailProperties
<1>2. \A i \in 1 .. n - 1 : r[i] = q[i + 1] /\ i + 1 \in 1 .. n
  BY <1>1
<1> HIDE DEF c, r
<1>3. \A p \in Part : h2[s][p] = IF Decodes(c, s) THEN c.expert ELSE h[s][p]
  <2>1. c.slot \in Slot
    BY <1>1 DEF AnsOps, Ops
  <2> QED
    BY <1>1, <2>1 DEF Weights, Performed, Decodes
<1> HIDE DEF h2
<1>4. CASE (\A p \in Part : h[s][p] = e) /\ \A j \in 1 .. n : ~ Decodes(q[j], s)
  <2>1. 1 \in 1 .. n
    BY <1>1
  <2>2. \A p \in Part : h2[s][p] = e
    BY <1>1, <1>3, <1>4, <2>1
  <2>3. \A j \in 1 .. n - 1 : ~ Decodes(r[j], s)
    BY <1>2, <1>4
  <2> QED
    BY <2>2, <2>3 DEF Decoded, h2, c, r
<1>5. CASE \E i \in 1 .. n : /\ Decodes(q[i], s) /\ q[i].expert = e
                             /\ \A j \in 1 .. n : i < j => ~ Decodes(q[j], s)
  <2>1. PICK i \in 1 .. n : /\ Decodes(q[i], s) /\ q[i].expert = e
                            /\ \A j \in 1 .. n : i < j => ~ Decodes(q[j], s)
    BY <1>5
  <2>2. \A j \in 1 .. n - 1 : i < j + 1 => ~ Decodes(r[j], s)
    BY <1>2, <2>1
  <2>3. CASE i = 1
    <3>1. \A p \in Part : h2[s][p] = e
      BY <1>1, <1>3, <2>1, <2>3
    <3>2. \A j \in 1 .. n - 1 : ~ Decodes(r[j], s)
      BY <1>1, <2>2, <2>3
    <3> QED
      BY <3>1, <3>2 DEF Decoded, h2, c, r
  <2>4. CASE i # 1
    <3>1. i - 1 \in 1 .. n - 1 /\ r[i - 1] = q[i]
      BY <1>1, <2>4
    <3>2. \A j \in 1 .. n - 1 : i - 1 < j => ~ Decodes(r[j], s)
      BY <1>1, <2>2
    <3>3. Decoded(h2, r, n - 1, s, e)
      BY <2>1, <3>1, <3>2 DEF Decoded
    <3> QED
      BY <3>3 DEF h2, c, r
  <2> QED
    BY <2>3, <2>4
<1> QED
  BY <1>4, <1>5 DEF Decoded

(* A new operation, and what it makes of the tables.                       *)
LEMMA LaunchKeepsDecodes ==
  ASSUME BookInv, DecodeInv, NEW op \in AnsOps, current' = Append(current, op),
         UNCHANGED <<held, dma, behind, misread>>,
         \/ /\ op.op = "product" /\ expertSlot' = expertSlot /\ expertSlot[op.expert] = op.slot
         \/ /\ op.op = "decode"
            /\ expertSlot' = [x \in Expert |-> IF x = op.expert THEN op.slot
                                 ELSE IF expertSlot[x] = op.slot THEN None ELSE expertSlot[x]]
  PROVE  DecodeInv'
<1>1. /\ Len(current) \in Nat /\ DOMAIN current = 1 .. Len(current) /\ current \in Seq(AnsOps)
      /\ current' \in Seq(AnsOps) /\ Len(current') = Len(current) + 1
      /\ DOMAIN current' = 1 .. Len(current) + 1
      /\ \A i \in 1 .. Len(current) : current'[i] = current[i]
      /\ current'[Len(current) + 1] = op
  BY LenProperties, AppendProperties DEF DecodeInv, AnsOps
<1>2. op.slot \in Slot /\ op.expert \in Expert
  BY DEF AnsOps, Ops
<1>3. Len(current) \in 0 .. Len(current)
  BY <1>1
<1>4. ASSUME NEW x \in Expert, expertSlot'[x] # None
      PROVE  Decoded(held', current', Len(current'), expertSlot'[x], x)
  <2>1. CASE op.op = "decode" /\ x = op.expert
    <3>1. expertSlot'[x] = op.slot /\ Decodes(op, op.slot)
      BY <2>1 DEF Decodes
    <3> QED
      BY <1>1, <2>1, <3>1, DecodedThis
  <2>2. CASE ~ (op.op = "decode" /\ x = op.expert)
    <3>1. expertSlot'[x] = expertSlot[x] /\ ~ Decodes(op, expertSlot[x])
      BY <1>4, <2>2 DEF Decodes
    <3>2. Decoded(held, current, Len(current), expertSlot[x], x)
      BY <1>4, <3>1 DEF DecodeInv, Resident
    <3> QED
      BY <1>1, <1>3, <3>1, <3>2, DecodedAppend
  <2> QED
    BY <2>1, <2>2
<1>5. ASSUME NEW i \in DOMAIN current', current'[i].op = "product"
      PROVE  Decoded(held', current', i - 1, current'[i].slot, current'[i].expert)
  <2>1. CASE i = Len(current) + 1
    <3>1. current'[i] = op /\ op.op = "product" /\ i - 1 = Len(current)
      BY <1>1, <1>5, <2>1
    <3>2. Decoded(held, current, Len(current), op.slot, op.expert)
      BY <1>2, <3>1, SlotFacts DEF DecodeInv, Resident
    <3> QED
      BY <1>1, <1>3, <3>1, <3>2, DecodedAppend
  <2>2. CASE i # Len(current) + 1
    <3>1. i \in DOMAIN current /\ current'[i] = current[i] /\ i - 1 \in 0 .. Len(current)
      BY <1>1, <2>2
    <3>2. Decoded(held, current, i - 1, current[i].slot, current[i].expert)
      BY <1>5, <3>1 DEF DecodeInv
    <3> QED
      BY <1>1, <3>1, <3>2, DecodedAppend
  <2> QED
    BY <2>1, <2>2
<1> QED
  BY <1>1, <1>4, <1>5 DEF DecodeInv, AnsOps, Resident

(* Decoding an expert into the oldest slot.                                *)
LEMMA TakenDecodes ==
  ASSUME BookInv, DecodeInv, config.movement = "ans", config' = config,
         UNCHANGED <<held, behind, misread>>, lru # << >>,
         NEW e \in Expert, ~ Resident(e), TakeOldest(e)
  PROVE  DecodeInv'
<1>1. Injective(lru) /\ ToSet(lru) = Slot /\ lru \in Seq(Slot)
  BY DEF BookInv, Queued, RanDry
<1>2. /\ Head(lru) \in Slot
      /\ expertSlot' = [x \in Expert |-> IF x = e THEN Head(lru)
                             ELSE IF expertSlot[x] = Head(lru) THEN None ELSE expertSlot[x]]
  BY <1>1, TakeKeeps DEF BookInv
<1> DEFINE op == [op |-> "decode", slot |-> Head(lru), expert |-> e, after |-> behind, fit |-> Fits]
<1>3. current' = Append(current, op) /\ dma' = dma
  BY DEF TakeOldest, Launch
<1>4. op \in AnsOps /\ op.op = "decode" /\ op.slot = Head(lru) /\ op.expert = e
  BY <1>2 DEF AnsOps, Ops, Fits, DecodeInv
<1> HIDE DEF op
<1> QED
  BY <1>2, <1>3, <1>4, LaunchKeepsDecodes

(* Every step keeps it.                                                    *)
LEMMA DecodesKept ==
  ASSUME BookInv, DecodeInv, config.movement = "ans", [SlotNext]_slotVars
  PROVE  DecodeInv'
<1>1. CASE \/ Probe \/ NoProbe \/ PrefetchFails \/ PrefetchEnds \/ Route \/ TouchHit \/ HitsTouched
           \/ NothingMissing \/ CountTokens \/ ForwardReturns \/ MissingLoaded
           \/ UNCHANGED slotVars
  <2>1. UNCHANGED <<expertSlot, held, dma, current, behind, misread>>
    BY <1>1 DEF Probe, NoProbe, PrefetchFails, PrefetchEnds, Route, TouchHit, HitsTouched,
         NothingMissing, CountTokens, ForwardReturns, MissingLoaded, slotVars, books, device
  <2> QED
    BY <2>1 DEF DecodeInv, Resident
<1>2. CASE DmaStep
  BY <1>2 DEF DmaStep, DecodeInv
<1>3. ASSUME NEW e \in Expert, PrefetchOne(e) PROVE DecodeInv'
  <2>1. ~ Resident(e) /\ lru # << >>
    <3>1. host = "prefetch" /\ e \in todo /\ ~ RunsDry
      BY <1>3 DEF PrefetchOne
    <3>2. IsFiniteSet(todo)
      BY SlotAssumption, FS_Subset DEF BookInv
    <3>3. Cardinality(todo) \in Nat /\ Cardinality(todo) # 0
      BY <3>1, <3>2, FS_CardinalityType, FS_EmptySet
    <3>4. lru = << >> => Len(lru) = 0
      BY EmptySeq
    <3> QED
      BY <3>1, <3>3, <3>4 DEF BookInv, Progress, RunsDry
  <2> QED
    BY <1>3, <2>1, TakenDecodes DEF PrefetchOne
<1>4. ASSUME NEW e \in Expert, StageOne(e) PROVE DecodeInv'
  BY <1>4 DEF StageOne
<1>5. CASE LoadMissing
  <2> DEFINE e == First(todo)
  <2>1. /\ host = "missing" /\ e \in todo /\ e \in Expert /\ ~ Resident(e) /\ config' = config
        /\ ~ IsStaged(e)
    BY <1>5, FirstIn DEF LoadMissing, BookInv, Progress, IsStaged
  <2>2. IF Unavailable THEN UNCHANGED <<books, device>>
        ELSE TakeOldest(e) /\ UNCHANGED <<held, misread, behind>>
    BY <1>5, <2>1 DEF LoadMissing
  <2> HIDE DEF e
  <2> QED
    BY <2>1, <2>2, TakenDecodes DEF Unavailable, DecodeInv, Resident, books, device
<1>6. CASE LoadOnTheSpot
  <2> DEFINE e == First(todo)
  <2>1. /\ host = "compute" /\ e \in todo /\ e \in Expert /\ ~ Resident(e) /\ config' = config
        /\ IF Unavailable THEN UNCHANGED <<books, device>>
           ELSE TakeOldest(e) /\ UNCHANGED <<held, misread, behind>>
    BY <1>6, FirstIn DEF LoadOnTheSpot, BookInv
  <2> HIDE DEF e
  <2> QED
    BY <2>1, TakenDecodes DEF Unavailable, DecodeInv, Resident, books, device
<1>7. CASE ComputeResident
  <2> DEFINE e == First(todo)
             s == expertSlot[e]
             op == [op |-> "product", slot |-> s, expert |-> e, after |-> behind, fit |-> Fits]
  <2>1. /\ host = "compute" /\ e \in Expert /\ Resident(e)
        /\ UNCHANGED <<expertSlot, held, dma, behind, misread>>
        /\ current' = current \/ current' = Append(current, op)
    BY <1>7, FirstIn DEF ComputeResident, BookInv, Launch
  <2>2. s \in Slot
    BY <2>1 DEF BookInv, Tables, TableTypes, Resident
  <2>3. op \in AnsOps /\ op.op = "product" /\ op.slot = s /\ op.expert = e
    BY <2>1, <2>2 DEF AnsOps, Ops, Fits, DecodeInv
  <2> HIDE DEF op
  <2>4. CASE current' = Append(current, op)
    <3>1. expertSlot[op.expert] = op.slot
      BY <2>3
    <3> QED
      BY <2>1, <2>3, <2>4, <3>1, LaunchKeepsDecodes
  <2>5. CASE current' = current
    BY <2>1, <2>5 DEF DecodeInv, Resident
  <2> QED
    BY <2>1, <2>4, <2>5
<1>8. CASE CurrentStep
  <2> DEFINE op == Head(current)
  <2>1. /\ current # << >> /\ current' = Tail(current)
        /\ UNCHANGED <<config, expertSlot, dma, behind>>
    BY <1>8 DEF CurrentStep, books
  <2>2. /\ Len(current) \in Nat \ {0} /\ DOMAIN current = 1 .. Len(current) /\ current \in Seq(AnsOps)
        /\ current' \in Seq(AnsOps) /\ DOMAIN current' = 1 .. Len(current) - 1
        /\ Len(current') = Len(current) - 1
        /\ \A i \in 1 .. Len(current) - 1 : current'[i] = current[i + 1]
        /\ op = current[1] /\ op \in AnsOps /\ 1 \in DOMAIN current
    BY <2>1, LenProperties, EmptySeq, HeadTailProperties DEF DecodeInv, AnsOps
  <2>3. held' = Performed(held, op)
    BY <1>8 DEF CurrentStep, Performed
  <2>4. op.op = "product" => \A p \in Part : held[op.slot][p] = op.expert
    <3>1. \A i \in 1 .. 1 - 1 : FALSE
      OBVIOUS
    <3> QED
      BY <2>2, <3>1 DEF DecodeInv, Decoded
  <2>5. misread' = misread
    BY <1>8, <2>2, <2>4, ReadParts DEF CurrentStep, AnsOps, Ops
  <2> HIDE DEF op
  <2>6. held' \in Weights
    BY <2>2, <2>3 DEF DecodeInv, Performed, Weights, AnsOps, Ops
  <2>7. ASSUME NEW x \in Expert, Resident(x)
        PROVE  Decoded(held', current', Len(current'), expertSlot[x], x)
    <3>1. Decoded(held, current, Len(current), expertSlot[x], x) /\ expertSlot[x] \in Slot
      BY <2>7 DEF DecodeInv, BookInv, Tables, TableTypes, Resident
    <3>2. Len(current) \in 1 .. Len(current)
      BY <2>2
    <3>3. Decoded(Performed(held, Head(current)), Tail(current), Len(current) - 1, expertSlot[x], x)
      BY <2>1, <2>2, <3>1, <3>2, DecodedPerformed DEF DecodeInv
    <3> QED
      BY <2>1, <2>2, <2>3, <3>3 DEF op
  <2>8. ASSUME NEW i \in DOMAIN current', current'[i].op = "product"
        PROVE  Decoded(held', current', i - 1, current'[i].slot, current'[i].expert)
    <3>1. i + 1 \in DOMAIN current /\ current'[i] = current[i + 1] /\ i \in 1 .. Len(current)
          /\ (i + 1) - 1 = i
      BY <2>2
    <3>2. Decoded(held, current, i, current[i + 1].slot, current[i + 1].expert)
      BY <2>8, <3>1 DEF DecodeInv
    <3>3. current[i + 1].slot \in Slot
      <4>1. current[i + 1] \in AnsOps
        BY <2>2, <3>1, ElementOfSeq
      <4> QED
        BY <4>1 DEF AnsOps, Ops
    <3>4. Decoded(Performed(held, Head(current)), Tail(current), i - 1,
                  current[i + 1].slot, current[i + 1].expert)
      BY <2>1, <2>2, <3>1, <3>2, <3>3, DecodedPerformed DEF DecodeInv
    <3> QED
      BY <2>1, <2>3, <3>1, <3>4 DEF op
  <2> QED
    BY <2>1, <2>2, <2>5, <2>6, <2>7, <2>8 DEF DecodeInv, AnsOps, Resident
<1> QED
  BY <1>1, <1>2, <1>3, <1>4, <1>5, <1>6, <1>7, <1>8 DEF SlotNext

(* Nothing is decoded at the start.                                        *)
LEMMA DecodesStart == SlotInit => DecodeInv
<1> SUFFICES ASSUME SlotInit PROVE DecodeInv
  OBVIOUS
<1>1. held \in Weights /\ current \in Seq(AnsOps) /\ DOMAIN current = {}
  BY DEF SlotInit, Weights
<1> QED
  BY <1>1 DEF SlotInit, DecodeInv, Resident, AnsOps

(* The invariant of the slots holds at the start,                          *)
LEMMA SlotInvStarts == SlotInit => SlotInv
BY SlotStarts, FlowStarts, DecodesStart DEF SlotInv

(* the flags are never changed,                                            *)
LEMMA ConfigStays == [SlotNext]_slotVars => config' = config
BY DEF SlotNext, slotVars, DmaStep, CurrentStep, Probe, NoProbe, PrefetchFails, PrefetchEnds,
       PrefetchOne, StageOne, Route, TouchHit, HitsTouched, LoadMissing, MissingLoaded,
       NothingMissing, CountTokens, ComputeResident, LoadOnTheSpot, ForwardReturns

(* every step keeps it,                                                    *)
LEMMA SlotInvKeeps ==
  ASSUME SlotInv, [SlotNext]_slotVars
  PROVE  SlotInv'
<1>1. config' = config
  BY ConfigStays
<1>2. BookInv'
  BY BooksKept DEF SlotInv
<1>3. config'.movement = "ans" => DecodeInv'
  BY <1>1, DecodesKept DEF SlotInv
<1>4. Plain' /\ config'.movement # "ans" => CopyInv'
  <2>1. Plain' <=> Plain
    BY <1>1 DEF Plain
  <2> QED
    BY <1>1, <2>1, FlowKept DEF SlotInv
<1> QED
  BY <1>2, <1>3, <1>4 DEF SlotInv

(* and it says what the runs check of the slots.                           *)
LEMMA SlotInvSuffices == SlotInv => BooksAgree /\ DecodeExact
<1>1. SlotInv => BooksAgree
  BY BookInvSuffices DEF SlotInv
<1>2. SlotInv => DecodeExact
  BY DEF SlotInv, DecodeExact, CopyInv, DecodeInv, Plain
<1> QED
  BY <1>1, <1>2

(***************************************************************************)
(* The column directory                                                    *)
(***************************************************************************)

(* The columns of an expert of which those in P were touched last: at most *)
(* as many stay as there are slots, those of P first.                      *)
LEMMA OldestLeave ==
  ASSUME NEW owned, IsFiniteSet(owned), NEW e, NEW C \in SUBSET Nat, owned \subseteq {e} \X C,
         NEW stamp, \A k \in owned : stamp[k] \in Nat,
         NEW P \in SUBSET owned, \A k \in P, j \in owned \ P : stamp[j] < stamp[k]
  PROVE  LET kept == owned \ Oldest(owned, stamp)
         IN  /\ Cardinality(kept) <= SlotsPerExpert
             /\ Cardinality(P) <= SlotsPerExpert => P \subseteq kept
             /\ Cardinality(P) > SlotsPerExpert =>
                  kept \subseteq P /\ Cardinality(kept) = SlotsPerExpert
<1> DEFINE below == Before(owned, stamp)
           n == Cardinality(owned)
           old == Oldest(owned, stamp)
<1>1. n \in Nat /\ SlotsPerExpert \in Nat
  BY FS_CardinalityType, DirectoryAssumption
<1>2. \A k \in owned : k = <<e, k[2]>> /\ k[2] \in Nat
  <2> SUFFICES ASSUME NEW k \in owned PROVE k = <<e, k[2]>> /\ k[2] \in Nat
    OBVIOUS
  <2>1. k = <<k[1], k[2]>> /\ k[1] = e /\ k[2] \in C
    <3>1. k \in {e} \X C
      OBVIOUS
    <3> QED
      BY <3>1
  <2> QED
    BY <2>1
<1>3. /\ below \in [owned -> SUBSET owned]
      /\ \A j, k \in owned : j \in below[k] <=> Older(stamp, j, k)
  BY DEF Before
<1>4. /\ \A k \in owned : k \notin below[k]
      /\ \A j, k \in owned : j \in below[k] => below[j] \subseteq below[k]
      /\ \A j, k \in owned : j \in below[k] \/ k \in below[j] \/ j = k
  <2>1. \A k \in owned : ~ Older(stamp, k, k)
    BY <1>2 DEF Older
  <2>2. \A i, j, k \in owned : Older(stamp, i, j) /\ Older(stamp, j, k) => Older(stamp, i, k)
    BY <1>2 DEF Older
  <2>3. \A j, k \in owned : Older(stamp, j, k) \/ Older(stamp, k, j) \/ j = k
    <3> SUFFICES ASSUME NEW j \in owned, NEW k \in owned, ~ Older(stamp, j, k), ~ Older(stamp, k, j)
                 PROVE  j = k
      OBVIOUS
    <3>1. j[2] = k[2]
      BY <1>2 DEF Older
    <3> QED
      BY <1>2, <3>1
  <2> QED
    BY <1>3, <2>1, <2>2, <2>3
<1>5. old = {k \in owned : Cardinality(below[k]) < n - SlotsPerExpert}
  BY DEF Oldest
<1>6. \A k \in owned : IsFiniteSet(below[k]) /\ Cardinality(below[k]) \in Nat
  BY <1>3, FS_Subset, FS_CardinalityType
<1>7. IsFiniteSet(old) /\ Cardinality(old) = IF n > SlotsPerExpert THEN n - SlotsPerExpert ELSE 0
  <2>1. CASE n > SlotsPerExpert
    <3>1. n - SlotsPerExpert \in 0 .. n
      BY <1>1, <2>1
    <3>2. old \in SUBSET owned
      BY <1>5
    <3> HIDE DEF n, below, old
    <3>3. Cardinality({k \in owned : Cardinality(below[k]) < n - SlotsPerExpert}) = n - SlotsPerExpert
      BY <1>3, <1>4, <3>1, Ranks DEF n
    <3> QED
      BY <1>5, <2>1, <3>2, <3>3, FS_Subset
  <2>2. CASE ~ (n > SlotsPerExpert)
    <3>1. old = {}
      <4> HIDE DEF n, below, old
      <4> QED
        BY <1>1, <1>5, <1>6, <2>2
    <3> HIDE DEF old
    <3> QED
      BY <2>2, <3>1, FS_EmptySet
  <2> QED
    BY <2>1, <2>2
<1> DEFINE kept == owned \ old
<1>8. Cardinality(kept) = IF n > SlotsPerExpert THEN SlotsPerExpert ELSE n
  <2>1. old \in SUBSET owned /\ owned \cap old = old
    BY <1>5
  <2>2. Cardinality(kept) = n - Cardinality(old)
    BY <2>1, FS_Difference
  <2> HIDE DEF n, old, kept
  <2> QED
    BY <1>1, <1>7, <2>2
<1>9. /\ IsFiniteSet(P) /\ Cardinality(P) \in Nat /\ Cardinality(P) <= n
      /\ IsFiniteSet(owned \ P) /\ Cardinality(owned \ P) = n - Cardinality(P)
  <2>1. owned \cap P = P
    OBVIOUS
  <2>2. IsFiniteSet(P) /\ Cardinality(P) <= n
    BY FS_Subset
  <2>3. Cardinality(P) \in Nat
    BY <2>2, FS_CardinalityType
  <2>4. IsFiniteSet(owned \ P) /\ Cardinality(owned \ P) = n - Cardinality(P)
    BY <2>1, FS_Difference
  <2> QED
    BY <2>2, <2>3, <2>4
<1>10. Cardinality(P) <= SlotsPerExpert => P \subseteq kept
  <2> SUFFICES ASSUME Cardinality(P) <= SlotsPerExpert, NEW k \in P PROVE k \notin old
    OBVIOUS
  <2>1. owned \ P \in SUBSET below[k]
    BY <1>3 DEF Older
  <2>2. Cardinality(owned \ P) <= Cardinality(below[k])
    BY <1>6, <2>1, FS_Subset
  <2>3. Cardinality(below[k]) \in Nat
    BY <1>6
  <2> HIDE DEF n, below, old
  <2> QED
    BY <1>1, <1>5, <1>9, <2>2, <2>3
<1>11. Cardinality(P) > SlotsPerExpert => kept \subseteq P
  <2> SUFFICES ASSUME Cardinality(P) > SlotsPerExpert, NEW k \in owned \ P PROVE k \in old
    OBVIOUS
  <2>1. below[k] \in SUBSET (owned \ P)
    <3>1. \A j \in P : stamp[j] \in Nat /\ stamp[k] \in Nat /\ stamp[k] < stamp[j]
      OBVIOUS
    <3>2. \A j \in P : ~ Older(stamp, j, k)
      BY <3>1 DEF Older
    <3> QED
      BY <1>3, <3>2
  <2>2. Cardinality(below[k]) <= Cardinality(owned \ P) /\ (Cardinality(owned \ P) = Cardinality(below[k]) => owned \ P = below[k])
    BY <1>9, <2>1, FS_Subset
  <2>3. Cardinality(below[k]) \in Nat /\ k \notin below[k]
    BY <1>4, <1>6
  <2> HIDE DEF n, below, old
  <2> QED
    BY <1>1, <1>5, <1>9, <2>2, <2>3
<1> HIDE DEF n, kept
<1> QED
  BY <1>1, <1>8, <1>9, <1>10, <1>11 DEF kept

(* The columns of one expert among R.                                      *)
Owned(R, e) == {k \in R : k[1] = e}
(* What the directory holds of a plan p.                                   *)
HoldsOf(R, p) ==
  \A e \in DOMAIN p :
    IF Cardinality(p[e]) <= SlotsPerExpert
    THEN {e} \X p[e] \subseteq R
    ELSE Owned(R, e) \subseteq {e} \X p[e] /\ Cardinality(Owned(R, e)) = SlotsPerExpert

(* The directory is stamped with ticks that have passed, and no expert has *)
(* more columns than slots.                                                *)
DirTables ==
  /\ resident \subseteq DirExperts \X DirColumns
  /\ tick \in Nat /\ DOMAIN stamps = resident
  /\ \A k \in resident : stamps[k] \in Nat /\ stamps[k] <= tick
  /\ \A e \in DirExperts : Cardinality(Owned(resident, e)) <= SlotsPerExpert

(* A plan asks for columns the experts have.                               *)
PlanTyped(p) == DOMAIN p \subseteq DirExperts /\ \A e \in DOMAIN p : p[e] \subseteq DirColumns

(* The invariant of the directory: it holds what the last plan asked for,  *)
(* as far as the slots go, and an execution splits the columns into the    *)
(* cached and the missed.                                                  *)
DirInv ==
  /\ DirTables /\ PlanTyped(plan) /\ HoldsOf(resident, plan)
  /\ split # <<>> => split.cached \cup split.missed = DirColumns /\ split.cached \cap split.missed = {}

(* An element of a product is the pair of its coordinates.                 *)
LEMMA AsPair ==
  ASSUME NEW A, NEW B, NEW k \in A \X B
  PROVE  k = <<k[1], k[2]>> /\ k[1] \in A /\ k[2] \in B
OBVIOUS

(* A packet plan, trimmed or not, asks for columns the experts have.       *)
LEMMA PlansTyped ==
  ASSUME NEW p \in Plans
  PROVE  PlanTyped(p)
<1>1. PICK r \in Rankings : p \in Trimmed(r)
  BY DEF Plans
<1> DEFINE packet == PlanFixedPackets(r, Preset)
           N == Cardinality(DirExperts)
<1>2. p \in [DOMAIN packet -> SUBSET DirColumns]
  BY <1>1 DEF Trimmed
<1>3. DOMAIN packet \subseteq DirExperts
  <2>1. r \in [1 .. N -> DirExperts] /\ N \in Nat
    BY DirectoryAssumption, FS_CardinalityType DEF Rankings
  <2>2. r \in Seq(DirExperts)
    BY <2>1, SeqDef
  <2>3. Len(r) \in Nat /\ Len(Preset) \in Nat /\ \A i \in 1 .. Len(r) : r[i] \in DirExperts
    BY <2>2, DirectoryAssumption, LenProperties, ElementOfSeq
  <2> DEFINE n == IF Len(r) < Len(Preset) THEN Len(r) ELSE Len(Preset)
  <2>4. \A k \in 1 .. n : r[k] \in DirExperts
    BY <2>3
  <2>5. DOMAIN packet = {r[k] : k \in 1 .. n}
    BY DEF PlanFixedPackets
  <2> QED
    BY <2>4, <2>5
<1> QED
  BY <1>2, <1>3 DEF PlanTyped

(* After a commit the directory holds the plan. An expert's oldest columns *)
(* leave: those the plan touched are younger than all others, so others    *)
(* leave before any of them does, and of a plan with more columns than     *)
(* slots as many stay as there are slots.                                  *)
LEMMA CommitKeeps ==
  ASSUME DirTables, NEW p, PlanTyped(p), Commit(p)
  PROVE  DirTables' /\ PlanTyped(plan') /\ HoldsOf(resident', plan')
<1> DEFINE touched == resident \cup Pairs(p)
           stamp == [k \in touched |-> IF k \in Pairs(p) THEN tick + 1 ELSE stamps[k]]
           own(e) == Owned(touched, e)
           old(e) == Oldest(own(e), stamp)
           evicted == UNION {old(e) : e \in DOMAIN p}
<1>1. /\ resident' = touched \ evicted /\ stamps' = [k \in touched \ evicted |-> stamp[k]]
      /\ tick' = tick + 1 /\ plan' = p
  BY DEF Commit, Owned
<1>2. \A k : k \in Pairs(p) <=> \E e \in DOMAIN p : k \in {e} \X p[e]
  BY DEF Pairs
<1>3. touched \subseteq DirExperts \X DirColumns
  <2> SUFFICES ASSUME NEW k \in Pairs(p) PROVE k \in DirExperts \X DirColumns
    BY DEF DirTables
  <2>1. PICK e \in DOMAIN p : k \in {e} \X p[e]
    BY <1>2
  <2> QED
    BY <2>1, AsPair DEF PlanTyped
<1>4. \A k \in touched : stamp[k] \in Nat /\ stamp[k] <= tick + 1
  BY DEF DirTables
<1> HIDE DEF stamp
<1>5. ASSUME NEW e \in DirExperts
      PROVE  IsFiniteSet(own(e)) /\ own(e) \subseteq {e} \X DirColumns
  <2>1. own(e) \subseteq {e} \X DirColumns
    <3> SUFFICES ASSUME NEW k \in own(e) PROVE k \in {e} \X DirColumns
      OBVIOUS
    <3>1. k \in DirExperts \X DirColumns /\ k[1] = e
      BY <1>3 DEF Owned
    <3> QED
      BY <3>1, AsPair
  <2>2. IsFiniteSet({e} \X DirColumns)
    BY DirectoryAssumption, FS_Singleton, FS_Product
  <2> QED
    BY <2>1, <2>2, FS_Subset
<1>6. \A e \in DOMAIN p : old(e) \subseteq own(e)
  BY DEF Oldest
<1> HIDE DEF old, touched
<1>7. ASSUME NEW e \in DOMAIN p
      PROVE  Owned(resident', e) = own(e) \ old(e)
  <2>1. ASSUME NEW k \in own(e), k \in evicted PROVE k \in old(e)
    <3>1. PICK d \in DOMAIN p : k \in old(d)
      BY <2>1
    <3>2. k[1] = d /\ k[1] = e
      BY <1>6, <3>1 DEF Owned
    <3> QED
      BY <3>1, <3>2
  <2>2. old(e) \subseteq evicted
    OBVIOUS
  <2> HIDE DEF evicted
  <2> QED
    BY <1>1, <2>1, <2>2 DEF Owned
<1>8. ASSUME NEW e \in DirExperts, e \notin DOMAIN p
      PROVE  Owned(resident', e) = Owned(resident, e)
  <2>1. ASSUME NEW k \in own(e) PROVE k \notin evicted /\ k \in resident
    <3>1. k[1] = e
      BY DEF Owned
    <3>2. \A d \in DOMAIN p : k \notin old(d)
      BY <1>6, <1>8, <3>1 DEF Owned
    <3>3. k \notin Pairs(p)
      <4> SUFFICES ASSUME NEW d \in DOMAIN p, k \in {d} \X p[d] PROVE FALSE
        BY <1>2
      <4>1. k[1] = d
        BY AsPair
      <4> QED
        BY <1>8, <3>1, <4>1
    <3>4. k \in touched
      BY DEF Owned
    <3> QED
      BY <3>2, <3>3, <3>4 DEF touched
  <2>2. \A k \in Owned(resident, e) : k \in own(e)
    BY DEF Owned, touched
  <2> HIDE DEF evicted
  <2>3. \A k : k \in Owned(resident', e) <=> k \in own(e)
    BY <1>1, <2>1 DEF Owned
  <2>4. \A k : k \in Owned(resident, e) <=> k \in own(e)
    BY <2>1, <2>2 DEF Owned
  <2> QED
    BY <2>3, <2>4
<1>9. ASSUME NEW e \in DOMAIN p
      PROVE  LET kept == Owned(resident', e)
             IN  /\ Cardinality(kept) <= SlotsPerExpert
                 /\ Cardinality(p[e]) <= SlotsPerExpert => {e} \X p[e] \subseteq kept
                 /\ Cardinality(p[e]) > SlotsPerExpert =>
                      kept \subseteq {e} \X p[e] /\ Cardinality(kept) = SlotsPerExpert
  <2> DEFINE P == {e} \X p[e]
  <2>1. e \in DirExperts /\ p[e] \in SUBSET DirColumns /\ IsFiniteSet(DirColumns)
    BY DirectoryAssumption DEF PlanTyped
  <2>2. P \subseteq Pairs(p) /\ P \in SUBSET own(e)
    <3>1. \A k \in P : k[1] = e /\ k \in Pairs(p)
      BY <1>2, AsPair
    <3> QED
      BY <3>1 DEF Owned, touched
  <2>3. ASSUME NEW k \in P, NEW j \in own(e) \ P PROVE stamp[j] < stamp[k]
    <3>1. k \in touched /\ j \in touched /\ k \in Pairs(p)
      BY <2>2 DEF Owned
    <3>2. j \notin Pairs(p)
      <4> SUFFICES ASSUME NEW d \in DOMAIN p, j \in {d} \X p[d] PROVE FALSE
        BY <1>2
      <4>1. j[1] = d /\ j[1] = e
        BY AsPair DEF Owned
      <4> QED
        BY <2>3, <4>1
    <3>3. j \in resident
      BY <3>1, <3>2 DEF touched
    <3>4. stamp[k] = tick + 1 /\ stamp[j] = stamps[j]
      BY <3>1, <3>2 DEF stamp
    <3> QED
      BY <3>3, <3>4 DEF DirTables
  <2>4. Cardinality(P) = Cardinality(p[e])
    <3>1. IsFiniteSet(p[e]) /\ IsFiniteSet({e}) /\ Cardinality({e}) = 1
      BY <2>1, FS_Subset, FS_Singleton
    <3>2. Cardinality(P) = 1 * Cardinality(p[e]) /\ Cardinality(p[e]) \in Nat
      BY <3>1, FS_Product, FS_CardinalityType
    <3> QED
      BY <3>2
  <2>5. \A k \in own(e) : stamp[k] \in Nat
    BY <1>4 DEF Owned
  <2> HIDE DEF P, own
  <2>6. LET kept == own(e) \ old(e)
        IN  /\ Cardinality(kept) <= SlotsPerExpert
            /\ Cardinality(P) <= SlotsPerExpert => P \subseteq kept
            /\ Cardinality(P) > SlotsPerExpert => kept \subseteq P /\ Cardinality(kept) = SlotsPerExpert
    <3>1. IsFiniteSet(own(e)) /\ own(e) \subseteq {e} \X DirColumns /\ DirColumns \in SUBSET Nat
      BY <1>5, <2>1, DirectoryAssumption
    <3> QED
      BY <2>2, <2>3, <2>5, <3>1, OldestLeave DEF old
  <2> QED
    BY <1>7, <2>4, <2>6 DEF P
<1>10. HoldsOf(resident', plan')
  <2> SUFFICES ASSUME NEW e \in DOMAIN p
               PROVE  IF Cardinality(p[e]) <= SlotsPerExpert
                      THEN {e} \X p[e] \subseteq resident'
                      ELSE /\ Owned(resident', e) \subseteq {e} \X p[e]
                           /\ Cardinality(Owned(resident', e)) = SlotsPerExpert
    BY <1>1 DEF HoldsOf
  <2>1. IsFiniteSet(p[e])
    BY DirectoryAssumption, FS_Subset DEF PlanTyped
  <2>2. Cardinality(p[e]) \in Nat /\ SlotsPerExpert \in Nat
    BY <2>1, FS_CardinalityType, DirectoryAssumption
  <2>3. Owned(resident', e) \subseteq resident'
    BY DEF Owned
  <2> QED
    BY <1>9, <2>2, <2>3
<1>11. DirTables'
  <2>1. resident' \subseteq DirExperts \X DirColumns
    BY <1>1, <1>3
  <2>2. tick' \in Nat /\ DOMAIN stamps' = resident'
    BY <1>1 DEF DirTables
  <2>3. \A k \in resident' : stamps'[k] \in Nat /\ stamps'[k] <= tick'
    BY <1>1, <1>4
  <2>4. \A e \in DirExperts : Cardinality(Owned(resident', e)) <= SlotsPerExpert
    BY <1>8, <1>9 DEF DirTables
  <2> QED
    BY <2>1, <2>2, <2>3, <2>4 DEF DirTables
<1> QED
  BY <1>1, <1>10, <1>11

(* The invariant of the directory holds at the start,                      *)
LEMMA DirStarts == DirInit => DirInv
<1> SUFFICES ASSUME DirInit PROVE DirInv
  OBVIOUS
<1>1. DOMAIN stamps = {} /\ DOMAIN plan = {} /\ resident = {} /\ tick = 0 /\ split = <<>>
  BY DEF DirInit
<1>2. \A e : Owned(resident, e) = {}
  BY <1>1 DEF Owned
<1>3. Cardinality({}) = 0
  BY FS_EmptySet
<1>4. DirTables
  <2>1. ASSUME NEW e \in DirExperts PROVE Cardinality(Owned(resident, e)) <= SlotsPerExpert
    <3>1. Cardinality(Owned(resident, e)) = 0
      BY <1>2, <1>3, Zenon
    <3> QED
      BY <3>1, DirectoryAssumption
  <2>2. resident \subseteq DirExperts \X DirColumns /\ tick \in Nat /\ DOMAIN stamps = resident
    BY <1>1
  <2> QED
    BY <2>1, <2>2, <1>1 DEF DirTables
<1>5. PlanTyped(plan) /\ HoldsOf(resident, plan)
  BY <1>1 DEF PlanTyped, HoldsOf
<1> QED
  BY <1>1, <1>4, <1>5 DEF DirInv

(* every step keeps it,                                                    *)
LEMMA DirKeeps ==
  ASSUME DirInv, [DirNext]_dirVars
  PROVE  DirInv'
<1>1. ASSUME NEW p \in Plans, CommitPlan(p) PROVE DirInv'
  <2>1. Commit(p) /\ split' = split
    BY <1>1 DEF CommitPlan
  <2> QED
    BY <2>1, PlansTyped, CommitKeeps DEF DirInv
<1>2. ASSUME NEW p \in Plans, PredictFor(p) PROVE DirInv'
  <2>1. UNCHANGED <<resident, stamps, tick, plan, split>>
    BY <1>2 DEF PredictFor
  <2> QED
    BY <2>1 DEF DirInv, DirTables
<1>3. ASSUME NEW e \in DirExperts, ExecuteExpert(e) PROVE DirInv'
  <2> DEFINE p == [d \in {e} |-> Cached(e)]
  <2>1. Commit(p) /\ split' = [expert |-> e, cached |-> Cached(e), missed |-> Missed(e)]
    BY <1>3 DEF ExecuteExpert
  <2>2. Cached(e) \subseteq DirColumns
    BY DEF Cached
  <2>3. PlanTyped(p)
    BY <2>2 DEF PlanTyped
  <2> HIDE DEF p
  <2>4. DirTables' /\ PlanTyped(plan') /\ HoldsOf(resident', plan')
    BY <2>1, <2>3, CommitKeeps DEF DirInv
  <2>5. split'.cached \cup split'.missed = DirColumns /\ split'.cached \cap split'.missed = {}
    BY <2>1, <2>2 DEF Missed
  <2> QED
    BY <2>4, <2>5 DEF DirInv
<1>4. CASE UNCHANGED dirVars
  BY <1>4 DEF dirVars, DirInv, DirTables
<1> QED
  BY <1>1, <1>2, <1>3, <1>4 DEF DirNext

(* and it says what the run checks of the directory.                       *)
LEMMA DirInvSuffices == DirInv => DirectoryHolds
<1> SUFFICES ASSUME DirInv PROVE DirectoryHolds
  OBVIOUS
<1>1. SlotsPerExpert \in Nat /\ IsFiniteSet(DirExperts \X DirColumns)
  BY DirectoryAssumption, FS_Product
<1>2. ASSUME \A e \in DOMAIN plan : Cardinality(plan[e]) <= SlotsPerExpert
      PROVE  ResidentRatio(plan) = 100 /\ DOMAIN Misses(plan) = {}
  <2>1. \A e \in DOMAIN plan : {e} \X plan[e] \subseteq resident
    BY <1>2 DEF DirInv, HoldsOf
  <2>2. DOMAIN Misses(plan) = {}
    BY <2>1 DEF Misses
  <2>3. Pairs(Hits(plan)) = Pairs(plan)
    <3>1. /\ DOMAIN Hits(plan) \subseteq DOMAIN plan
          /\ \A e \in DOMAIN Hits(plan) : Hits(plan)[e] \subseteq plan[e]
      BY DEF Hits
    <3>2. ASSUME NEW e \in DOMAIN plan, NEW k \in {e} \X plan[e]
          PROVE  e \in DOMAIN Hits(plan) /\ k \in {e} \X Hits(plan)[e]
      <4>1. k = <<e, k[2]>> /\ k[2] \in plan[e]
        BY <3>2, AsPair
      <4>2. k \in resident /\ <<e, k[2]>> \in resident
        BY <2>1, <4>1
      <4>3. e \in DOMAIN Hits(plan) /\ k[2] \in Hits(plan)[e]
        BY <4>1, <4>2 DEF Hits
      <4> QED
        BY <4>1, <4>3
    <3>3. ASSUME NEW e \in DOMAIN Hits(plan), NEW k \in {e} \X Hits(plan)[e]
          PROVE  k \in {e} \X plan[e]
      BY <3>1, <3>3, AsPair
    <3> QED
      BY <3>1, <3>2, <3>3 DEF Pairs
  <2>4. IsFiniteSet(Pairs(plan))
    <3>1. \A k \in Pairs(plan) : k \in DirExperts \X DirColumns
      <4> SUFFICES ASSUME NEW e \in DOMAIN plan, NEW k \in {e} \X plan[e]
                   PROVE  k \in DirExperts \X DirColumns
        BY DEF Pairs
      <4> QED
        BY AsPair DEF DirInv, PlanTyped
    <3> QED
      BY <1>1, <3>1, FS_Subset
  <2> DEFINE n == Cardinality(Pairs(plan))
  <2>5. n \in Nat /\ (n = 0 => Pairs(plan) = {})
    BY <2>4, FS_CardinalityType, FS_EmptySet
  <2> HIDE DEF n
  <2>6. n # 0 => (100 * n) \div n = 100
    BY <2>5
  <2>7. ResidentRatio(plan) = IF Pairs(plan) = {} THEN 100 ELSE (100 * n) \div n
    BY <2>3 DEF ResidentRatio, n
  <2> QED
    BY <2>2, <2>5, <2>6, <2>7
<1>3. ASSUME DOMAIN Misses(plan) = {}, NEW e \in DOMAIN plan
      PROVE  Cardinality(plan[e]) <= SlotsPerExpert
  <2>1. {e} \X plan[e] \subseteq resident
    BY <1>3 DEF Misses
  <2>2. e \in DirExperts /\ IsFiniteSet(plan[e])
    BY DirectoryAssumption, FS_Subset DEF DirInv, PlanTyped
  <2>3. {e} \X plan[e] \in SUBSET Owned(resident, e)
    <3>1. \A k \in {e} \X plan[e] : k[1] = e
      BY AsPair
    <3> QED
      BY <2>1, <3>1 DEF Owned
  <2>4. IsFiniteSet(Owned(resident, e))
    BY <1>1, FS_Subset DEF DirInv, DirTables, Owned
  <2>5. /\ Cardinality({e} \X plan[e]) <= Cardinality(Owned(resident, e))
        /\ Cardinality(Owned(resident, e)) <= SlotsPerExpert
    BY <2>2, <2>3, <2>4, FS_Subset DEF DirInv, DirTables
  <2>6. Cardinality({e} \X plan[e]) = Cardinality(plan[e]) /\ Cardinality(plan[e]) \in Nat
    <3>1. IsFiniteSet({e}) /\ Cardinality({e}) = 1
      BY FS_Singleton
    <3>2. Cardinality({e} \X plan[e]) = 1 * Cardinality(plan[e]) /\ Cardinality(plan[e]) \in Nat
      BY <2>2, <3>1, FS_Product, FS_CardinalityType
    <3> QED
      BY <3>2
  <2>7. Cardinality(Owned(resident, e)) \in Nat
    BY <2>4, FS_CardinalityType
  <2> QED
    BY <1>1, <2>5, <2>6, <2>7
<1>4. /\ \A e \in DirExperts : Cardinality({k \in resident : k[1] = e}) <= SlotsPerExpert
      /\ DOMAIN stamps = resident
  BY DEF DirInv, DirTables, Owned
<1>5. \A e \in DOMAIN plan :
        IF Cardinality(plan[e]) <= SlotsPerExpert
        THEN {e} \X plan[e] \subseteq resident
        ELSE /\ {k \in resident : k[1] = e} \subseteq {e} \X plan[e]
             /\ Cardinality({k \in resident : k[1] = e}) = SlotsPerExpert
  BY DEF DirInv, HoldsOf, Owned
<1> QED
  BY <1>2, <1>3, <1>4, <1>5 DEF DirectoryHolds, DirInv

(***************************************************************************)
(* The tables of the composed system                                       *)
(***************************************************************************)

(* Whatever the flags, the forwards and the predictions, the tables of     *)
(* slots, views and columns agree with what was put on the device and in   *)
(* the host's memory, and none has more than it has room for.              *)
THEOREM TablesAlwaysBounded == ServingSpec => []TablesBounded
<1> DEFINE Inv == SlotInv /\ ViewInv /\ DirInv
<1>1. ServingInit => Inv
  BY SlotInvStarts, ViewStarts, DirStarts DEF ServingInit
<1>2. Inv /\ [ServingNext]_servingVars => Inv'
  BY OnePartMoves, SlotInvKeeps, ViewKeeps, DirKeeps
<1>3. Inv => TablesBounded
  BY SlotInvSuffices, ViewInvSuffices, DirInvSuffices DEF TablesBounded
<1> QED
  BY <1>1, <1>2, <1>3, PTL DEF ServingSpec

(* A fitting forward never multiplies with weights that are not its        *)
(* expert's, unless the flags let copies overtake what waits for them: any *)
(* number of slots, experts, stagings and forwards, and the two streams at *)
(* any speeds.                                                             *)
THEOREM DecodesAlwaysExact == ServingSpec => []DecodeExact
<1>1. ServingInit => SlotInv
  BY SlotInvStarts DEF ServingInit
<1>2. SlotInv /\ [ServingNext]_servingVars => SlotInv'
  BY OnePartMoves, SlotInvKeeps
<1>3. SlotInv => DecodeExact
  BY SlotInvSuffices
<1> QED
  BY <1>1, <1>2, <1>3, PTL DEF ServingSpec

(***************************************************************************)
(* The requests of a served batch                                          *)
(***************************************************************************)

(* A column: one token of each row, and the prompt's stand-ins.            *)
Column == [Row -> Token \cup {"prompt"}]

(* The tokens of the answer there are at each stage.                       *)
Answered == IF stage \in {"prefill", "first"} THEN 0 ELSE step + 1

(* The sequence: the prompt, and the answer so far, which is the teacher's *)
(* where there is one.                                                     *)
SequenceHolds ==
  /\ flags \in CommandLine
  /\ stage \in {"prefill", "first", "decode", "probes", "drafting"}
  /\ step \in 0 .. MaxNew - 1
  /\ generated \in Seq(Column) /\ Len(generated) = PromptLength + Answered
  /\ \A i \in 1 .. PromptLength : generated[i] = Prompt[i]
  /\ flags.teacher => \A i \in 1 .. Answered : \A r \in Row : generated[PromptLength + i][r] = Teacher[i]
  /\ stage \in {"prefill", "first"} => step = 0

(* The first n columns of the sequence.                                    *)
PrefixIn(C, g, s, n) ==
  s \in Seq(C) /\ Len(s) = n /\ n <= Len(g) /\ \A i \in 1 .. n : s[i] = g[i]
Shown(s, n) == PrefixIn(Column, generated, s, n)

(* The cache follows the sequence, up to the token that is fed next.       *)
CacheFollows ==
  /\ chunkAt \in Nat
  /\ ~flags.useCache => cached = << >>
  /\ stage = "prefill" /\ flags.useCache => Shown(cached, chunkAt)
  /\ stage = "prefill" /\ chunkAt > 0 => flags.chunk > 0 /\ chunkAt < PromptLength
  /\ stage = "prefill" => chunkAt = 0 \/ PromptLength > flags.chunk
  /\ stage = "first" /\ flags.useCache => Shown(cached, PromptLength)
  /\ stage = "first" /\ (flags.useCache \/ flags.chunk = 0) => Shown(seen, PromptLength)
  /\ stage = "decode" /\ flags.useCache => Shown(cached, PromptLength + step)

(* What an entry of the audit has seen.                                    *)
AuditHolds ==
  \A a \in audit :
    /\ a.pos \in 1 .. Answered
    /\ a.pos > 1 \/ flags.useCache \/ flags.chunk = 0 => Shown(a.seen, PromptLength + a.pos - 1)

(* A row counts on until its end, which is its first Eos behind the first  *)
(* token.                                                                  *)
RowHolds(r) ==
  /\ newCounts[r] \in 1 .. Answered
  /\ \A i \in 2 .. newCounts[r] : generated[PromptLength + i][r] = Eos <=> (finished[r] /\ i = newCounts[r])
  /\ IF finished[r] THEN newCounts[r] > 1 ELSE newCounts[r] = Answered
RowsHold ==
  /\ newCounts \in [Row -> Int] /\ finished \in [Row -> BOOLEAN]
  /\ stage \in {"prefill", "first"} => \A r \in Row : ~finished[r]
  /\ stage \in {"decode", "probes", "drafting"} => \A r \in Row : RowHolds(r)

(* The i-th token of a draft from position p stands for token p + i.       *)
DraftHolds ==
  /\ stage = "drafting" =>
       /\ draft.at \in 1 .. Answered - 1
       /\ draft.context \in Seq(Column) /\ draft.tokens \in Seq(Int)
       /\ draft = [at |-> draft.at, context |-> draft.context, tokens |-> draft.tokens]
       /\ Len(draft.context) = PromptLength + draft.at + 1 + Len(draft.tokens)
       /\ \A i \in 1 .. Len(draft.tokens) : draft.tokens[i] = draft.at + i
  /\ probesLeft \subseteq Int
  /\ DraftsAligned

(* The invariant of a request.                                             *)
DeepInv == SequenceHolds /\ CacheFollows /\ AuditHolds /\ RowsHold /\ DraftHolds /\ ~apart

(* Layers and head are where the hidden states are.                        *)
LEMMA NeverApart ==
  ASSUME flags \in CommandLine
  PROVE  ~Apart
<1>1. flags.gpus \in {1, 2}
  BY DEF CommandLine
<1>2. LastLayer \in Nat /\ Border \in 1 .. LastLayer
  BY ServingAssumption
<1>3. ASSUME NEW l \in 0 .. LastLayer PROVE Entering[l] = LayerDevice(l)
  <2>1. Entering[l] = IF Hooked(l) THEN 1 ELSE IF l = 0 THEN 0 ELSE LayerDevice(l - 1)
    BY DEF Entering
  <2> QED
    BY <1>1, <1>2, <2>1 DEF Hooked, LayerDevice
<1>4. LayerDevice(LastLayer) = HeadDevice
  BY <1>1, <1>2 DEF LayerDevice, HeadDevice
<1> QED
  BY <1>3, <1>4 DEF Apart

(* The flags a command line can have.                                      *)
LEMMA FlagTypes ==
  ASSUME flags \in CommandLine
  PROVE  /\ flags.chunk \in Nat /\ flags.useCache \in BOOLEAN /\ flags.teacher \in BOOLEAN
         /\ flags.batch \in Nat \ {0} /\ Row = 1 .. flags.batch
         /\ flags.teacher => flags.batch = 1
BY ServingAssumption DEF CommandLine, Row

(* A stretch of a sequence.                                                *)
LEMMA Stretch ==
  ASSUME NEW S, NEW s \in Seq(S), NEW p \in Nat, NEW n \in Nat, p + n <= Len(s)
  PROVE  /\ SubSeq(s, p + 1, p + n) \in Seq(S) /\ Len(SubSeq(s, p + 1, p + n)) = n
         /\ \A i \in 1 .. n : SubSeq(s, p + 1, p + n)[i] = s[p + i]
<1>1. CASE n = 0
  <2>1. SubSeq(s, p + 1, p + n) = << >>
    BY <1>1, SubSeqProperties
  <2> QED
    BY <1>1, <2>1, EmptySeq
<1>2. CASE n > 0
  <2> DEFINE j == p + 1
             k == p + n
  <2>1. /\ Len(s) \in Nat /\ j \in 1 .. Len(s) /\ k \in j - 1 .. Len(s) /\ k - j + 1 = n
        /\ \A i \in 1 .. n : j + i - 1 = p + i
    BY <1>2, LenProperties
  <2> HIDE DEF j, k
  <2>2. /\ SubSeq(s, j, k) \in Seq(S) /\ Len(SubSeq(s, j, k)) = k - j + 1
        /\ \A i \in 1 .. k - j + 1 : SubSeq(s, j, k)[i] = s[j + i - 1]
    BY <2>1, SubSeqProperties
  <2>3. /\ SubSeq(s, j, k) \in Seq(S) /\ Len(SubSeq(s, j, k)) = n
        /\ \A i \in 1 .. n : SubSeq(s, j, k)[i] = s[p + i]
    BY <2>1, <2>2
  <2> QED
    BY <2>3 DEF j, k
<1> QED
  BY <1>1, <1>2

(* A request starts with the prompt alone.                                 *)
LEMMA DeepStarts == DeepInit => DeepInv
<1> SUFFICES ASSUME DeepInit PROVE DeepInv
  OBVIOUS
<1> USE ServingAssumption
<1>1. /\ flags \in CommandLine /\ stage = "prefill" /\ step = 0 /\ generated = Prompt
      /\ cached = << >> /\ chunkAt = 0 /\ audit = {} /\ compared = {} /\ ~apart /\ probesLeft = ProbeAt
      /\ newCounts = [r \in Row |-> 0] /\ finished = [r \in Row |-> FALSE]
  BY DEF DeepInit
<1>2. Prompt \in Seq(Column) /\ Len(Prompt) = PromptLength
  <2>1. \A i \in 1 .. PromptLength : Prompt[i] \in Column
    BY DEF Prompt, Column
  <2> QED
    BY <2>1, IsASeq, LenProperties DEF Prompt
<1>3. SequenceHolds
  BY <1>1, <1>2 DEF SequenceHolds, Answered
<1>4. << >> \in Seq(Column) /\ Len(<< >>) = 0
  BY EmptySeq
<1>5. CacheFollows
  BY <1>1, <1>2, <1>4 DEF CacheFollows, Shown, PrefixIn
<1>6. AuditHolds /\ RowsHold /\ DraftHolds
  BY <1>1 DEF AuditHolds, RowsHold, DraftHolds, DraftsAligned
<1> QED
  BY <1>1, <1>3, <1>5, <1>6 DEF DeepInv

(* What is shown, and more of it.                                          *)
LEMMA ShownMore ==
  ASSUME NEW s, NEW n \in Nat, NEW t \in Seq(Column), Shown(s, n), generated \in Seq(Column),
         n + Len(t) <= Len(generated), \A i \in 1 .. Len(t) : t[i] = generated[n + i]
  PROVE  Shown(s \o t, n + Len(t))
<1>1. /\ s \in Seq(Column) /\ Len(s) = n /\ Len(t) \in Nat
      /\ s \o t \in Seq(Column) /\ Len(s \o t) = n + Len(t)
      /\ \A i \in 1 .. n + Len(t) : (s \o t)[i] = IF i <= n THEN s[i] ELSE t[i - n]
  BY ConcatProperties, LenProperties DEF Shown, PrefixIn
<1>2. \A i \in 1 .. n + Len(t) : i <= n => i \in 1 .. n
  OBVIOUS
<1>3. \A i \in 1 .. n + Len(t) : ~(i <= n) => i - n \in 1 .. Len(t) /\ n + (i - n) = i
  BY <1>1
<1> QED
  BY <1>1, <1>2, <1>3 DEF Shown, PrefixIn

(* What is shown stays shown when the sequence grows.                      *)
LEMMA ShownStays ==
  ASSUME SequenceHolds, NEW x \in Column, generated' = Append(generated, x), flags' = flags
  PROVE  /\ \A s, n : Shown(s, n) => PrefixIn(Column', generated', s, n)
         /\ generated' \in Seq(Column)' /\ Len(generated') = Len(generated) + 1
         /\ \A i \in 1 .. Len(generated) : generated'[i] = generated[i]
         /\ generated'[Len(generated) + 1] = x /\ Len(generated) \in Nat
         /\ Column' = Column /\ Row' = Row /\ Prompt' = Prompt
<1>1. Column' = Column /\ Row' = Row /\ Prompt' = Prompt
  BY DEF Column, Row, Prompt
<1>2. /\ generated \in Seq(Column) /\ Len(generated) \in Nat
      /\ generated' \in Seq(Column) /\ Len(generated') = Len(generated) + 1
      /\ \A i \in 1 .. Len(generated) : generated'[i] = generated[i]
      /\ generated'[Len(generated) + 1] = x
  BY AppendProperties, LenProperties DEF SequenceHolds
<1>3. ASSUME NEW s, NEW n, Shown(s, n) PROVE PrefixIn(Column', generated', s, n)
  <2>1. s \in Seq(Column) /\ Len(s) = n /\ n <= Len(generated) /\ n \in Nat
    BY <1>3, LenProperties DEF Shown, PrefixIn
  <2>2. n <= Len(generated') /\ \A i \in 1 .. n : s[i] = generated'[i]
    BY <1>2, <1>3, <2>1 DEF Shown, PrefixIn
  <2> QED
    BY <1>1, <2>1, <2>2 DEF Shown, PrefixIn
<1> QED
  BY <1>1, <1>2, <1>3

(* A forward on top of a prefix of the sequence sees a prefix.             *)
LEMMA ForwardShows ==
  ASSUME SequenceHolds, NEW t \in Seq(Column), NEW n \in Nat, Forward(t),
         IF flags.useCache THEN Shown(cached, n) ELSE cached = << >> /\ n = 0,
         n + Len(t) <= Len(generated), \A i \in 1 .. Len(t) : t[i] = generated[n + i]
  PROVE  /\ Shown(seen', n + Len(t))
         /\ IF flags.useCache THEN Shown(cached', n + Len(t)) ELSE cached' = << >>
<1>1. Shown(cached, n)
  <2>1. << >> \in Seq(Column) /\ Len(<< >>) = 0
    BY EmptySeq
  <2>2. Len(generated) \in Nat
    BY LenProperties DEF SequenceHolds
  <2>3. Shown(<< >>, 0)
    BY <2>1, <2>2 DEF Shown, PrefixIn
  <2> QED
    BY <2>3
<1>2. Shown(cached \o t, n + Len(t))
  BY <1>1, ShownMore DEF SequenceHolds
<1> QED
  BY <1>2 DEF Forward

(* The prefill shows the model the prompt, in one piece or chunk by chunk; *)
(* there is no answer yet to be counted or audited.                        *)
LEMMA PrefillKeeps ==
  ASSUME DeepInv, PrefillWhole \/ PrefillChunk
  PROVE  DeepInv'
<1>1. /\ stage = "prefill" /\ stage' \in {"prefill", "first"}
      /\ UNCHANGED <<flags, generated, step, newCounts, finished, audit, draft, compared, probesLeft>>
      /\ apart' = (apart \/ Apart)
  BY DEF PrefillWhole, PrefillChunk, Forward
<1>2. /\ SequenceHolds /\ generated \in Seq(Column) /\ Len(generated) = PromptLength /\ step = 0
      /\ PromptLength \in Nat \ {0} /\ flags.chunk \in Nat /\ flags.useCache \in BOOLEAN /\ chunkAt \in Nat
      /\ ~apart /\ flags \in CommandLine
  <2>1. flags \in CommandLine
    BY DEF DeepInv, SequenceHolds
  <2>2. flags.chunk \in Nat /\ flags.useCache \in BOOLEAN
    BY <2>1, FlagTypes
  <2>3. Answered = 0 /\ PromptLength \in Nat \ {0} /\ PromptLength + 0 = PromptLength
    BY <1>1, ServingAssumption DEF Answered
  <2> QED
    BY <1>1, <2>1, <2>2, <2>3 DEF DeepInv, SequenceHolds, CacheFollows
<1>3. Row' = Row /\ Column' = Column /\ Prompt' = Prompt /\ Answered' = 0 /\ Answered = 0
      /\ \A s, n : Shown(s, n)' = Shown(s, n)
  BY <1>1 DEF Row, Column, Prompt, Answered, Shown, PrefixIn
<1>4. SequenceHolds'
  BY <1>1, <1>2, <1>3 DEF SequenceHolds
<1>5. AuditHolds' /\ RowsHold' /\ DraftHolds'
  <2>1. AuditHolds'
    BY <1>1, <1>3 DEF DeepInv, AuditHolds
  <2>2. RowsHold'
    BY <1>1, <1>3 DEF DeepInv, RowsHold
  <2>3. DraftHolds'
    BY <1>1, <1>3 DEF DeepInv, DraftHolds, DraftsAligned
  <2> QED
    BY <2>1, <2>2, <2>3
<1>6. ~apart'
  BY <1>1, <1>2, NeverApart
<1>7. CASE PrefillWhole
  <2>1. chunkAt = 0
    <3>1. ~(flags.chunk > 0 /\ PromptLength > flags.chunk)
      BY <1>2, <1>7 DEF PrefillWhole
    <3> QED
      BY <1>1, <1>2, <3>1 DEF DeepInv, CacheFollows
  <2>2. IF flags.useCache THEN Shown(cached, 0) ELSE cached = << >>
    BY <1>1, <2>1 DEF DeepInv, CacheFollows
  <2>3. Forward(generated) /\ stage' = "first" /\ chunkAt' = chunkAt
    BY <1>7 DEF PrefillWhole
  <2>4. 0 + Len(generated) <= Len(generated) /\ \A i \in 1 .. Len(generated) : generated[i] = generated[0 + i]
    BY <1>2
  <2>5. /\ Shown(seen', 0 + Len(generated))
        /\ IF flags.useCache THEN Shown(cached', 0 + Len(generated)) ELSE cached' = << >>
    BY <1>2, <2>2, <2>3, <2>4, ForwardShows
  <2>6. 0 + Len(generated) = PromptLength
    BY <1>2
  <2>7. CacheFollows'
    BY <1>1, <1>2, <1>3, <2>3, <2>5, <2>6 DEF CacheFollows
  <2> QED
    BY <1>4, <1>5, <1>6, <2>7 DEF DeepInv
<1>8. CASE PrefillChunk
  <2> DEFINE end == IF chunkAt + flags.chunk < Len(generated) THEN chunkAt + flags.chunk ELSE Len(generated)
             n == IF flags.useCache THEN chunkAt ELSE 0
             t == SubSeq(generated, chunkAt + 1, end)
  <2>1. /\ flags.chunk > 0 /\ PromptLength > flags.chunk /\ chunkAt < PromptLength
        /\ end \in chunkAt + 1 .. PromptLength
    <3>1. flags.chunk > 0 /\ PromptLength > flags.chunk
      BY <1>2, <1>8 DEF PrefillChunk
    <3>2. chunkAt = 0 \/ chunkAt < PromptLength
      BY <1>1, <1>2 DEF DeepInv, CacheFollows
    <3> QED
      BY <1>2, <3>1, <3>2
  <2>2. /\ Forward(t) /\ chunkAt' = chunkAt + flags.chunk
        /\ stage' = IF chunkAt' >= PromptLength THEN "first" ELSE "prefill"
    BY <1>1, <1>2, <1>8 DEF PrefillChunk
  <2>3. /\ t \in Seq(Column) /\ Len(t) = end - chunkAt
        /\ \A i \in 1 .. end - chunkAt : t[i] = generated[chunkAt + i]
    <3>1. /\ t \in Seq(Column) /\ Len(t) = end - (chunkAt + 1) + 1
          /\ \A i \in 1 .. end - (chunkAt + 1) + 1 : t[i] = generated[(chunkAt + 1) + i - 1]
      <4>1. chunkAt + 1 \in 1 .. Len(generated) /\ end \in chunkAt + 1 - 1 .. Len(generated)
        BY <1>2, <2>1
      <4> HIDE DEF end
      <4> QED
        BY <1>2, <4>1, SubSeqProperties
    <3>2. end - (chunkAt + 1) + 1 = end - chunkAt
      BY <1>2, <2>1
    <3>3. \A i \in 1 .. end - chunkAt : (chunkAt + 1) + i - 1 = chunkAt + i
      BY <1>2, <2>1
    <3> QED
      BY <3>1, <3>2, <3>3
  <2>4. CASE flags.useCache
    <3> HIDE DEF end, t
    <3>1. Shown(cached, chunkAt)
      BY <1>1, <2>4 DEF DeepInv, CacheFollows
    <3>2. chunkAt + Len(t) = end /\ end <= Len(generated) /\ \A i \in 1 .. Len(t) : t[i] = generated[chunkAt + i]
      BY <1>2, <2>1, <2>3
    <3>3. Shown(seen', end) /\ Shown(cached', end)
      BY <1>2, <2>2, <2>3, <2>4, <3>1, <3>2, ForwardShows
    <3>4. end = IF chunkAt' >= PromptLength THEN PromptLength ELSE chunkAt'
      BY <1>2, <2>1, <2>2 DEF end
    <3>5. CacheFollows'
      BY <1>1, <1>2, <1>3, <2>1, <2>2, <2>4, <3>3, <3>4 DEF CacheFollows
    <3> QED
      BY <1>4, <1>5, <1>6, <3>5 DEF DeepInv
  <2>5. CASE ~flags.useCache
    <3>1. cached' = << >>
      BY <2>2, <2>5 DEF Forward
    <3>2. CacheFollows'
      BY <1>1, <1>2, <1>3, <2>1, <2>2, <2>5, <3>1 DEF CacheFollows
    <3> QED
      BY <1>4, <1>5, <1>6, <3>2 DEF DeepInv
  <2> QED
    BY <2>4, <2>5
<1> QED
  BY <1>7, <1>8

(* One more column of the answer, the teacher's where there is one.        *)
LEMMA SequenceGrows ==
  ASSUME SequenceHolds, NEW x \in [Row -> Token], generated' = Append(generated, NextToken(Answered + 1, x)),
         flags' = flags, Answered' = Answered + 1, Answered + 1 <= MaxNew,
         stage' \in {"decode", "probes"}, step' \in 0 .. MaxNew - 1
  PROVE  /\ SequenceHolds' /\ Row' = Row
         /\ \A s, n : Shown(s, n) => PrefixIn(Column', generated', s, n)
         /\ \A i \in 1 .. Len(generated) : generated'[i] = generated[i]
         /\ generated'[Len(generated) + 1] = NextToken(Answered + 1, x)
         /\ Len(generated) = PromptLength + Answered /\ Answered \in Nat
<1> DEFINE y == NextToken(Answered + 1, x)
<1>1. Answered \in Nat /\ PromptLength \in Nat \ {0} /\ Len(generated) = PromptLength + Answered
  BY ServingAssumption DEF SequenceHolds, Answered
<1>2. Teacher \in Seq(Token) /\ Len(Teacher) >= MaxNew /\ MaxNew \in Nat
  BY ServingAssumption
<1>3. Teacher[Answered + 1] \in Token
  <2>1. Answered + 1 \in 1 .. Len(Teacher)
    BY <1>1, <1>2, LenProperties
  <2> QED
    BY <1>2, <2>1, ElementOfSeq
<1>4. y \in Column /\ (flags.teacher => \A r \in Row : y[r] = Teacher[Answered + 1])
  BY <1>3 DEF NextToken, Column
<1> HIDE DEF y
<1>5. /\ \A s, n : Shown(s, n) => PrefixIn(Column', generated', s, n)
      /\ generated' \in Seq(Column)' /\ Len(generated') = Len(generated) + 1
      /\ \A i \in 1 .. Len(generated) : generated'[i] = generated[i]
      /\ generated'[Len(generated) + 1] = y
      /\ Column' = Column /\ Row' = Row /\ Prompt' = Prompt
  BY <1>4, ShownStays DEF y
<1>6. SequenceHolds'
  <2>1. \A i \in 1 .. PromptLength : generated'[i] = Prompt'[i]
    <3>1. \A i \in 1 .. PromptLength : i \in 1 .. Len(generated)
      BY <1>1
    <3> QED
      BY <1>5, <3>1 DEF SequenceHolds
  <2>2. ASSUME flags.teacher, NEW i \in 1 .. Answered + 1, NEW r \in Row
        PROVE  generated'[PromptLength + i][r] = Teacher[i]
    <3>1. CASE i = Answered + 1
      <4>1. PromptLength + i = Len(generated) + 1
        BY <1>1, <3>1
      <4> QED
        BY <1>4, <1>5, <2>2, <3>1, <4>1
    <3>2. CASE i # Answered + 1
      <4>1. i \in 1 .. Answered /\ PromptLength + i \in 1 .. Len(generated)
        BY <1>1, <3>2
      <4> QED
        BY <1>5, <2>2, <4>1 DEF SequenceHolds
    <3> QED
      BY <3>1, <3>2
  <2>3. Len(generated') = PromptLength + Answered'
    BY <1>1, <1>5
  <2> QED
    BY <1>5, <2>1, <2>2, <2>3 DEF SequenceHolds
<1> QED
  BY <1>1, <1>5, <1>6 DEF y

(* The first token counts for every row, and its audit has seen the prompt.*)
LEMMA FirstKeeps ==
  ASSUME DeepInv, FirstToken
  PROVE  DeepInv'
<1>1. PICK own \in [Row -> Token] : generated' = Append(generated, NextToken(1, own))
  BY DEF FirstToken
<1>2. /\ stage = "first" /\ stage' = "decode" /\ audit' = Audited(1, seen)
      /\ newCounts' = [r \in Row |-> 1]
      /\ UNCHANGED <<flags, cached, seen, chunkAt, step, finished, probesLeft, draft, compared, apart>>
  BY DEF FirstToken
<1>3. /\ SequenceHolds /\ step = 0 /\ Answered = 0 /\ Answered' = 1 /\ MaxNew \in Nat \ {0}
      /\ PromptLength \in Nat
  BY <1>2, ServingAssumption DEF DeepInv, SequenceHolds, Answered
<1>4. /\ SequenceHolds' /\ Row' = Row
      /\ \A s, n : Shown(s, n) => PrefixIn(Column', generated', s, n)
      /\ Len(generated) = PromptLength + 0
  <2>1. Answered + 1 = 1 /\ 1 <= MaxNew /\ step' \in 0 .. MaxNew - 1
    BY <1>2, <1>3
  <2> QED
    BY <1>1, <1>2, <1>3, <2>1, SequenceGrows
<1>5. CacheFollows'
  <2>1. PromptLength + step = PromptLength
    BY <1>3
  <2> QED
    BY <1>2, <1>4, <2>1 DEF DeepInv, CacheFollows, Shown
<1>6. AuditHolds'
  <2>1. audit = {}
    BY <1>3 DEF DeepInv, AuditHolds
  <2>2. \A a \in audit' : a = [pos |-> 1, seen |-> seen]
    BY <1>2, <2>1 DEF Audited
  <2>3. flags.useCache \/ flags.chunk = 0 => Shown(seen, PromptLength)'
    BY <1>2, <1>4 DEF DeepInv, CacheFollows, Shown
  <2>4. PromptLength + 1 - 1 = PromptLength
    BY <1>3
  <2> QED
    BY <1>2, <1>3, <2>2, <2>3, <2>4 DEF AuditHolds
<1>7. RowsHold'
  <2>1. ASSUME NEW r \in Row PROVE RowHolds(r)'
    BY <1>2, <1>3 DEF DeepInv, RowsHold, RowHolds
  <2> QED
    BY <1>2, <1>4, <2>1 DEF DeepInv, RowsHold
<1>8. DraftHolds'
  BY <1>2 DEF DeepInv, DraftHolds, DraftsAligned
<1> QED
  BY <1>2, <1>4, <1>5, <1>6, <1>7, <1>8 DEF DeepInv

(* What the model sees in a decode step is all there is.                   *)
LEMMA DecodeSees ==
  ASSUME DeepInv, DecodeStep
  PROVE  /\ Shown(seen', PromptLength + step + 1)
         /\ IF flags.useCache THEN Shown(cached', PromptLength + step + 1) ELSE cached' = << >>
         /\ ~apart'
<1>1. /\ stage = "decode" /\ SequenceHolds /\ step \in Nat /\ PromptLength \in Nat \ {0}
      /\ generated \in Seq(Column) /\ Len(generated) = PromptLength + step + 1
      /\ flags \in CommandLine /\ ~apart
  <2>1. stage = "decode" /\ PromptLength \in Nat \ {0} /\ step \in Nat
    BY ServingAssumption DEF DecodeStep, DeepInv, SequenceHolds
  <2>2. Answered = step + 1 /\ PromptLength + (step + 1) = PromptLength + step + 1
    BY <2>1 DEF Answered
  <2> QED
    BY <2>1, <2>2 DEF DeepInv, SequenceHolds
<1>2. ~apart'
  BY <1>1, NeverApart DEF DecodeStep, Forward
<1>3. CASE flags.useCache
  <2> DEFINE t == <<Last(generated)>>
             n == PromptLength + step
  <2>1. Forward(t)
    BY <1>3 DEF DecodeStep
  <2>2. t \in Seq(Column) /\ Len(t) = 1 /\ t[1] = generated[Len(generated)] /\ n \in Nat
    <3>1. generated[Len(generated)] \in Column
      <4>1. Len(generated) \in 1 .. Len(generated)
        BY <1>1
      <4> QED
        BY <1>1, <4>1, ElementOfSeq
    <3> QED
      BY <1>1, <3>1 DEF Last
  <2>3. Shown(cached, n)
    BY <1>1, <1>3 DEF DeepInv, CacheFollows
  <2>4. n + Len(t) = PromptLength + step + 1 /\ n + Len(t) <= Len(generated)
        /\ \A i \in 1 .. Len(t) : t[i] = generated[n + i]
    BY <1>1, <2>2
  <2>5. Shown(seen', n + Len(t)) /\ Shown(cached', n + Len(t))
    <3> HIDE DEF t, n
    <3> QED
      BY <1>1, <1>3, <2>1, <2>2, <2>3, <2>4, ForwardShows
  <2> QED
    BY <1>2, <1>3, <2>4, <2>5
<1>4. CASE ~flags.useCache
  <2>1. Forward(generated) /\ cached = << >>
    BY <1>4 DEF DecodeStep, DeepInv, CacheFollows
  <2>2. 0 + Len(generated) = PromptLength + step + 1 /\ 0 + Len(generated) <= Len(generated)
        /\ \A i \in 1 .. Len(generated) : generated[i] = generated[0 + i]
    BY <1>1
  <2>3. /\ Shown(seen', 0 + Len(generated))
        /\ IF flags.useCache THEN Shown(cached', 0 + Len(generated)) ELSE cached' = << >>
    BY <1>1, <1>4, <2>1, <2>2, ForwardShows
  <2> QED
    BY <1>2, <1>4, <2>2, <2>3
<1> QED
  BY <1>3, <1>4

(* A decode step adds one column; a row that had ended before counts it no *)
(* more, and one that ends with it counts it as its last.                  *)
LEMMA DecodeKeeps ==
  ASSUME DeepInv, DecodeStep
  PROVE  DeepInv'
<1>1. PICK own \in [Row -> Token] :
        /\ EndOfRows(NextToken(AuditPosition, own))
        /\ generated' = Append(generated, NextToken(AuditPosition, own))
  BY DEF DecodeStep
<1>2. /\ stage = "decode" /\ stage' \in {"decode", "probes"} /\ step < MaxNew - 1 /\ step' = step + 1
      /\ audit' = Audited(AuditPosition, seen')
      /\ UNCHANGED <<flags, chunkAt, probesLeft, draft, compared>>
  BY DEF DecodeStep
<1>3. /\ SequenceHolds /\ step \in Nat /\ MaxNew \in Nat \ {0} /\ PromptLength \in Nat \ {0}
      /\ Answered = step + 1 /\ Answered' = step + 2 /\ AuditPosition = Answered + 1
  <2>1. SequenceHolds /\ step \in Nat /\ MaxNew \in Nat \ {0} /\ PromptLength \in Nat \ {0}
    BY ServingAssumption DEF DeepInv, SequenceHolds
  <2> QED
    BY <1>2, <2>1 DEF Answered, AuditPosition
<1>4. /\ SequenceHolds' /\ Row' = Row
      /\ \A s, n : Shown(s, n) => PrefixIn(Column', generated', s, n)
      /\ \A i \in 1 .. Len(generated) : generated'[i] = generated[i]
      /\ generated'[Len(generated) + 1] = NextToken(AuditPosition, own)
      /\ Len(generated) = PromptLength + Answered
  <2>1. Answered' = Answered + 1 /\ Answered + 1 <= MaxNew /\ step' \in 0 .. MaxNew - 1
    BY <1>2, <1>3
  <2> QED
    BY <1>1, <1>2, <1>3, <2>1, SequenceGrows
<1>5. /\ PrefixIn(Column', generated', seen', PromptLength + step + 1)
      /\ IF flags.useCache THEN PrefixIn(Column', generated', cached', PromptLength + step + 1)
         ELSE cached' = << >>
      /\ ~apart'
  <2>1. /\ Shown(seen', PromptLength + step + 1)
        /\ IF flags.useCache THEN Shown(cached', PromptLength + step + 1) ELSE cached' = << >>
        /\ ~apart'
    BY DecodeSees
  <2> QED
    BY <1>4, <2>1
<1>6. CacheFollows'
  <2>1. PromptLength + step' = PromptLength + step + 1
    BY <1>2, <1>3
  <2> QED
    BY <1>2, <1>5, <2>1 DEF DeepInv, CacheFollows, Shown
<1>7. AuditHolds'
  <2> SUFFICES ASSUME NEW a \in audit'
               PROVE  /\ a.pos \in 1 .. Answered'
                      /\ a.pos > 1 \/ flags.useCache \/ flags.chunk = 0 =>
                           PrefixIn(Column', generated', a.seen, PromptLength + a.pos - 1)
    BY <1>2 DEF AuditHolds, Shown
  <2>1. CASE a \in audit
    BY <1>3, <1>4, <2>1 DEF DeepInv, AuditHolds
  <2>2. CASE a = [pos |-> AuditPosition, seen |-> seen']
    <3>1. a.pos = step + 2 /\ a.seen = seen' /\ PromptLength + a.pos - 1 = PromptLength + step + 1
      BY <1>3, <2>2
    <3> QED
      BY <1>3, <1>5, <3>1
  <2> QED
    BY <1>2, <2>1, <2>2 DEF Audited
<1>8. RowsHold'
  <2> DEFINE y == NextToken(AuditPosition, own)
  <2>1. /\ newCounts' = [r \in Row |-> IF finished[r] THEN newCounts[r] ELSE newCounts[r] + 1]
        /\ finished' = [r \in Row |-> finished[r] \/ y[r] = Eos]
    BY <1>1 DEF EndOfRows
  <2>2. newCounts \in [Row -> Int] /\ finished \in [Row -> BOOLEAN]
    BY DEF DeepInv, RowsHold
  <2> HIDE DEF y
  <2>3. ASSUME NEW r \in Row PROVE RowHolds(r)'
    <3>1. /\ newCounts[r] \in 1 .. Answered
          /\ \A i \in 2 .. newCounts[r] : generated[PromptLength + i][r] = Eos <=> (finished[r] /\ i = newCounts[r])
          /\ IF finished[r] THEN newCounts[r] > 1 ELSE newCounts[r] = Answered
      BY <1>2 DEF DeepInv, RowsHold, RowHolds
    <3>2. \A i \in 2 .. newCounts[r] : generated'[PromptLength + i] = generated[PromptLength + i]
      <4>1. \A i \in 2 .. newCounts[r] : PromptLength + i \in 1 .. Len(generated)
        BY <1>3, <1>4, <3>1
      <4> QED
        BY <1>4, <4>1
    <3>3. CASE finished[r]
      <4>1. newCounts'[r] = newCounts[r] /\ finished'[r]
        BY <2>1, <3>3
      <4> QED
        BY <1>3, <3>1, <3>2, <3>3, <4>1 DEF RowHolds
    <3>4. CASE ~finished[r]
      <4>1. newCounts'[r] = Answered + 1 /\ (finished'[r] <=> y[r] = Eos) /\ finished'[r] \in BOOLEAN
        BY <2>1, <2>2, <3>1, <3>4
      <4>2. generated'[PromptLength + (Answered + 1)] = y
        <5>1. PromptLength + (Answered + 1) = Len(generated) + 1
          BY <1>3, <1>4
        <5> QED
          BY <1>4, <5>1 DEF y
      <4>3. ASSUME NEW i \in 2 .. Answered + 1
            PROVE  generated'[PromptLength + i][r] = Eos <=> (finished'[r] /\ i = Answered + 1)
        <5>1. CASE i = Answered + 1
          BY <4>1, <4>2, <5>1
        <5>2. CASE i # Answered + 1
          <6>1. i \in 2 .. newCounts[r]
            BY <1>3, <3>1, <3>4, <5>2
          <6> QED
            BY <3>1, <3>2, <3>4, <5>2, <6>1
        <5> QED
          BY <5>1, <5>2
      <4>4. Answered' = Answered + 1 /\ Answered + 1 > 1 /\ Answered + 1 \in 1 .. Answered + 1
        BY <1>3
      <4> QED
        BY <4>1, <4>3, <4>4 DEF RowHolds
    <3> QED
      BY <3>3, <3>4
  <2>4. newCounts' \in [Row -> Int] /\ finished' \in [Row -> BOOLEAN]
    BY <2>1, <2>2
  <2> QED
    BY <1>2, <1>4, <2>3, <2>4 DEF RowsHold
<1>9. DraftHolds'
  BY <1>2 DEF DeepInv, DraftHolds, DraftsAligned
<1> QED
  BY <1>4, <1>5, <1>6, <1>7, <1>8, <1>9 DEF DeepInv

(* Behind the decoding only the probes change anything.                    *)
LEMMA BehindDecode ==
  ASSUME DeepInv, stage \in {"decode", "probes", "drafting"}, stage' \in {"probes", "drafting"},
         UNCHANGED <<flags, generated, chunkAt, step, newCounts, finished, audit, cached>>,
         DraftHolds', ~apart'
  PROVE  DeepInv'
<1>1. Row' = Row /\ Column' = Column /\ Prompt' = Prompt /\ Answered' = Answered
      /\ \A s, n : Shown(s, n)' = Shown(s, n)
  BY DEF Row, Column, Prompt, Answered, Shown, PrefixIn
<1>2. SequenceHolds'
  BY <1>1 DEF DeepInv, SequenceHolds
<1>3. CacheFollows'
  BY <1>1 DEF DeepInv, CacheFollows
<1>4. AuditHolds'
  BY <1>1 DEF DeepInv, AuditHolds
<1>5. RowsHold'
  BY <1>1 DEF DeepInv, RowsHold, RowHolds
<1> QED
  BY <1>2, <1>3, <1>4, <1>5 DEF DeepInv

(* A draft token stands for the position it is later compared with.        *)
LEMMA ProbesKeep ==
  ASSUME DeepInv, DecodeEnds \/ (\E p \in ProbeAt : StartProbe(p) \/ SkipProbe(p)) \/ DraftStep \/ ProbeEnds
  PROVE  DeepInv'
<1>1. /\ stage \in {"decode", "probes", "drafting"} /\ stage' \in {"probes", "drafting"}
      /\ UNCHANGED <<flags, generated, chunkAt, step, newCounts, finished, audit, cached>>
      /\ apart' \in {apart, apart \/ Apart}
  BY DEF DecodeEnds, StartProbe, SkipProbe, DraftStep, ProbeEnds
<1>2. /\ SequenceHolds /\ DraftHolds /\ ~apart /\ step \in Nat /\ PromptLength \in Nat \ {0}
      /\ Answered = step + 1 /\ Answered' = Answered
      /\ generated \in Seq(Column) /\ Len(generated) = PromptLength + Answered
      /\ flags \in CommandLine /\ Column' = Column
  <2>1. SequenceHolds /\ DraftHolds /\ ~apart /\ step \in Nat /\ PromptLength \in Nat \ {0}
        /\ flags \in CommandLine /\ generated \in Seq(Column)
    BY ServingAssumption DEF DeepInv, SequenceHolds
  <2>2. Answered = step + 1 /\ Answered' = Answered
    BY <1>1 DEF Answered
  <2> QED
    BY <1>1, <2>1, <2>2 DEF SequenceHolds, Column, Row
<1>3. ~apart'
  BY <1>1, <1>2, NeverApart
<1>4. DraftHolds'
  <2>1. CASE DecodeEnds \/ \E p \in ProbeAt : SkipProbe(p)
    BY <1>2, <2>1 DEF DecodeEnds, SkipProbe, DraftHolds, DraftsAligned
  <2>2. ASSUME NEW p \in ProbeAt, StartProbe(p) PROVE DraftHolds'
    <3>1. /\ stage' = "drafting" /\ compared' = compared /\ probesLeft' = probesLeft \ {p}
          /\ p >= 1 /\ p < NewTokens /\ p \in Int
      BY <2>2, ServingAssumption DEF StartProbe
    <3>2. PICK first \in Token :
            draft' = [at |-> p, tokens |-> << >>,
                      context |-> SubSeq(generated, 1, PromptLength + p) \o <<[r \in Row |-> first]>>]
      BY <2>2 DEF StartProbe
    <3>3. p \in 1 .. Answered - 1
      BY <1>2, <3>1 DEF NewTokens
    <3> DEFINE head == SubSeq(generated, 1, PromptLength + p)
               c == [r \in Row |-> first]
    <3>4. head \in Seq(Column) /\ Len(head) = PromptLength + p
      <4>1. 1 \in 1 .. Len(generated) /\ PromptLength + p \in 1 - 1 .. Len(generated)
        BY <1>2, <3>3
      <4>2. head \in Seq(Column) /\ Len(head) = (PromptLength + p) - 1 + 1
        BY <1>2, <4>1, SubSeqProperties
      <4> QED
        BY <1>2, <3>3, <4>2
    <3>5. <<c>> \in Seq(Column) /\ Len(<<c>>) = 1
      BY DEF Column
    <3>6. head \o <<c>> \in Seq(Column) /\ Len(head \o <<c>>) = PromptLength + p + 1
      <4> HIDE DEF head, c
      <4> QED
        BY <3>4, <3>5, ConcatProperties
    <3>7. << >> \in Seq(Int) /\ Len(<< >>) = 0
      BY EmptySeq
    <3> HIDE DEF head, c
    <3>8. draft' = [at |-> p, tokens |-> << >>, context |-> head \o <<c>>]
      BY <3>2 DEF head, c
    <3>9. PromptLength + p + 1 = PromptLength + p + 1 + 0
      BY <1>2, <3>3
    <3> QED
      BY <1>2, <3>1, <3>3, <3>6, <3>7, <3>8, <3>9 DEF DraftHolds, DraftsAligned
  <2>3. CASE DraftStep
    <3>1. stage = "drafting" /\ UNCHANGED <<stage, probesLeft, compared>>
      BY <2>3 DEF DraftStep
    <3>2. PICK t \in Token :
            draft' = [draft EXCEPT !.tokens = Append(@, Len(draft.context) - PromptLength),
                                   !.context = Append(@, [r \in Row |-> t])]
      BY <2>3 DEF DraftStep
    <3> DEFINE c == [r \in Row |-> t]
               n == Len(draft.context) - PromptLength
    <3>3. /\ draft.at \in 1 .. Answered - 1
          /\ draft.context \in Seq(Column) /\ draft.tokens \in Seq(Int)
          /\ draft = [at |-> draft.at, context |-> draft.context, tokens |-> draft.tokens]
          /\ Len(draft.context) = PromptLength + draft.at + 1 + Len(draft.tokens)
          /\ \A i \in 1 .. Len(draft.tokens) : draft.tokens[i] = draft.at + i
          /\ Len(draft.tokens) \in Nat
      BY <1>2, <3>1, LenProperties DEF DraftHolds
    <3>4. n = draft.at + (Len(draft.tokens) + 1) /\ n \in Int /\ c \in Column
      <4>1. c \in Column
        BY DEF Column
      <4>2. draft.at \in Nat /\ Len(draft.tokens) \in Nat
        BY <1>2, <3>3
      <4> QED
        BY <1>2, <3>3, <4>1, <4>2
    <3> HIDE DEF c, n
    <3>5. draft' = [at |-> draft.at, context |-> Append(draft.context, c), tokens |-> Append(draft.tokens, n)]
      BY <3>2, <3>3 DEF c, n
    <3>6. Append(draft.context, c) \in Seq(Column) /\ Len(Append(draft.context, c)) = Len(draft.context) + 1
      BY <3>3, <3>4, AppendProperties
    <3>7. /\ Append(draft.tokens, n) \in Seq(Int) /\ Len(Append(draft.tokens, n)) = Len(draft.tokens) + 1
          /\ \A i \in 1 .. Len(draft.tokens) : Append(draft.tokens, n)[i] = draft.tokens[i]
          /\ Append(draft.tokens, n)[Len(draft.tokens) + 1] = n
      BY <3>3, <3>4, AppendProperties
    <3>8. \A i \in 1 .. Len(draft.tokens) + 1 : Append(draft.tokens, n)[i] = draft.at + i
      BY <3>3, <3>4, <3>7
    <3>9. Len(draft.context) + 1 = PromptLength + draft.at + 1 + (Len(draft.tokens) + 1)
      <4>1. draft.at \in Nat /\ Len(draft.tokens) \in Nat /\ PromptLength \in Nat
        BY <1>2, <3>3
      <4>2. Len(draft.context) = PromptLength + draft.at + 1 + Len(draft.tokens)
        BY <3>3
      <4>3. \A i, j, k, m \in Nat : m = i + j + 1 + k => m + 1 = i + j + 1 + (k + 1)
        OBVIOUS
      <4>4. Len(draft.context) \in Nat
        BY <3>3, LenProperties
      <4> QED
        BY <4>1, <4>2, <4>3, <4>4
    <3> QED
      BY <1>2, <3>1, <3>3, <3>5, <3>6, <3>7, <3>8, <3>9 DEF DraftHolds, DraftsAligned
  <2>4. CASE ProbeEnds
    <3>1. /\ stage = "drafting" /\ stage' = "probes" /\ probesLeft' = probesLeft
          /\ Len(draft.tokens) = ProbeK
          /\ compared' = compared \cup
               {<<draft.tokens[i], TruthOf(i)>> : i \in {j \in 1 .. ProbeK : TruthOf(j) < NewTokens}}
      BY <2>4 DEF ProbeEnds
    <3>2. \A i \in 1 .. ProbeK : draft.tokens[i] = TruthOf(i)
      BY <1>2, <3>1 DEF DraftHolds, TruthOf
    <3>3. DraftsAligned'
      BY <1>2, <3>1, <3>2 DEF DraftHolds, DraftsAligned
    <3> QED
      BY <1>2, <3>1, <3>3 DEF DraftHolds
  <2> QED
    BY <2>1, <2>2, <2>3, <2>4
<1> QED
  BY <1>1, <1>3, <1>4, BehindDecode

(* Every step of a request keeps its invariant.                            *)
LEMMA DeepKeeps ==
  ASSUME DeepInv, [DeepNext]_deepVars
  PROVE  DeepInv'
<1>1. CASE DeepNext
  BY <1>1, PrefillKeeps, FirstKeeps, DecodeKeeps, ProbesKeep DEF DeepNext
<1>2. CASE UNCHANGED deepVars
  <2>1. /\ UNCHANGED <<flags, stage, generated, chunkAt, step, newCounts, finished, audit, cached,
                       seen, probesLeft, draft, compared, apart>>
    BY <1>2 DEF deepVars
  <2>2. /\ Row' = Row /\ Column' = Column /\ Prompt' = Prompt /\ Answered' = Answered
        /\ \A s, n : Shown(s, n)' = Shown(s, n)
    BY <2>1 DEF Row, Column, Prompt, Answered, Shown, PrefixIn
  <2>3. SequenceHolds' /\ CacheFollows'
    BY <2>1, <2>2 DEF DeepInv, SequenceHolds, CacheFollows
  <2>4. AuditHolds' /\ DraftHolds'
    BY <2>1, <2>2 DEF DeepInv, AuditHolds, DraftHolds, DraftsAligned
  <2>5. RowsHold'
    BY <2>1, <2>2 DEF DeepInv, RowsHold, RowHolds
  <2> QED
    BY <2>1, <2>3, <2>4, <2>5 DEF DeepInv
<1> QED
  BY <1>1, <1>2

(* What the audit has seen is prompt and answer, spelled as the property   *)
(* spells it; a count that ends at the first Eos is the answer's length.   *)
LEMMA DeepInvSuffices == DeepInv => EveryRowServed
<1> SUFFICES ASSUME DeepInv PROVE EveryRowServed
  OBVIOUS
<1>1. /\ SequenceHolds /\ Answered \in Nat /\ PromptLength \in Nat \ {0} /\ generated \in Seq(Column)
      /\ Len(generated) = PromptLength + Answered /\ NewTokens = Answered
      /\ Prompt = [i \in 1 .. PromptLength |-> Prompt[i]]
  <2>1. SequenceHolds /\ PromptLength \in Nat \ {0} /\ Answered \in Nat
    BY ServingAssumption DEF DeepInv, SequenceHolds, Answered
  <2> QED
    BY <2>1 DEF SequenceHolds, NewTokens, Prompt
<1>2. AuditIsolatesPositions
  <2> SUFFICES ASSUME NEW a \in audit
               PROVE  LET tail == SubSeq(generated, PromptLength + 1, PromptLength + a.pos - 1)
                      IN  /\ (a.pos > 1 \/ flags.useCache \/ flags.chunk = 0) => a.seen = Prompt \o tail
                          /\ flags.teacher => \A i \in DOMAIN tail : \A r \in Row : tail[i][r] = Teacher[i]
    BY DEF AuditIsolatesPositions
  <2> DEFINE tail == SubSeq(generated, PromptLength + 1, PromptLength + a.pos - 1)
  <2>1. a.pos \in 1 .. Answered
    BY DEF DeepInv, AuditHolds
  <2>2. PICK n \in 0 .. Answered - 1 : a.pos = n + 1 /\ PromptLength + a.pos - 1 = PromptLength + n
    <3>1. a.pos - 1 \in 0 .. Answered - 1 /\ a.pos = (a.pos - 1) + 1
          /\ PromptLength + a.pos - 1 = PromptLength + (a.pos - 1)
      BY <1>1, <2>1
    <3> QED
      BY <3>1
  <2>3. /\ tail \in Seq(Column) /\ Len(tail) = n
        /\ \A i \in 1 .. n : tail[i] = generated[PromptLength + i]
    <3>1. n \in Nat /\ PromptLength + n <= Len(generated) /\ tail = SubSeq(generated, PromptLength + 1, PromptLength + n)
      <4>1. n \in Nat /\ PromptLength + n <= Len(generated)
        BY <1>1, <2>2
      <4>2. tail = SubSeq(generated, PromptLength + 1, PromptLength + n)
        BY <2>2
      <4> QED
        BY <4>1, <4>2
    <3>2. PromptLength \in Nat /\ generated \in Seq(Column)
      BY <1>1
    <3> HIDE DEF tail
    <3> QED
      BY <3>1, <3>2, Stretch
  <2> HIDE DEF tail
  <2>4. ASSUME a.pos > 1 \/ flags.useCache \/ flags.chunk = 0 PROVE a.seen = Prompt \o tail
    <3>1. Shown(a.seen, PromptLength + n)
      BY <2>2, <2>4 DEF DeepInv, AuditHolds
    <3>2. Prompt \in Seq(Column) /\ Len(Prompt) = PromptLength /\ DOMAIN Prompt = 1 .. PromptLength
      <4>1. \A i \in 1 .. PromptLength : Prompt[i] \in Column
        BY DEF Prompt, Column
      <4> QED
        BY <1>1, <4>1, IsASeq, LenProperties DEF Prompt
    <3> DEFINE t == Prompt \o tail
    <3>3. /\ t \in Seq(Column) /\ Len(t) = PromptLength + n
          /\ \A i \in 1 .. PromptLength + n : t[i] = IF i <= PromptLength THEN Prompt[i] ELSE tail[i - PromptLength]
      BY <2>3, <3>2, ConcatProperties
    <3> HIDE DEF t
    <3>4. ASSUME NEW i \in 1 .. PromptLength + n PROVE a.seen[i] = t[i]
      <4>1. a.seen[i] = generated[i]
        BY <3>1 DEF Shown, PrefixIn
      <4>2. CASE i <= PromptLength
        <5>1. i \in 1 .. PromptLength
          BY <2>2, <4>2
        <5> QED
          BY <1>1, <3>3, <4>1, <4>2, <5>1 DEF SequenceHolds
      <4>3. CASE ~(i <= PromptLength)
        <5>1. i - PromptLength \in 1 .. n /\ PromptLength + (i - PromptLength) = i
          BY <1>1, <2>2, <4>3
        <5> QED
          BY <2>3, <3>3, <4>1, <4>3, <5>1
      <4> QED
        BY <4>2, <4>3
    <3>5. a.seen \in Seq(Column) /\ Len(a.seen) = Len(t)
      BY <3>1, <3>3 DEF Shown, PrefixIn
    <3>6. a.seen = t
      BY <3>3, <3>4, <3>5, SeqEqual
    <3> QED
      BY <3>6 DEF t
  <2>5. ASSUME flags.teacher PROVE \A i \in DOMAIN tail : \A r \in Row : tail[i][r] = Teacher[i]
    <3>1. DOMAIN tail = 1 .. n /\ \A i \in 1 .. n : i \in 1 .. Answered
      BY <1>1, <2>2, <2>3, LenProperties
    <3> QED
      BY <1>1, <2>3, <2>5, <3>1 DEF SequenceHolds
  <2> QED
    BY <2>4, <2>5 DEF tail
<1>3. RowsCounted
  <2> SUFFICES ASSUME stage \in {"probes", "drafting"}, NEW r \in Row PROVE newCounts[r] = AnswerLength(r)
    BY DEF RowsCounted
  <2> DEFINE ends == {i \in 2 .. NewTokens : generated[PromptLength + i][r] = Eos}
             n == newCounts[r]
  <2>1. /\ n \in 1 .. Answered
        /\ \A i \in 2 .. n : generated[PromptLength + i][r] = Eos <=> (finished[r] /\ i = n)
        /\ IF finished[r] THEN n > 1 ELSE n = Answered
    BY DEF DeepInv, RowsHold, RowHolds
  <2>2. AnswerLength(r) = IF ends = {} THEN NewTokens ELSE CHOOSE i \in ends : \A j \in ends : i <= j
    BY DEF AnswerLength
  <2>3. CASE finished[r]
    <3>1. n \in ends /\ \A j \in ends : n <= j
      BY <1>1, <2>1, <2>3
    <3>2. \A i \in ends : (\A j \in ends : i <= j) => i = n
      <4>1. ends \subseteq Int
        BY <1>1
      <4> HIDE DEF ends, n
      <4> QED
        BY <3>1, <4>1
    <3> HIDE DEF ends, n
    <3>3. ends # {} /\ (CHOOSE i \in ends : \A j \in ends : i <= j) = n
      BY <3>1, <3>2
    <3> QED
      BY <2>2, <3>3 DEF ends, n
  <2>4. CASE ~finished[r]
    <3>1. ends = {}
      BY <1>1, <2>1, <2>4
    <3> QED
      BY <1>1, <2>1, <2>2, <2>4, <3>1
  <2> QED
    BY <2>3, <2>4
<1> QED
  BY <1>2, <1>3 DEF DeepInv, DraftHolds, ServedTogether, EveryRowServed

(* Of serve_deepseek, for any batch, prompt, chunk, limit, teacher, probes *)
(* and number of layers on either GPU: the audit of a position has seen    *)
(* the prompt and the teacher's tokens before it and nothing else; a row   *)
(* counts its own answer however long the others of its batch go on; a     *)
(* draft is compared with the token it stands for; and no module has its   *)
(* operands on two devices.                                                *)
THEOREM EveryRowAlwaysServed == ServingSpec => []EveryRowServed
<1>1. ServingInit => DeepInv
  BY DeepStarts DEF ServingInit
<1>2. DeepInv /\ [ServingNext]_servingVars => DeepInv'
  BY OnePartMoves, DeepKeeps
<1>3. DeepInv => EveryRowServed
  BY DeepInvSuffices
<1> QED
  BY <1>1, <1>2, <1>3, PTL DEF ServingSpec
==============================================================================
