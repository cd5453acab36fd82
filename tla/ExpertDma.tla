----------------------------- MODULE ExpertDma -----------------------------
(***************************************************************************)
(* ExpertCache together with the device: the CUDA streams that carry the   *)
(* loads and the expert computations, and the buffers the weights pass     *)
(* through on their way (colossus/dynamic_cache.py on a cuda device).      *)
(*                                                                         *)
(* Every step of the host is a step of ExpertCache plus what it enqueues   *)
(* and what it waits for; between its steps each stream executes its       *)
(* operations in order and the streams run independently of one another.   *)
(* The current stream carries demand loads and computations; every wrapper *)
(* has a prefetch stream of its own.  Reading a routing or a prediction    *)
(* back (tolist, item, cpu) blocks the host until the current stream has   *)
(* drained, and so does a load with non_blocking=False.                    *)
(*                                                                         *)
(* A load goes through a buffer.  With Columns = FALSE (missing_col_ratio  *)
(* = 1) the host copies the weights into a pinned staging area, at once    *)
(* and by itself, and enqueues a transfer that reads the area when it      *)
(* executes; one area serves all demand loads of the process and one all   *)
(* prefetches.  With Columns = TRUE the stream itself fills a receive      *)
(* buffer on the device and then transposes it into the slot; buffer i     *)
(* serves slot i of every layer.                                           *)
(***************************************************************************)
EXTENDS ExpertCache

CONSTANT Columns   \* missing_col_ratio < 1.0

ASSUME DmaAssumption == Columns \in BOOLEAN

VARIABLES
  queue,    \* queue[st]: what stream st has not executed yet
  buffer,   \* whose weights a staging area or receive buffer holds
  held,     \* held[l][s]: whose weights slot s of layer l holds; None: mixed
  pending,  \* pending[l]: is pending_prefetch_events of layer l not empty?
  waiting   \* the streams the host has to see drained before its next step

device == <<queue, buffer, held, pending, waiting>>
dmaVars == <<cache, host, queue, buffer, held, pending, waiting>>

Current == 0                       \* torch.cuda.current_stream
Streams == {Current} \cup Layers   \* stream l: the prefetch_stream of layer l

Demand == "demand"
Speculative == "prefetch"
Buffers == IF Columns THEN Slots ELSE {Demand, Speculative}

-----------------------------------------------------------------------------
(* One operation of a stream: the transfer of a load into its buffer and   *)
(* from there into the slot, or the computation of some experts.           *)
Fill(b, l, s, e)  == [op |-> "fill", buffer |-> b, layer |-> l, slot |-> s, expert |-> e]
Copy(b, l, s)     == [op |-> "copy", buffer |-> b, layer |-> l, slot |-> s]
Compute(l, uses)  == [op |-> "compute", layer |-> l, uses |-> uses]

Operations ==
  {Fill(b, l, s, e) : b \in Buffers, l \in Layers, s \in Slots, e \in Experts}
    \cup {Copy(b, l, s) : b \in Buffers, l \in Layers, s \in Slots}
    \cup {Compute(l, uses) : l \in Layers, uses \in SUBSET (Experts \X Slots)}

(* A load through the area of its class.  A blocking one leaves its buffer *)
(* alone until the transfer is over, as if the stream had done both halves.*)
BufferOf(class, s) == IF Columns THEN s ELSE class
Transfer(class, l, s, e, blocking) ==
  LET b == BufferOf(class, s)
  IN  IF Columns \/ blocking THEN <<Fill(b, l, s, e), Copy(b, l, s)>>
      ELSE <<Copy(b, l, s)>>

Enqueue(st, ops) == queue' = [queue EXCEPT ![st] = @ \o ops]

Load(st, class, l, s, e, blocking) ==
  /\ Enqueue(st, Transfer(class, l, s, e, blocking))
  /\ buffer' = IF Columns \/ blocking THEN buffer
               ELSE [buffer EXCEPT ![class] = e]

-----------------------------------------------------------------------------
(* What the host waits for *)

Drained(st) == queue[st] = << >>

(* The host is behind its last blocking load once no half of it that comes *)
(* from host memory is left; the transposition in the device may be.       *)
FromHost == IF Columns THEN "fill" ELSE "copy"
Ready ==
  /\ "transfer" \in waiting
       => \A i \in DOMAIN queue[Current] : queue[Current][i].op # FromHost
  /\ "device" \in waiting => \A st \in Streams : Drained(st)

NoLoad == UNCHANGED <<queue, buffer>>
NoWait == waiting' = {}
Quiet == Ready /\ NoLoad /\ NoWait /\ UNCHANGED <<held, pending>>

-----------------------------------------------------------------------------
(* The host's steps and their effect on the device *)

DmaInit ==
  /\ Init
  /\ queue = [st \in Streams |-> << >>]
  /\ buffer = [b \in Buffers |-> None]
  /\ held = [l \in Layers |-> FreshTable.slot_to_expert]
  /\ pending = [l \in Layers |-> FALSE]
  /\ waiting = {}

DmaStartPass(decode) == StartPass(decode) /\ Quiet

(* The predicted experts, or the confidence, come back from the device.    *)
DmaPrefetch(predicted) ==
  /\ Prefetch(predicted)
  /\ predicted # {} => Drained(Current)
  /\ Quiet

FaultyPrefetchStep(e) ==
  /\ PrefetchStep(e)
  /\ Ready
  /\ Load(host.target, Speculative, host.target,
          cache'[host.target].expert_to_slot[e], e, FALSE)
  /\ pending' = [pending EXCEPT ![host.layer] = TRUE]
  /\ NoWait
  /\ UNCHANGED held
DmaPrefetchStep(e) ==
  /\ PrefetchStep(e)
  /\ Ready
  /\ Load(host.target, Speculative, host.target,
          cache'[host.target].expert_to_slot[e], e, FALSE)
  /\ pending' = [pending EXCEPT ![host.target] = TRUE]
  /\ NoWait
  /\ UNCHANGED held

DmaPrefetchEnd == PrefetchEnd /\ Quiet

(* unique().tolist() drains the current stream.  Then synchronize_prefetch,*)
(* which returns at once when no event is pending; the path where the      *)
(* routed experts do not fit never calls it.                               *)
FaultyForwardSync(need) ==
  /\ Forward(need)
  /\ Ready
  /\ Drained(Current)
  /\ pending' = [pending EXCEPT ![host.layer] = FALSE]
  /\ NoLoad
  /\ NoWait
  /\ UNCHANGED held
DmaForward(need) ==
  LET l == host.layer
      synchronizes == l \in Mixtral \/ Cardinality(need) <= Capacity
  IN  /\ Forward(need)
      /\ Ready
      /\ Drained(Current)
      /\ IF synchronizes
         THEN /\ pending[l] => Drained(l)
              /\ pending' = [pending EXCEPT ![l] = FALSE]
         ELSE UNCHANGED pending
      /\ NoLoad
      /\ NoWait
      /\ UNCHANGED held

DmaLockHit(e) == LockHit(e) /\ Quiet
DmaFindMisses == FindMisses /\ Quiet

DmaLoadMiss(e) ==
  /\ LoadMiss(e)
  /\ Ready
  /\ Load(Current, Demand, host.layer,
          cache'[host.layer].expert_to_slot[e], e, FALSE)
  /\ NoWait
  /\ UNCHANGED <<held, pending>>

DmaLoadsIssued == LoadsIssued /\ Quiet

(* The computations of the experts in E are enqueued, each on the slot its *)
(* weights are bound to at this moment.                                    *)
Run(E) ==
  LET bound == cache[host.layer].expert_to_slot
  IN  /\ Ready
      /\ Enqueue(Current, <<Compute(host.layer, {<<e, bound[e]>> : e \in E})>>)
      /\ NoWait
      /\ UNCHANGED <<buffer, held, pending>>

DmaInfer == Infer /\ Run(host.batch)

(* A blocking load; outside Mixtral the whole device is synchronized too.  *)
DmaStepExpert(e) ==
  LET l == host.layer
  IN  /\ StepExpert(e)
      /\ Ready
      /\ IF e \in Resident(cache[l])
         THEN NoLoad /\ NoWait
         ELSE /\ Load(Current, Demand, l, cache'[l].expert_to_slot[e], e, TRUE)
              /\ waiting' = IF l \in Mixtral THEN {"transfer"}
                            ELSE {"transfer", "device"}
      /\ UNCHANGED <<held, pending>>

DmaExecExpert == ExecExpert /\ Run({host.expert})

(* The warmup loads of a reset, all layers in turn.  The caller has read   *)
(* the output of the last pass.  Forgotten prefetch events are not awaited.*)
WarmupLoads(l) ==
  FlattenSeq([e \in DOMAIN FreshTable.slot_lru |-> Transfer(Demand, l, e, e, TRUE)])

DmaResetState ==
  /\ ResetState
  /\ Ready
  /\ Drained(Current)
  /\ Enqueue(Current, FlattenSeq([l \in Layers |-> WarmupLoads(l)]))
  /\ pending' = [l \in Layers |-> FALSE]
  /\ waiting' = {"transfer"}
  /\ UNCHANGED <<buffer, held>>

DmaStartWarmup == StartWarmup /\ Quiet

(* The ranking of the experts comes back from the device.                  *)
DmaSeedLayer(top) == SeedLayer(top) /\ Drained(Current) /\ Quiet

DmaWarmupStep(e) ==
  LET l == host.target
  IN  /\ WarmupStep(e)
      /\ Ready
      /\ IF e \in Resident(cache[l])
         THEN NoLoad /\ NoWait
         ELSE /\ Load(Current, Demand, l, cache'[l].expert_to_slot[e], e, TRUE)
              /\ waiting' = {"transfer"}
      /\ UNCHANGED <<held, pending>>

(* warmup() forgets the pending events; without a ranking it is not called.*)
DmaWarmupEnd ==
  /\ WarmupEnd
  /\ Ready
  /\ pending' = IF host.batch = {} THEN pending
                ELSE [pending EXCEPT ![host.target] = FALSE]
  /\ NoLoad
  /\ NoWait
  /\ UNCHANGED held

-----------------------------------------------------------------------------
(* The streams: each executes the operation at its head *)

StreamStep(st) ==
  /\ ~ Drained(st)
  /\ LET o == Head(queue[st])
     IN  /\ queue' = [queue EXCEPT ![st] = Tail(@)]
         /\ buffer' = IF o.op = "fill" THEN [buffer EXCEPT ![o.buffer] = o.expert]
                      ELSE buffer
         /\ held' = IF o.op = "compute" THEN held
                    ELSE [held EXCEPT ![o.layer][o.slot] =
                            IF o.op = "fill" THEN None ELSE buffer[o.buffer]]
  /\ UNCHANGED <<cache, host, pending, waiting>>

HostStep ==
  \/ \E decode \in BOOLEAN : DmaStartPass(decode)
  \/ \E P \in Predictions : DmaPrefetch(P)
  \/ \E e \in Experts : DmaPrefetchStep(e)
  \/ DmaPrefetchEnd
  \/ \E R \in Routings : DmaForward(R)
  \/ \E e \in Experts : DmaLockHit(e)
  \/ DmaFindMisses
  \/ \E e \in Experts : DmaLoadMiss(e)
  \/ DmaLoadsIssued
  \/ DmaInfer
  \/ \E e \in Experts : DmaStepExpert(e)
  \/ DmaExecExpert
  \/ DmaResetState
  \/ DmaStartWarmup
  \/ \E T \in PrefillTops : DmaSeedLayer(T)
  \/ \E e \in Experts : DmaWarmupStep(e)
  \/ DmaWarmupEnd

DmaNext == HostStep \/ \E st \in Streams : StreamStep(st)

(* The device executes what it was given, and the host goes on with a pass *)
(* or a warmup it has begun; nothing makes it begin another.               *)
Busy == host.pc # "between"
DmaSpec == DmaInit /\ [][DmaNext]_dmaVars
DmaFairSpec ==
  /\ DmaSpec
  /\ WF_dmaVars(Busy /\ HostStep)
  /\ \A st \in Streams : WF_dmaVars(StreamStep(st))

-----------------------------------------------------------------------------
(* Properties *)

DmaTypeOK ==
  /\ TypeOK
  /\ queue \in [Streams -> Seq(Operations)]
  /\ buffer \in [Buffers -> Experts \cup {None}]
  /\ held \in [Layers -> [Slots -> Experts \cup {None}]]
  /\ pending \in [Layers -> BOOLEAN]
  /\ waiting \subseteq {"transfer", "device"}

(* "Expert Execution (Lossless ...)" (dynamic_cache.py:529): whenever the  *)
(* computation of an expert may start, the slot it reads holds exactly the *)
(* weights of that expert, whichever way the streams were interleaved and  *)
(* the buffers reused since the load was issued.                           *)
Lossless ==
  ~ Drained(Current) /\ Head(queue[Current]).op = "compute"
    => \A use \in Head(queue[Current]).uses :
         held[Head(queue[Current]).layer][use[2]] = use[1]

(* Well typed, and every expert computes from its own weights (Lossless).  *)
TransfersLossless == DmaTypeOK /\ Lossless

(* synchronize_prefetch returns early when no event is pending: then there *)
(* is nothing left to wait for, whatever resets, warmups and passes have   *)
(* done to the event lists in the meantime.                                *)
EventsCoverTransfers == \A l \in Layers : ~ pending[l] => Drained(l)

(* synchronize_prefetch and the order of the current stream are enough to  *)
(* wait for: when a computation may start, no stream has a transfer into a *)
(* slot it reads still to execute, so nothing changes the weights under it.*)
Touches(st, l, s) ==
  \E i \in DOMAIN queue[st] : LET o == queue[st][i]
                             IN  o.op # "compute" /\ o.layer = l /\ o.slot = s
ArrivedBeforeUse ==
  ~ Drained(Current) /\ Head(queue[Current]).op = "compute"
    => \A use \in Head(queue[Current]).uses, st \in Layers :
         ~ Touches(st, Head(queue[Current]).layer, use[2])

(* Host and device never wait for each other forever: a pass or a warmup   *)
(* that has begun comes to its end.                                        *)
PassesEnd == Busy ~> ~ Busy

=============================================================================
