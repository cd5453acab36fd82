----------------------------- MODULE MCServing -------------------------------
(* Where the weights of a served model are.  Three parts of                   *)
(* rudra/serve_deepseek_colossus.py: the slots of one layer under two         *)
(* streams, the serving of a batch and the host's expert views.  And the      *)
(* column directory, the remote tensor cache and the experts moved to the     *)
(* CPU.  A behaviour exercises one of them.                                   *)
EXTENDS SlotStream, DeepSeekServe, HostViews, ColumnDirectory, RemoteCache, ExpertOffload

VARIABLE part   \* the one that runs
deepSeekVars == <<slotVars, deepVars, viewVars, dirVars>>
servingVars == <<part, deepSeekVars, remoteVars, offloadVars>>

MCTeacher == <<"a", "b", "a">>
MCPreset == <<3, 1>>
MCShardOf == [k \in Tensor |-> IF k = "a" THEN 1 ELSE 2]
MCSize == [k \in Tensor |-> IF k = "a" THEN 2 ELSE 3]

ServingInit ==
    /\ part \in {"slots", "serve", "views", "directory", "remote", "offload"}
    /\ SlotInit /\ (part /= "slots" => config = CHOOSE c \in LegalFlags : TRUE)
    /\ DeepInit /\ (part /= "serve" => flags = CHOOSE f \in CommandLine : TRUE)
    /\ ViewInit /\ DirInit /\ OffloadInit
    /\ RemoteInit /\ (part /= "remote" => hub)

ServingNext ==
    \/ part = "slots" /\ SlotNext /\ UNCHANGED <<part, deepVars, viewVars, dirVars, remoteVars, offloadVars>>
    \/ part = "serve" /\ DeepNext /\ UNCHANGED <<part, slotVars, viewVars, dirVars, remoteVars, offloadVars>>
    \/ part = "views" /\ ViewNext /\ UNCHANGED <<part, slotVars, deepVars, dirVars, remoteVars, offloadVars>>
    \/ part = "directory" /\ DirNext /\ UNCHANGED <<part, slotVars, deepVars, viewVars, remoteVars, offloadVars>>
    \/ part = "remote" /\ RemoteNext /\ UNCHANGED <<part, deepSeekVars, offloadVars>>
    \/ part = "offload" /\ OffloadNext /\ UNCHANGED <<part, deepSeekVars, remoteVars>>

ServingSpec == ServingInit /\ [][ServingNext]_servingVars

\* Every table of what is on the device agrees with what was put there, and
\* none holds more than it has room for.
TablesBounded == BooksAgree /\ ViewsBounded /\ DirectoryHolds
\* A request gets the tokens its own rows produce, with or without an audit.
EveryRowServed == AuditIsolatesPositions /\ ServedTogether
=============================================================================
