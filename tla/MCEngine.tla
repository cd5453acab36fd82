------------------------------ MODULE MCEngine ------------------------------
(* The inference engine in four parts: a backend's generation with its cache  *)
(* and draft model, the engines of one process, the stream decoder of a       *)
(* thinking model, and the filters of the sampler.                            *)
EXTENDS Engine, EngineFront, ThinkingStream, Sampling

VARIABLES part,   \* the one that runs
          draw    \* the distribution and the settings a token is drawn with
mcVars == <<part, draw, engineVars, frontVars, streamVars>>

MCRows == {"p", "q"}
MCWords == {"w"}
MCBatches == {1, 2}
MCLengths == {1, 6}

MCEngines == {"e", "f"}
Plain == [speculative |-> FALSE, forceHf |-> FALSE, kv |-> "turboquant", keyBits |-> 4, valueBits |-> 2, device |-> "auto",
          param2 |-> FALSE, colossus |-> FALSE, hook |-> "builds", layersKnown |-> TRUE]
MCEngineConfigs == {Plain, [Plain EXCEPT !.speculative = TRUE], [Plain EXCEPT !.param2 = TRUE, !.colossus = TRUE],
                    [Plain EXCEPT !.kv = "none", !.colossus = TRUE, !.hook = "fails"]}
Cards == [vllm |-> TRUE, native |-> FALSE, starts |-> BOOLEAN, layerIdx |-> TRUE, cuda |-> TRUE, cards |-> 2, mps |-> FALSE]
MCInstallations == {Cards, [Cards EXCEPT !.native = TRUE],
                    [Cards EXCEPT !.cuda = FALSE, !.mps = TRUE], [Cards EXCEPT !.vllm = FALSE]}
MCModelLayers == <<1, 2>>

MCVocabulary == {<<"<think", ">">>, <<"</think", ">">>, <<"<tool_call", ">">>, <<"</tool_call", ">">>,
                 <<"</think">>, <<">">>, <<"word">>, <<"word", "</think", ">">>, <<"</think", ">", "word">>, <<"<think">>}

Draws == [weights : UNION {[1..n -> 0..3] : n \in 1..3}, inverse : 0..2, k : 0..4, p : {1, 50, 67, 90, 100}]

-----------------------------------------------------------------------------
AnyDraw == CHOOSE d \in Draws : TRUE

\* A part that does not run keeps one initial state.
MCEngineInit ==
  /\ part \in {"engine", "front", "stream", "draw"}
  /\ draw \in (IF part = "draw" THEN Draws ELSE {AnyDraw})
  /\ EngineInit
  /\ part # "engine" => config = [cache |-> "static", speculative |-> FALSE] /\ spec.hasDraft
  /\ StreamInit
  /\ FrontInit
  /\ settings["f"] = Plain
  /\ part # "front" => settings["e"] = Plain /\ installation = Cards

MCEngineNext ==
  \/ part = "engine" /\ EngineNext /\ UNCHANGED <<part, draw, frontVars, streamVars>>
  \/ part = "front" /\ FrontNext /\ UNCHANGED <<part, draw, engineVars, streamVars>>
  \/ part = "stream" /\ StreamNext /\ UNCHANGED <<part, draw, engineVars, frontVars>>
  \/ part \in {"stream", "draw"} /\ UNCHANGED mcVars   \* they stop, the engine does not

MCEngineSpec == MCEngineInit /\ [][MCEngineNext]_mcVars

\* Of speculative decoding: well typed, no token of the output is lost on the
\* way to the target model, and the counts agree with the output.
SpeculationKeepsBooks == SpecTypeOK /\ TargetMissesNothing /\ BooksBalance
\* Of the compressed cache: well typed, every layer sees the whole sequence,
\* and the rows behind the pointer hold what was decoded from them.
CompressedHolds == EngineTypeOK /\ CompressedSeesAll /\ RowsHoldHistory
\* The attention all engines share survives their patches, buffers read back
\* what was decoded, and a draft model that was asked for is used.
EnginesShareAttention == PatchesNest /\ BuffersReadBack /\ DraftsWhenAsked
\* Tokens are drawn from the nucleus, and a stream of them is taken apart as
\* the complete text is.
TextIsAsDrawn == StreamAgrees /\ (part = "draw" => NucleusKept(draw.weights, draw.inverse, draw.k, draw.p))
=============================================================================
